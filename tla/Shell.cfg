\* The lines of MCShell one after the other, as long as at most two ends of pipes
\* or processes are left over from those before.
CONSTANTS
    Lines <- SomeLines
    Pipes = {k1, k2}
    Pids = {p1, p2, p3}
    PIPE_SIZE = 1
    MaxOutput = 2
    MaxLeft = 2
    Liberties = {}
SPECIFICATION Spec
INVARIANTS
    TypeOK
    EndOfInputIsTrue
PROPERTIES
    NothingLeftBehind
    LinesEnd
