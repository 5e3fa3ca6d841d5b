\* init and one more process, created again and again. Three descriptors, one
\* pipe: a console and the two ends of the pipe, or files when these are
\* closed, so that both tables do get full. A process gets its standard handle
\* and two more.
CONSTANTS
    Processes = {init, p1}
    init = init
    fdCount = 3
    pipeCapacity = 1
    StdHandles = 1
    MaxHandles = 3
    Liberties = {}
SPECIFICATION Spec
INVARIANTS
    TypeOK
    CountersMatch
    PipesMatch
    ThreadsInsideOpen
    NothingLost
PROPERTY
    HandlesStable
