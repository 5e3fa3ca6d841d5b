\* Any program may stand behind a pipe: one that ends without reading leaves
\* the pipe's read end open until it is awaited, and the shell awaits the
\* writer first.
CONSTANTS
    Lines <- SomeLines
    Pipes = {k1}
    Pids = {p1, p2}
    PIPE_SIZE = 1
    MaxOutput = 2
    MaxLeft = 0
    Liberties = {"unread pipes"}
SPECIFICATION Spec
PROPERTY
    LinesEnd
