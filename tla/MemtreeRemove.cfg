\* rd /S of a directory with two files: the root and three more inodes, and
\* blocks for everything.
CONSTANTS
    inodeCount = 4
    blockCount = 8
    blockSize = 2
    inode_directLinks = 2
    Names = {a, b}
    Bytes = {x}
    Stale = Stale
    Wild = Wild
    Fds = {f1}
    MaxDepth = 2
    MaxWrite = 2
    Liberties = {"delete full directories"}
SPECIFICATION Spec
INVARIANT NoOrphans
CHECK_DEADLOCK FALSE
