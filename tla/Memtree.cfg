\* A root and two more inodes. The three blocks carry a root with a directory
\* in it and a file in that, or a root and two files; a third file's blocks,
\* or a longer file, find the disk full. A directory can grow past one block
\* only by entries that two names do not need; a file spans both its blocks.
CONSTANTS
    inodeCount = 3
    blockCount = 3
    blockSize = 2
    inode_directLinks = 2
    Names = {a, b}
    Bytes = {x}
    Stale = Stale
    Wild = Wild
    Fds = {f1}
    MaxDepth = 2
    MaxWrite = 2
    Liberties = {"delete full directories", "recreate directories"}
SPECIFICATION Spec
SYMMETRY Symmetry
INVARIANTS
    TypeOK
    BlocksAccounted
    EntriesNameLiveNodes
    DescriptorsLive
PROPERTIES
    OneFileChanges
    ImplementsTree
\* A read or a scan outside the disk ends the program.
CHECK_DEADLOCK FALSE
