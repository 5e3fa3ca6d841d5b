\* Two programs on a disk whose directories are two deep. Two names are as many
\* as the programs need to meet at one place and to miss each other at another.
CONSTANTS
    FileNames = {"a", "b"}
    Labels = {"C:", "procfs:", "stdio:", "pipe:", "D:"}
    Slots = {s1, s2}
    CdPaths <- CdFew
    TypedPaths <- TypedFew
    AllPaths <- SomePaths
    MaxDepth = 2
SPECIFICATION Spec
SYMMETRY Symmetry
INVARIANTS
    TypeOK
    NormalizeMeetsReference
PROPERTY
    KeepsWhatWasThere
\* A path on a drive that is not mounted ends the kernel.
CHECK_DEADLOCK FALSE
