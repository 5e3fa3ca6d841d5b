\* Three pids: an entry has one before it and one behind it.
CONSTANTS
    Pids = {1, 2, 3}
    ProgramNames <- TwoNames
SPECIFICATION Spec
INVARIANTS
    TypeOK
    EntriesMatch
    PsListsLasting
PROPERTY
    PsEnds
\* An exception in the kernel ends the system.
CHECK_DEADLOCK FALSE
