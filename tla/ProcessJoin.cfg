CONSTANTS
    Native = {n0, n1, n2, n3}
    Init0 = n0
    Nobody = Nobody
    None = None
    MAX_PROCESS_COUNT = 4
    MAX_THREAD_COUNT = 5
    MaxClones = 4
    MaxHandles = 1
    Liberties = {"unknown programs"}
SPECIFICATION Spec
INVARIANTS
    TypeOK
    NoCrash
    ThreadIdentity
    JoinReturnsRequested
    JoinedRecordKept
    NothingLeaks
PROPERTIES
    SleepersGetOut
CHECK_DEADLOCK FALSE
