CONSTANTS
    Native = {n0, n1}
    Init0 = n0
    Nobody = Nobody
    None = None
    MAX_PROCESS_COUNT = 3
    MAX_THREAD_COUNT = 4
    MaxClones = 1
    MaxHandles = 1
    Liberties = {}
SPECIFICATION Spec
PROPERTY JoinReturns

CHECK_DEADLOCK FALSE
