CONSTANTS
    Native = {n0, n1, n2, n3}
    Init0 = n0
    Nobody = Nobody
    None = None
    MAX_PROCESS_COUNT = 3
    MAX_THREAD_COUNT = 3
    MaxClones = 3
    MaxHandles = 1
    Liberties = {"overlapping clones", "shared joins", "full table",
                 "unknown programs", "abandoned children", "shutdown"}
SPECIFICATION Spec
INVARIANT
    StreamsStayOpen
CHECK_DEADLOCK FALSE
