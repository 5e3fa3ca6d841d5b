CONSTANTS
    Writers = {w1, w2}
    Readers = {r1}
    Bytes = {1, 2}
    PIPE_SIZE = 2
    SIZE_MAX = 7
    MaxChunk = 2
    OrderlyClose = TRUE
SPECIFICATION Spec
INVARIANTS
    TypeOK
    TokensBalance
    ShortCallsMeanClosed
PROPERTIES
    ImplementsChannel
    ReturnAfterClose
