SPECIFICATION Spec
CONSTANTS
    MAX_WORD = 255
    Programs <- MCShared
    Buffers <- MCBuffers
    MAX_FAIL = 0
    JUNK = 77
PROPERTY EndsAsMeant
