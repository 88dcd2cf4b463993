SPECIFICATION MCSpec
CONSTANTS
    Callees <- MCCallees
    Functions <- MCFunctions
    PAGE = 32
    Seeds = {0, 1, 29}
    ENTRY = 121
    TOP = 135
    Programs <- MCPrograms
    Buffers <- MCBuffers
    MAX_WORD = 255
    MAX_FAIL = 12
    JUNK = 77
PROPERTIES MeansWhatItSays Hygienic EndsAsMeant
INVARIANTS StackKept DecodesBack FootprintTrue StaysInBuffers
