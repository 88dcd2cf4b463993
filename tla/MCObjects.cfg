SPECIFICATION MCSpec
CONSTANTS
    ALIGN = 2
    W32 = 1
    W64 = 2
    MAX_FILE = 12
    MAX_SYMBOLS = 5
    MAX_RELOCS = 6
    MAX_UNITS = 3
    LINK_BYTES = 12
    Images <- MCImages
    PAGE = 8
    RAW = 4
    HEADERS = 8
    SECTION_LIMIT = 20
    IMAGE_FILE = 30
    IMAGE_BASE = 40
    REACH = 24
    WORD = 90
    Files <- MCFiles
    Names <- MCNames
    Contracts <- MCContracts
    Damaged <- MCDamaged
    FILE_LIMIT = 28
    HEADER = 4
    SYMBOL = 2
    RELOC = 1
    NAME_LIMIT = 2
    CONTRACT_LIMIT = 2
    ASCII = 3
    FIELD_BASE = 9
    FIELD_REACH = 4
    FIELD_WORD = 32
    FIELD_LIMIT = 7
    StubTables <- MCTables
    STACK = 14
    FAULTS = 3
    Arguments <- MCArguments
    Previous <- MCPrevious
INVARIANTS NothingLeaks SucceedsExactly SitesReachNames LoadsAsLinked WrittenAndRead AssembledAlike Exact StubsResume
