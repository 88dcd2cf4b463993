SPECIFICATION Spec
CONSTANTS
    BUFFER_MAX = 2
    FILE_MAX = 1
    BYTES_MAX = 2
    ALLOC_FACTOR = 1
    PATH_MAX = 1
    GEN_MAX = 3
    U64_MAX = 3
    Blocks = {b1, b2}
    Streams = {f1}
    HostMemory = host
    Null = null
SYMMETRY Addresses
INVARIANTS GenerationsDistinct ResourcesOwnedOnce AllocatedExact SliceWithinParent AccessSound
PROPERTIES NoResurrection
