SPECIFICATION Spec
CONSTANTS
    page_size = 8
    HEADER_SIZE = 2
    SIZE_MOD = 64
    Space = 32
    Sizes = {6, 7, 14, 61, 63}
    Arrays <- TheArrays
INVARIANTS
    Inv
    AllReturned
    FitsRequest
PROPERTIES
    ImplementsMalloc
