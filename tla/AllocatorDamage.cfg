SPECIFICATION Spec
CONSTANTS
    page_size = 8
    HEADER_SIZE = 2
    SIZE_MOD = 64
    Space = 32
    Sizes = {6}
    Arrays = {}
INVARIANTS
    NotDamaged
