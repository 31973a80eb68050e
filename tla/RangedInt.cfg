CONSTANTS
    RangedObjects <- MCRangedObjects
    TypeOf <- MCTypeOf
    Ints = {0, 1, 3}
    NDEBUG = TRUE
    NoInt = NoInt
SPECIFICATION RangedSpec
PROPERTIES CopyKnownOk
