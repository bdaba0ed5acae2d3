CONSTANTS
    BDD_NUM_LEAVES = 4
    BDD_NODES_MAX = 12
    BDD_LEVELS_MAX = 4
    BDD_HASH_SIZE = 257
    RASTER_SIZE_MAX = 12
    UINT_SIZE = 16
    Rasters <- SomeRasters
    ArgLists <- SomeArgLists
    NumberOf <- SomeNumbers
SPECIFICATION Spec
INVARIANTS StreamCanonical
PROPERTIES ImplementsPictures ExitsOnlyWhenFull
\* A run that wrote past an array ends the behaviour.
CHECK_DEADLOCK FALSE
