SPECIFICATION Spec
CONSTANTS
    i1 = i1
    i2 = i2
    i3 = i3
    h1 = h1
    h2 = h2
    NoId = NoId
    Ids <- ThreeIds
    Handles <- TwoHandles
    Keeps = TRUE
SYMMETRY Symmetric
INVARIANTS
    EraseNeverThrows
    ErasedIsForgotten
PROPERTIES
    ImplementsElementPool
CHECK_DEADLOCK FALSE
