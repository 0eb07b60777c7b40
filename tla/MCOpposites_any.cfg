SPECIFICATION Spec
CONSTANTS
    e1 = e1
    e2 = e2
    e3 = e3
    Elems <- ThreeElems
    Features <- OwnerFeatures
    Singletons = {"owner"}
    Opp <- OwnerOpp
    Careful = FALSE
SYMMETRY Symmetric
INVARIANTS
    TypeOK
    StoredIsReferenced
