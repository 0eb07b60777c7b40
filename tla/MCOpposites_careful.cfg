SPECIFICATION Spec
CONSTANTS
    e1 = e1
    e2 = e2
    e3 = e3
    Elems <- ThreeElems
    Features <- OwnerFeatures
    Singletons = {"owner"}
    Opp <- OwnerOpp
    Careful = TRUE
SYMMETRY Symmetric
INVARIANTS
    OppositesMutual
    OneOwner
PROPERTIES
    ImplementsAssociations
