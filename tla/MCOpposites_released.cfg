SPECIFICATION Spec
CONSTANTS
    e1 = e1
    e2 = e2
    e3 = e3
    Elems <- ThreeElems
    Features <- PeerFeatures
    Singletons = {}
    Opp <- PeerOpp
    Careful = FALSE
SYMMETRY Symmetric
INVARIANT OppositesMutual
