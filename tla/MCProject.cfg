CONSTANTS
    e1 = e1
    e2 = e2
    e3 = e3
    none = none
    Ids <- ThreeIds
    NoElem = none
    MaxUses = 1
SYMMETRY Symmetric
SPECIFICATION Spec
INVARIANTS
    TypeOK
    ParsedIsSaved
    OwnersAgree
    PoliciesOnUnlessRefused
    PoliciesRanOnce
PROPERTIES
    PoliciesSeeWhole
    OpenKeepsOthers
