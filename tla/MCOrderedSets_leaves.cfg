\* The client adds at the ends of the graph only, to one set per element.
CONSTANTS
    a = a
    b = b
    NoSet = NoSet
    NullElem = NullElem
    Broken = Broken
    Elems = {a, b}
    Sets <- DiamondLeafSets
    Supers <- DiamondLeafSupers
    AddSets = {"root", "bottom", "leaf"}
    Ordered = {"root", "bottom"}
    Exclusive = TRUE
    MaxSize = 3
    MaxOrder = 3
    MaxRefused = 1
SPECIFICATION OrderedFairSpec
INVARIANTS
    MarksExact
    ContainsExact
    StoredOncePerLine
    SizeExact
    ListExact
    OrdersAgree
    IterationExact
PROPERTIES
    OrderedClearLeavesEmpty
    ClearTerminates
    ImplementsMemberSets
    ClearThrowsOnlyAfterRefusal
