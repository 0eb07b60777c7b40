\* The diamond of the tests, elements added to every set, each to one of them.
CONSTANTS
    a = a
    b = b
    c = c
    NoSet = NoSet
    Elems = {a, b, c}
    Sets <- DiamondSets
    Supers <- DiamondSupers
    AddSets <- DiamondSets
    Exclusive = TRUE
    MaxSize = 3
SPECIFICATION Spec
PROPERTY RemoveKeepsOthers
