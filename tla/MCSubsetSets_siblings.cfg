\* The diamond, one element added to both sets of the middle row.
CONSTANTS
    a = a
    b = b
    c = c
    NoSet = NoSet
    Elems = {a, b}
    Sets <- DiamondSets
    Supers <- DiamondSupers
    AddSets = {"left", "right"}
    Exclusive = FALSE
    MaxSize = 3
SPECIFICATION Spec
INVARIANT SizeExact
