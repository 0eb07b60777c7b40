\* The diamond of the tests, constructed in any order; any client.
CONSTANTS
    a = a
    b = b
    NoSet = NoSet
    NullSet = NullSet
    Elems = {a, b}
    Sets <- DiamondSets
    Supers <- DiamondSupers
    AddSets <- DiamondSets
    AllSets <- DeclaredSets
    SubsetsCalls <- DeclaredSubsets
    RedefinesCalls <- DeclaredRedefines
    CompositionCalls <- DeclaredCompositions
    Exclusive = FALSE
    MaxSize = 3
SPECIFICATION ElementSpec
CHECK_DEADLOCK FALSE
INVARIANTS
    TypeOK
    SizeCoversHoldings
    StoredIsReferenced
    GraphAsDeclared
    OneRootPerGroup
    CompositionKept
    NoDanglingEdges
