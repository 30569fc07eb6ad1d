CONSTANTS
    N = 4
    Name <- MCName
    NoName = NoName
    Inputs <- MCInputs
SPECIFICATION FairSpec
INVARIANTS
    TypeOK
    TopologicalOrder
    CountsAreExact
    ReadyIsExact
    CycleIsReal
PROPERTIES
    SortReturns
    KeepsPromise
