CONSTANTS
    N = 4
    Name <- MCName
    NoName = NoName
    Inputs <- MCInputs
SPECIFICATION FairSpec
INVARIANTS
    PoppedAreComponents
    StackIsOpenNodes
    ReturnsTheCycles
PROPERTIES
    SCCsReturns
