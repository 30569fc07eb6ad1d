CONSTANTS
    Name <- MCName
    NoName = NoName
    Inputs <- Mixed
SPECIFICATION Spec
INVARIANTS
    RequiresRespected
