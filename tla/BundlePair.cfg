CONSTANTS
    Name <- MCName
    NoName = NoName
    Inputs <- ThreeTables
SPECIFICATION Spec
INVARIANTS
    ForeignKeysOnce
