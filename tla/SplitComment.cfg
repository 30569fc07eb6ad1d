CONSTANTS
    Sources <- Trailing
SPECIFICATION Spec
INVARIANTS
    StatementsSurvive
CHECK_DEADLOCK FALSE
