CONSTANTS
    Sources <- MCSources
SPECIFICATION Spec
INVARIANTS
    SplitsAtCode
    CommentsAttached
    TokensTile
    RoundTrip
    WirePositions
    NamesAreFound
    CompletionSeesTheCode
PROPERTIES
    SplitEnds
CHECK_DEADLOCK FALSE
