CONSTANTS
    File <- MCFile
    Dir <- MCDir
    Above <- MCAbove
    Configs <- MCConfigs
    Start <- Configured
    MaxMessages = 3
    MaxEdits = 1
    MaxConfigEdits = 1
SPECIFICATION FairSpec
INVARIANTS
    DiagnosticsAreCurrent
    NoGhostDiagnostics
    OverlayFollowsBuffers
PROPERTIES
    AnswersAreCurrent
    MessagesAreHandled
CHECK_DEADLOCK FALSE
