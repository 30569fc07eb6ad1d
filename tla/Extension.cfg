CONSTANTS
    Paths = {"new", "old"}
    Capable = {"new"}
    MaxEvents = 4
    Files <- MCFiles
    SchemaDir <- MCSchemaDir
    RelativeFile <- MCRelativeFile
    WorkspaceFolder <- MCWorkspaceFolder
    Targets <- MCTargets
SPECIFICATION FairSpec
INVARIANTS
    OneServerForThePath
    FailuresAreToldOnce
    PageShowsTheTarget
    OpensTheNodesFile
PROPERTY PageIsAnswered
CHECK_DEADLOCK FALSE
