CONSTANTS
    Paths = {"new", "old"}
    Capable = {"new"}
    MaxEvents = 4
    Files <- MCFiles
    SchemaDir <- MCSchemaDir
    RelativeFile <- MCRelativeFile
    WorkspaceFolder <- MCWorkspaceFolder
    Targets <- MCTargets
SPECIFICATION Spec
INVARIANT RestartsForThePath
CHECK_DEADLOCK FALSE
