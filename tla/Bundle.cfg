CONSTANTS
    Name <- MCName
    NoName = NoName
    Inputs <- MCTrees
    Destinations <- MCDestinations
SPECIFICATION CommandsSpec
INVARIANTS
    Executable
    NothingLost
    UntouchedOutsideCycles
    CyclesAreGenuine
    CheckPredictsBuild
    NoFalseUnknown
    FlagsAreCycles
    ExternalsAreTheUnknowns
    BundleInTreeIsReported
