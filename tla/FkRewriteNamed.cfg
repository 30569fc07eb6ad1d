CONSTANTS
    Layouts <- Named
SPECIFICATION Spec
INVARIANTS
    NoOrphanName
