CONSTANTS
    Layouts <- MCLayouts
SPECIFICATION Spec
INVARIANTS
    RemovesByItem
    KeepsTheRest
