CONSTANTS
    NumPaths = 2
    NumIds = 2
    NumModules = 2
    Contents <- MCContents
SPECIFICATION Spec
INVARIANTS
    FiltersApply
    OwnersAlive
    ShelfSurvives
PROPERTIES
    CallsReturn
