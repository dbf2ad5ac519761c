CONSTANTS
    NumIds = 2
    MaxItems = 2
    MaxRefs = 3
    MaxBindings = 2
SPECIFICATION Spec
INVARIANTS
    ReadingOrder
    CfiFindsItem
    OpenIsValid
PROPERTY
    OpeningEnds
CHECK_DEADLOCK FALSE
