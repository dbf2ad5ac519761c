CONSTANTS
    Filters = {f1, f2}
    Priorities = {250, 750}
    Kinds = {"inplace", "shrink", "grow", "empty", "range"}
    Size = 3
    Chunk = 2
SPECIFICATION Spec
INVARIANTS
    EveryByteFiltered
    RangeAgreesWithWhole
PROPERTY
    ContentIsFixed
