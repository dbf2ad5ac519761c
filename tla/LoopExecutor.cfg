CONSTANTS
    Closures = {c1, c2, c3}
    NoClosure = NoClosure
    MaxCalls = 3
CHECK_DEADLOCK FALSE
SPECIFICATION LoopSpec
INVARIANTS
    PopsWhatRan
    CopyIsPrefix
