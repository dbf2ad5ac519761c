CONSTANTS
    Setter = setter
    Caller = caller
    Worker = worker
    Nobody = nobody
    Kinds = {"async", "executor", "deferred"}
    MayAbandon = TRUE
CHECK_DEADLOCK FALSE
SPECIFICATION FairSpec
INVARIANTS
    NotDestroyedUnderThread
    CalledOnce
PROPERTY
    BothReturn
