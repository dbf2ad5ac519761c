CONSTANTS
    Closures = {c1, c2}
    Workers = {w1, w2}
    MaxTime = 1
    NoClosure = NoClosure
SPECIFICATION FairSpec
INVARIANTS
    FirstInFirstOut
    ScheduledOnce
    NextAvailableThread
    SleepsForTheTop
PROPERTIES
    QueuedIsStarted
    DestructorReturns
