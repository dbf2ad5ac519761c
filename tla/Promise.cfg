CONSTANTS
    Setters = {s1, s2}
    Getter = getter
    Waiters = {w1, w2}
    Ops = {"set_value", "set_exception", "set_value_at_thread_exit"}
    Nothing = Nothing
SPECIFICATION FairSpec
INVARIANTS
    NobodySleepsOnReady
    DestroyedMeansReady
PROPERTIES
    WaitersAreReleased
