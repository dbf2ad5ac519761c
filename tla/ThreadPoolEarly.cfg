CONSTANTS
    Closures = {c1, c2}
    Workers = {w1}
    MaxTime = 2
    NoClosure = NoClosure
SPECIFICATION Spec
INVARIANT NotEnqueuedEarly
