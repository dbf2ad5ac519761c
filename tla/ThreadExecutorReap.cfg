CONSTANTS
    Closures = {c1, c2, c3}
    Client = Client
SPECIFICATION Spec
INVARIANT ReapsAllThreads
