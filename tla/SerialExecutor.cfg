CONSTANTS
    Closures = {c1, c2, c3}
    Client = Client
    NoClosure = NoClosure
SPECIFICATION FairSpec
INVARIANTS
    TypeOK
    NeverConcurrent
    FirstInFirstOut
    SomebodyWillLook
    DestructorWaits
PROPERTIES
    DestructorReturns
    ImplementsFairSerialQueue
