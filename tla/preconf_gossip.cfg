SPECIFICATION Spec
CONSTANTS
    U64 = 32
    Stream <- GappyStream
    MayArrive <- AnyTime
INVARIANTS
    EngineSeesWholePrefixes
    HeldExactlyUntilReady
    OnlyOutdatedEventsDropped
