\* Three events, one refused for good, up to two faults of every kind the contract tolerates.
SPECIFICATION Spec
CONSTANTS
    Events = {e1, e2, e3}
    Rejected = {e3}
    MaxBatch = 2
    Attempts = 2
    MaxFaults = 2
    Faults <- HonestReads
INVARIANTS
    TypeOK
    NoLostEvent
    QueueHasNoDuplicates
    DispatchedWasPublished
PROPERTIES
    DispatchedForGood
    DispatchedLeavesQueue
    ImplementsContract
