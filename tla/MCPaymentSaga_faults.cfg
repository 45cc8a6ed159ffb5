\* Two invoices, two events each, two faults of every kind but misread look-ups.
\* The service rests when every event has been acknowledged.
SPECIFICATION Spec
CHECK_DEADLOCK FALSE
CONSTANTS
    Invoices = {i1, i2}
    MaxCopies = 2
    MaxFaults = 2
    Faults <- HonestReads
INVARIANTS
    TypeOK
    AtMostOneCharge
    OutcomeTruthful
PROPERTIES
    SagaOnlyAdvances
    RequestIsTakenUp
    ReservedIsAnnounced
    ImplementsLedger
