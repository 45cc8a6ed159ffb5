\* Two invoices, two faults; the agent rests when nobody asks for anything.
SPECIFICATION Spec
CHECK_DEADLOCK FALSE
CONSTANTS
    Invoices = {i1, i2}
    MaxFaults = 2
    Faults <- Survivable
INVARIANTS
    TypeOK
    OneEventPerDelivery
    AnswersAreTrue
PROPERTIES
    DecisionsStand
    SubmissionIsTakenUp
    ImplementsReview
