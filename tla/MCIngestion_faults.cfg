\* Four submissions of three invoices, two faults of every kind but
\* misread look-ups; the service rests when everything is published.
SPECIFICATION Spec
CHECK_DEADLOCK FALSE
CONSTANTS
    Submissions = {s1, s2, s3, s4}
    Invoices <- Hyphenated
    Words = {"acme", "east", "7"}
    Totals = {30, 40}
    MaxFaults = 2
    Faults <- HonestReads
INVARIANTS
    TypeOK
    AcceptedOnce
    PublishedIsRemembered
    RefusedForAReason
PROPERTY PassedIsPublished
