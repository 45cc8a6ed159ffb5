\* A crash between the transaction and the queue update.
SPECIFICATION Spec
CONSTANTS
    Events = {e1, e2}
    Rejected = {}
    MaxBatch = 2
    Attempts = 2
    MaxFaults = 1
    Faults <- OnlyCrash
PROPERTY CommittedIsPublished
