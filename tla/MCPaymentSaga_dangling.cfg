\* A crash between the reservation and its end.
\* The service rests when every event has been acknowledged.
SPECIFICATION Spec
CHECK_DEADLOCK FALSE
CONSTANTS
    Invoices = {i1, i2}
    MaxCopies = 1
    MaxFaults = 1
    Faults <- OnlyCrash
PROPERTY NoReservationLeft
