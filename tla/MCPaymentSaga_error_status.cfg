\* One look-up answered with an error status.
SPECIFICATION Spec
CONSTANTS
    Invoices = {i1, i2}
    MaxCopies = 2
    MaxFaults = 1
    Faults <- OnlyErrorStatus
INVARIANT AtMostOneCharge
