\* The administrator and one more name, two passwords, three faults of every kind
\* but misread look-ups.
\* With all names taken and no administrator nothing can happen any more.
SPECIFICATION Spec
CHECK_DEADLOCK FALSE
CONSTANTS
    Names = {admin, user}
    AdminName = admin
    Passwords = {secret, other}
    AdminPassword = secret
    SelfServiceRoles <- RolesOnOffer
    Attempts = 2
    MaxFaults = 3
    Faults <- HonestReads
INVARIANTS
    TypeOK
    NoTokenWithoutApproval
    PendingIsShown
PROPERTIES
    StartsWithAdmin
    ImplementsEnrolment
