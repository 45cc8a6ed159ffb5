\* Only the administrator's name, two attempts, three faults.
SPECIFICATION Spec
CHECK_DEADLOCK FALSE
CONSTANTS
    Names = {admin}
    AdminName = admin
    Passwords = {secret, other}
    AdminPassword = secret
    SelfServiceRoles <- RolesOnOffer
    Attempts = 2
    MaxFaults = 3
    Faults <- SlowSidecar
PROPERTY AlwaysAWayIn
