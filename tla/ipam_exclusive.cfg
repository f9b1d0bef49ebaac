\* Three processes race for a subnet of three host addresses; Redis stays up.
SPECIFICATION Spec
CONSTANTS
    Clients = {c1, c2, c3}
    Broadcast = 4
    MaxAttempts = 2
    Outages = FALSE
SYMMETRY ClientSymmetry
INVARIANTS TypeOK LeasesExclusive
PROPERTY LeaseSpec
