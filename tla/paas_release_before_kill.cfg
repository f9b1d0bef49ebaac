\* A create between the release of an address and the kill of its workload.
SPECIFICATION Spec
CONSTANTS
    Cmds = {c1, c2}
    Pids = {p1, p2, p3, p4, p5}
    Nil = Nil
    Broadcast = 5
    Manifests <- TwoDatabases
    OnePerName = TRUE
    Cleanups = FALSE
    MaxFaults = 0
SYMMETRY Symmetry
INVARIANT WorkloadAddressesDistinct
