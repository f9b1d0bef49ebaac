\* A service is deleted.
SPECIFICATION Spec
CONSTANTS
    Cmds = {c1}
    Pids = {p1, p2, p3, p4}
    Nil = Nil
    Broadcast = 5
    Manifests <- OneService
    OnePerName = TRUE
    Cleanups = FALSE
    MaxFaults = 0
SYMMETRY Symmetry
INVARIANT RoutesCurrent
