\* Two commands at a time, two databases.
SPECIFICATION Spec
CONSTANTS
    Cmds = {c1, c2}
    Pids = {p1, p2, p3, p4}
    Nil = Nil
    Broadcast = 4
    Manifests <- TwoDatabases
    OnePerName = TRUE
    Cleanups = FALSE
    MaxFaults = 0
SYMMETRY Symmetry
INVARIANTS LeasesAllocated WorkloadsTracked SharedOnlyBeforeKill
PROPERTIES LostOnlyToConflict WorkloadLeases ProcessesConnected
\* Commands that find no room are not started.
CHECK_DEADLOCK FALSE
