\* One command at a time and two faults anywhere, cleanup.
SPECIFICATION Spec
CONSTANTS
    Cmds = {c1}
    Pids = {p1, p2, p3}
    Nil = Nil
    Broadcast = 3
    Manifests <- Halfway
    OnePerName = TRUE
    Cleanups = TRUE
    MaxFaults = 2
SYMMETRY Symmetry
PROPERTIES DeleteNeverOrphans ProcessesConnected
\* Commands that find no room are not started.
CHECK_DEADLOCK FALSE
