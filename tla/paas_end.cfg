\* One command at a time and one fault anywhere.
SPECIFICATION Spec
CONSTANTS
    Cmds = {c1}
    Pids = {p1, p2, p3, p4}
    Nil = Nil
    Broadcast = 3
    Manifests <- Unlike
    OnePerName = TRUE
    Cleanups = FALSE
    MaxFaults = 1
PROPERTIES CommandsEnd DeleteCompletes
\* Commands that find no room are not started.
CHECK_DEADLOCK FALSE
