\* A database and another one that may get its pid, two creates at a time.
SPECIFICATION Spec
CONSTANTS
    Cmds = {c1, c2}
    Dbs = {user_db, other_db}
    Pids = {p1, p2, p3}
    Orphan = Orphan
    Nil = Nil
    Overlaps = FALSE
    MaxFaults = 1
INVARIANTS TypeOK OneServer RemoteAccess
PROPERTIES DataKept DirectoriesKept CreateServes
