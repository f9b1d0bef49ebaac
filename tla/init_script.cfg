\* A service whose script lies in a directory of the host.
SPECIFICATION Spec
CONSTANTS
    Inits = {i1}
    Nil = Nil
    Dirs <- MCDirs
    HostDirs <- MCHostDirs
    AppDir = "/app"
    MaxFaults = 1
INVARIANT ScriptAccessible
