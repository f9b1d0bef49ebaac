\* Three services at a time on one rootfs, one init killed.
SPECIFICATION Spec
CONSTANTS
    Inits = {i1, i2, i3}
    Nil = Nil
    Dirs <- MCDirs
    HostDirs <- MCHostDirs
    AppDir = "/app"
    MaxFaults = 1
INVARIANTS TypeOK HostHidden AppOwn OldrootRemoved
PROPERTY AloneSucceeds
