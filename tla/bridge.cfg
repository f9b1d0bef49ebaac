\* Two commands at a time, two services and the gateway, one command cut off, cleanup.
SPECIFICATION Spec
CONSTANTS
    Cmds = {c1, c2}
    Pids = {p1, p2}
    Nil = Nil
    Workloads <- MCWorkloads
    BridgeFirst <- MCBridgeFirst
    Unlinked <- MCUnlinked
    Unfiltered <- MCUnfiltered
    Prefix <- MCPrefix
    Residue <- MCResidue
    Collisions = FALSE
    MaxFaults = 1
SYMMETRY Symmetry
INVARIANTS TypeOK ConnectedWhenDone BridgeReady
PROPERTIES LinksLeftAlone CleanupRemovesHanging ProcessesConnected
