\* One command at a time, three services, a pool that runs out.
SPECIFICATION Spec
CONSTANTS
    Cmds = {c1}
    Pids = {p1, p2, p3, p4, p5}
    Nil = Nil
    Broadcast = 4
    Manifests <- Several
    OnePerName = TRUE
    Cleanups = TRUE
    MaxFaults = 0
SYMMETRY Symmetry
INVARIANTS TypeOK WorkloadAddressesDistinct AddressesAccounted RecordsLive GatewaySingle WorkloadsRouted
