\* Two processes, Redis comes and goes.
SPECIFICATION Spec
CONSTANTS
    Clients = {c1, c2}
    Broadcast = 4
    MaxAttempts = 2
    Outages = TRUE
INVARIANT SharedIsFirst
PROPERTIES AllocationsPersist BridgeKept CallsReturn
