-------------------------------- MODULE Ipam --------------------------------
(***************************************************************************)
(* IP address management: GetIpam, GetIp, ReleaseIp and                    *)
(* GetOrAcquireEnvoyIp of network/network_manager.go, run by concurrent    *)
(* CLI processes against one prefix kept in Redis by the go-ipam library.  *)
(*                                                                         *)
(* The library (external) changes the prefix optimistically: an operation  *)
(* reads the prefix, computes the new set of allocated addresses, and      *)
(* writes it back only if nobody wrote in between; a conflicting attempt   *)
(* is repeated a bounded number of times.  Here "nobody wrote in between"  *)
(* is membership in the set stale, which every write fills.                *)
(*                                                                         *)
(* When Redis does not answer the 200ms probe, a process works on a prefix *)
(* of its own in memory.  That prefix is empty at the process's first      *)
(* operation, and what the process does with it later is not visible to    *)
(* anyone, so the in-memory branch is a single step here.                  *)
(***************************************************************************)
EXTENDS Integers

CONSTANTS
    Clients,      \* CLI processes, each on behalf of one workload
    Broadcast,    \* the last address of the subnet (255 in 10.0.0.0/24)
    MaxAttempts,  \* attempts the library makes at a conflicting update
    Outages       \* whether Redis may become unreachable

ASSUME BroadcastAssumption == Broadcast \in Nat /\ Broadcast >= 4
ASSUME MaxAttemptsAssumption == MaxAttempts \in Nat \ {0}
ASSUME OutagesAssumption == Outages \in BOOLEAN

Subnet   == 0 .. Broadcast
EnvoyIp  == 1                   \* 10.0.0.1
BridgeIp == Broadcast - 1       \* 10.0.0.254
Hosts    == 1 .. BridgeIp       \* all but network and broadcast address
NoIp     == -1                  \* the empty string of IpamStruct{}

VARIABLES
    redisUp,    \* whether Redis answers
    hasPrefix,  \* whether 10.0.0.0/24 exists in Redis
    ips,        \* the addresses allocated in it
    stale,      \* the clients with no copy of ips, or with an outdated one
    pc,         \* where each client is
    op,         \* what it was called for: "get", "release" or "envoy"
    snap,       \* the copy of ips it read
    tries,      \* how often its update has conflicted
    lease       \* the address each workload has been told is its own

redis == <<redisUp, hasPrefix, ips>>
local == <<stale, pc, op, snap, tries>>
vars  == <<redisUp, hasPrefix, ips, stale, pc, op, snap, tries, lease>>

Ops   == {"get", "release", "envoy"}
Steps == {"idle", "probe", "prefix", "create", "reserve", "reserveUpdate",
          "read", "update"}

TypeOK ==
    /\ redisUp \in BOOLEAN
    /\ hasPrefix \in BOOLEAN
    /\ ips \in SUBSET Subnet
    /\ stale \in SUBSET Clients
    /\ pc \in [Clients -> Steps]
    /\ op \in [Clients -> Ops]
    /\ snap \in [Clients -> SUBSET Subnet]
    /\ tries \in [Clients -> 0 .. MaxAttempts]
    /\ lease \in [Clients -> Hosts \cup {NoIp}]

Init ==
    /\ redisUp = TRUE
    /\ hasPrefix = FALSE
    /\ ips = {}
    /\ stale = Clients
    /\ pc = [c \in Clients |-> "idle"]
    /\ op = [c \in Clients |-> "get"]
    /\ snap = [c \in Clients |-> {}]
    /\ tries = [c \in Clients |-> 0]
    /\ lease = [c \in Clients |-> NoIp]

-----------------------------------------------------------------------------
(* Helpers *)

Goto(c, step) == pc' = [pc EXCEPT ![c] = step]

\* GetIpam is done: start the operation proper.
ToRead(c) ==
    /\ pc' = [pc EXCEPT ![c] = "read"]
    /\ snap' = [snap EXCEPT ![c] = {}]
    /\ tries' = [tries EXCEPT ![c] = 0]

\* The operation returns and the workload's address is a from now on.
Return(c, a) ==
    /\ pc' = [pc EXCEPT ![c] = "idle"]
    /\ op' = [op EXCEPT ![c] = "get"]
    /\ snap' = [snap EXCEPT ![c] = {}]
    /\ tries' = [tries EXCEPT ![c] = 0]
    /\ lease' = [lease EXCEPT ![c] = a]

\* The operation returns an error.  GetIp's caller goes on with the empty
\* address; deleteProcess logs the error and drops the record with the address
\* in it; StartEnvoy uses 10.0.0.1 all the same if only the allocation fails, and
\* does not connect Envoy if GetIpam does.
Fail(c) ==
    /\ Return(c, IF op[c] = "release" THEN NoIp ELSE lease[c])
    /\ stale' = stale \cup {c}

\* Mutant of Commit: the write does not check that the copy is current.
CommitBlind(c, S) ==
    /\ redisUp
    /\ ips' = S
    /\ stale' = Clients

\* Write S back as the set of allocated addresses, if nobody wrote since the
\* read: from now on every other copy is out of date.
Commit(c, S) ==
    /\ redisUp
    /\ c \notin stale
    /\ ips' = S
    /\ stale' = Clients

-----------------------------------------------------------------------------
(* The calls *)

\* runCreate asks for an address, deleteProcess gives the recorded one back,
\* StartEnvoy claims 10.0.0.1.
Call(c, o) ==
    /\ pc[c] = "idle"
    /\ o = "get" => lease[c] = NoIp
    /\ o = "release" => lease[c] # NoIp
    /\ op' = [op EXCEPT ![c] = o]
    /\ Goto(c, "probe")
    /\ UNCHANGED <<redis, stale, snap, tries, lease>>

\* GetIpam pings Redis and falls back to memory.  In a fresh in-memory prefix
\* the network, the broadcast and the bridge address are taken, so AcquireIP
\* returns 10.0.0.1, and a recorded address cannot be released.
Probe(c) ==
    /\ pc[c] = "probe"
    /\ \/ /\ redisUp
          /\ Goto(c, "prefix")
          /\ UNCHANGED <<stale, op, snap, tries, lease>>
       \/ /\ ~redisUp
          /\ op[c] = "get"
          /\ Return(c, EnvoyIp)
          /\ UNCHANGED stale
       \/ /\ ~redisUp
          /\ op[c] # "get"
          /\ Fail(c)
    /\ UNCHANGED redis

\* ipam.PrefixFrom: an unreadable prefix is treated like a missing one.
PrefixFrom(c) ==
    /\ pc[c] = "prefix"
    /\ Goto(c, IF redisUp /\ hasPrefix THEN "read" ELSE "create")
    /\ UNCHANGED <<redis, stale, op, snap, tries, lease>>

\* Mutant of NewPrefix: creating the prefix again overwrites it.
NewPrefixOverwrites(c) ==
    /\ pc[c] = "create"
    /\ redisUp
    /\ hasPrefix' = TRUE
    /\ ips' = {0, Broadcast}
    /\ stale' = Clients
    /\ Goto(c, "reserve")
    /\ UNCHANGED <<redisUp, op, snap, tries, lease>>

\* Mutant of NewPrefix: the network address is not allocated.
NewPrefixAllFree(c) ==
    /\ pc[c] = "create"
    /\ redisUp /\ ~hasPrefix
    /\ hasPrefix' = TRUE
    /\ ips' = {}
    /\ stale' = Clients
    /\ Goto(c, "reserve")
    /\ UNCHANGED <<redisUp, op, snap, tries, lease>>

\* ipam.NewPrefix allocates the network and the broadcast address.  If another
\* process created the prefix in the meantime the library reports an error;
\* GetIpam tolerates it only if its text contains "already".
NewPrefix(c) ==
    /\ pc[c] = "create"
    /\ \/ /\ redisUp /\ ~hasPrefix
          /\ hasPrefix' = TRUE
          /\ ips' = {0, Broadcast}
          /\ stale' = Clients
          /\ Goto(c, "reserve")
          /\ UNCHANGED <<op, snap, tries, lease>>
       \/ /\ redisUp /\ hasPrefix
          /\ Goto(c, "reserve")
          /\ UNCHANGED <<hasPrefix, ips, stale, op, snap, tries, lease>>
       \/ /\ ~redisUp \/ hasPrefix
          /\ Fail(c)
          /\ UNCHANGED <<hasPrefix, ips>>
    /\ UNCHANGED redisUp

\* Every library operation starts by reading the prefix.
ReadPrefix(c) ==
    /\ pc[c] \in {"reserve", "read"}
    /\ redisUp
    /\ snap' = [snap EXCEPT ![c] = ips]
    /\ stale' = stale \ {c}
    /\ Goto(c, IF pc[c] = "reserve" THEN "reserveUpdate" ELSE "update")
    /\ UNCHANGED <<redis, op, tries, lease>>

\* GetIpam reserves the bridge's address and ignores the outcome.
ReserveBridge(c) ==
    /\ pc[c] = "reserveUpdate"
    /\ \/ /\ BridgeIp \notin snap[c]
          /\ Commit(c, snap[c] \cup {BridgeIp})
       \/ /\ BridgeIp \in snap[c]
          /\ stale' = stale \cup {c}
          /\ UNCHANGED ips
    /\ ToRead(c)
    /\ UNCHANGED <<redisUp, hasPrefix, op, lease>>

\* Mutant of AcquireIP: the address is returned without being written back.
AcquireIPVolatile(c) ==
    /\ pc[c] = "update" /\ op[c] = "get"
    /\ \E a \in Subnet \ snap[c] :
          /\ \A b \in Subnet \ snap[c] : a <= b
          /\ Return(c, a)
    /\ stale' = stale \cup {c}
    /\ UNCHANGED redis

\* GetIp: ipam.AcquireIP takes the lowest address that is not allocated.
AcquireIP(c) ==
    /\ pc[c] = "update" /\ op[c] = "get"
    /\ LET free == Subnet \ snap[c] IN
       \/ \E a \in free :
             /\ \A b \in free : a <= b
             /\ Commit(c, snap[c] \cup {a})
             /\ Return(c, a)
       \/ /\ free = {}
          /\ Fail(c)
          /\ UNCHANGED ips
    /\ UNCHANGED <<redisUp, hasPrefix>>

\* ReleaseIp: ipam.ReleaseIPFromPrefix, an error if the address is not allocated.
ReleaseIp(c) ==
    /\ pc[c] = "update" /\ op[c] = "release"
    /\ \/ /\ lease[c] \in snap[c]
          /\ Commit(c, snap[c] \ {lease[c]})
          /\ Return(c, NoIp)
       \/ /\ lease[c] \notin snap[c]
          /\ Fail(c)
          /\ UNCHANGED ips
    /\ UNCHANGED <<redisUp, hasPrefix>>

\* GetOrAcquireEnvoyIp: allocate 10.0.0.1 if it is free, use it in any case.
AcquireEnvoyIp(c) ==
    /\ pc[c] = "update" /\ op[c] = "envoy"
    /\ \/ /\ EnvoyIp \notin snap[c]
          /\ Commit(c, snap[c] \cup {EnvoyIp})
          /\ Return(c, lease[c])
       \/ /\ EnvoyIp \in snap[c]
          /\ Fail(c)
          /\ UNCHANGED ips
    /\ UNCHANGED <<redisUp, hasPrefix>>

\* Mutant of Conflict: the attempts are not counted.
ConflictForever(c) ==
    /\ pc[c] \in {"reserveUpdate", "update"}
    /\ redisUp /\ c \in stale
    /\ Goto(c, IF pc[c] = "update" THEN "read" ELSE "reserve")
    /\ snap' = [snap EXCEPT ![c] = {}]
    /\ UNCHANGED <<redis, stale, op, tries, lease>>

\* The update conflicts with someone else's: read again, at most MaxAttempts
\* times.  Giving up is ignored for the bridge's address.
Conflict(c) ==
    /\ pc[c] \in {"reserveUpdate", "update"}
    /\ redisUp /\ c \in stale
    /\ LET again == tries[c] + 1 < MaxAttempts IN
       \/ /\ again
          /\ Goto(c, IF pc[c] = "update" THEN "read" ELSE "reserve")
          /\ tries' = [tries EXCEPT ![c] = @ + 1]
          /\ snap' = [snap EXCEPT ![c] = {}]
          /\ UNCHANGED <<stale, op, lease>>
       \/ /\ ~again /\ pc[c] = "reserveUpdate"
          /\ ToRead(c)
          /\ UNCHANGED <<stale, op, lease>>
       \/ /\ ~again /\ pc[c] = "update"
          /\ Fail(c)
    /\ UNCHANGED redis

\* Redis went away after the probe.  Again the bridge's address is given up.
Unreachable(c) ==
    /\ ~redisUp
    /\ \/ /\ pc[c] \in {"reserve", "reserveUpdate"}
          /\ ToRead(c)
          /\ stale' = stale \cup {c}
          /\ UNCHANGED <<op, lease>>
       \/ /\ pc[c] \in {"read", "update"}
          /\ Fail(c)
    /\ UNCHANGED redis

-----------------------------------------------------------------------------
(* The environment *)

\* The CLI process dies (a signal, log.Fatalf, panic) in the middle of a call.
\* A release that has not been written leaves the record in place for a retry.
Crash(c) ==
    /\ pc[c] # "idle"
    /\ Return(c, lease[c])
    /\ stale' = stale \cup {c}
    /\ UNCHANGED redis

RedisToggle ==
    /\ Outages
    /\ redisUp' = ~redisUp
    /\ UNCHANGED <<hasPrefix, ips, local, lease>>

-----------------------------------------------------------------------------
Step(c) ==
    \/ Probe(c) \/ PrefixFrom(c) \/ NewPrefix(c) \/ ReadPrefix(c)
    \/ ReserveBridge(c) \/ AcquireIP(c) \/ ReleaseIp(c) \/ AcquireEnvoyIp(c)
    \/ Conflict(c) \/ Unreachable(c)

Next ==
    \/ \E c \in Clients :
          \/ \E o \in Ops : Call(c, o)
          \/ Step(c)
          \/ Crash(c)
    \/ RedisToggle

\* A process that is inside the library keeps running: the operating system
\* schedules it and every Redis command has a timeout.
Fairness == \A c \in Clients : WF_vars(Step(c))

Spec == Init /\ [][Next]_vars /\ Fairness

-----------------------------------------------------------------------------
(* Properties *)

Lease == INSTANCE AddressLease WITH Holders <- Clients

\* No two workloads are told that the same address is theirs: README.md:14,
\* "persistent, conflict-free IP assignment across CLI invocations".
LeasesExclusive == Lease!Exclusive

\* Without outages the allocator behaves like the abstract one: GetIp grants an
\* address nobody has in one step, although it reads, computes and writes in
\* several, interleaved with the calls of other processes.
LeaseSpec == Lease!Spec

\* An allocated address stays allocated until the workload that has it gives it
\* back: no write of one process undoes the write of another (GetIpam creating
\* the prefix included), even when Redis comes and goes.
AllocationsPersist ==
    [][\A a \in ips \ ips' :
          \E c \in Clients : op[c] = "release" /\ lease[c] = a]_vars

\* README.md:83, "IPAM falls back gracefully to in-memory allocation": an outage costs
\* no more than 10.0.0.1, which every process that works in memory gives out.  No
\* other address is told to two workloads, although addresses given out before,
\* during and after the outage are released in any order.
SharedIsFirst ==
    \A c, d \in Clients :
        c # d /\ lease[c] = lease[d] => lease[c] \in {NoIp, EnvoyIp}

\* network_manager.go:316, "Reserve 10.0.0.254 for host bridge br0": once reserved it
\* stays so: no concurrent creation of the prefix, no update computed before, and no
\* outage puts it into the pool again, and no workload is told it.
BridgeReserved == BridgeIp \in ips /\ \A c \in Clients : lease[c] # BridgeIp
BridgeKept == [][BridgeReserved => BridgeReserved']_vars

\* Every call into the allocator returns, however often its update conflicts
\* with the updates of others and whenever Redis goes away.
CallsReturn == \A c \in Clients : pc[c] # "idle" ~> pc[c] = "idle"
=============================================================================
