----------------------------- MODULE IpamProofs -----------------------------
(***************************************************************************)
(* Proofs about Ipam for any number of CLI processes, any subnet size and  *)
(* any number of attempts the library makes.                               *)
(*                                                                         *)
(* The argument rests on one fact about the optimistic updates, Fresh: a   *)
(* copy that nobody has overwritten is equal to what Redis holds.  With it *)
(* every committed write adds or removes exactly one address.              *)
(***************************************************************************)
EXTENDS Ipam, TLAPS

\* A process about to write either has the current set of addresses or has lost
\* the race (and then Commit is disabled).
Fresh ==
    \A c \in Clients :
        pc[c] \in {"reserveUpdate", "update"} /\ c \notin stale => snap[c] = ips

\* Nothing is allocated before GetIpam has created the prefix, and a process gets
\* past GetIpam only when the prefix exists.
PrefixFirst ==
    /\ ~hasPrefix => ips = {}
    /\ \A c \in Clients :
          pc[c] \in {"reserve", "reserveUpdate", "read", "update"} => hasPrefix

\* The network and the broadcast address are never free, so that the lowest free
\* address is always a host address.
EndsReserved == hasPrefix => 0 \in ips /\ Broadcast \in ips

\* The inductive invariant that holds whether or not Redis comes and goes.
IInv == TypeOK /\ Fresh /\ PrefixFirst /\ EndsReserved

\* A workload's address is allocated in Redis.
LeasesAllocated == \A c \in Clients : lease[c] # NoIp => lease[c] \in ips

\* No two workloads have the same address.
Distinct ==
    \A c, d \in Clients : c # d /\ lease[c] = lease[d] => lease[c] = NoIp

\* A process that is asking for an address has none, and one that is giving an
\* address back has one.
CallsMatch ==
    \A c \in Clients :
        pc[c] # "idle" => /\ op[c] = "get" => lease[c] = NoIp
                          /\ op[c] = "release" => lease[c] # NoIp

\* The inductive invariant that holds while Redis stays reachable: the in-memory
\* fallback is what would break both conjuncts.
LInv == redisUp /\ CallsMatch /\ LeasesAllocated /\ Distinct

-----------------------------------------------------------------------------
(* The initial state *)

LEMMA InitIInv == Init => IInv
<1>0. 0 \in 0 .. MaxAttempts
  BY MaxAttemptsAssumption
<1>1. Init => TypeOK
  BY <1>0 DEF Init, TypeOK, Steps, Ops
<1>2. Init => Fresh /\ PrefixFirst /\ EndsReserved
  BY DEF Init, Fresh, PrefixFirst, EndsReserved
<1>. QED
  BY <1>1, <1>2 DEF IInv

LEMMA InitLInv == Init => LInv
  BY DEF Init, LInv, CallsMatch, LeasesAllocated, Distinct

-----------------------------------------------------------------------------
(* Every step preserves IInv *)

\* Returning from an operation keeps the variables it assigns well-typed, as
\* long as the address is a host address or none.
LEMMA ReturnTyped ==
  ASSUME TypeOK, NEW c \in Clients, NEW a \in Hosts \cup {NoIp}, Return(c, a)
  PROVE  /\ pc' \in [Clients -> Steps] /\ op' \in [Clients -> Ops]
         /\ snap' \in [Clients -> SUBSET Subnet]
         /\ tries' \in [Clients -> 0 .. MaxAttempts]
         /\ lease' \in [Clients -> Hosts \cup {NoIp}]
         /\ pc'[c] = "idle" /\ lease'[c] = a
         /\ \A d \in Clients \ {c} :
               pc'[d] = pc[d] /\ snap'[d] = snap[d] /\ lease'[d] = lease[d]
  BY MaxAttemptsAssumption DEF TypeOK, Return, Steps, Ops

\* So does failing, which leaves everybody else's copy as it was.
LEMMA FailTyped ==
  ASSUME TypeOK, NEW c \in Clients, Fail(c)
  PROVE  /\ pc' \in [Clients -> Steps] /\ op' \in [Clients -> Ops]
         /\ snap' \in [Clients -> SUBSET Subnet]
         /\ tries' \in [Clients -> 0 .. MaxAttempts]
         /\ lease' \in [Clients -> Hosts \cup {NoIp}]
         /\ stale' = stale \cup {c}
         /\ pc'[c] = "idle" /\ lease'[c] \in {lease[c], NoIp}
         /\ \A d \in Clients \ {c} :
               pc'[d] = pc[d] /\ snap'[d] = snap[d] /\ lease'[d] = lease[d]
<1>1. lease[c] \in Hosts \cup {NoIp}
  BY DEF TypeOK
<1>2. PICK a \in {lease[c], NoIp} : Return(c, a) /\ stale' = stale \cup {c}
  BY DEF Fail
<1>. QED
  BY <1>1, <1>2, ReturnTyped

\* A step that leaves what is in Redis alone and touches only c's local state.
LEMMA LocalStep ==
  ASSUME IInv, NEW c \in Clients, TypeOK',
         UNCHANGED <<hasPrefix, ips>>, stale \subseteq stale',
         \A d \in Clients \ {c} : pc'[d] = pc[d] /\ snap'[d] = snap[d],
         pc'[c] \notin {"reserveUpdate", "update"},
         pc'[c] \in {"reserve", "read"} => hasPrefix
  PROVE  IInv'
  BY DEF IInv, Fresh, PrefixFirst, EndsReserved, TypeOK

LEMMA NextIInv == IInv /\ [Next]_vars => IInv'
<1>. SUFFICES ASSUME IInv, [Next]_vars PROVE IInv'
  OBVIOUS
<1>. USE BroadcastAssumption, MaxAttemptsAssumption DEF redis, local
<1>t. TypeOK
  BY DEF IInv
<1>1. ASSUME NEW c \in Clients, NEW o \in Ops, Call(c, o) PROVE IInv'
  <2>1. TypeOK'
    BY <1>1, <1>t DEF Call, Goto, TypeOK, Steps, Ops
  <2>. QED
    BY <1>1, <1>t, <2>1, LocalStep DEF Call, Goto, TypeOK
<1>2. ASSUME NEW c \in Clients, Probe(c) PROVE IInv'
  <2>1. EnvoyIp \in Hosts \cup {NoIp}
    BY DEF EnvoyIp, Hosts, BridgeIp
  <2>2. CASE redisUp /\ Goto(c, "prefix") /\ UNCHANGED <<stale, op, snap, tries, lease>>
    <3>1. TypeOK'
      BY <1>2, <1>t, <2>2 DEF Probe, Goto, TypeOK, Steps
    <3>. QED
      BY <1>2, <1>t, <2>2, <3>1, LocalStep DEF Probe, Goto, TypeOK
  <2>3. CASE Return(c, EnvoyIp) /\ UNCHANGED stale
    <3>1. TypeOK'
      BY <1>2, <1>t, <2>1, <2>3, ReturnTyped DEF Probe, TypeOK
    <3>. QED
      BY <1>2, <1>t, <2>1, <2>3, <3>1, LocalStep, ReturnTyped DEF Probe
  <2>4. CASE Fail(c)
    <3>1. TypeOK'
      BY <1>2, <1>t, <2>4, FailTyped DEF Probe, TypeOK
    <3>. QED
      BY <1>2, <1>t, <2>4, <3>1, LocalStep, FailTyped DEF Probe
  <2>. QED
    BY <1>2, <2>2, <2>3, <2>4 DEF Probe
<1>3. ASSUME NEW c \in Clients, PrefixFrom(c) PROVE IInv'
  <2>1. TypeOK'
    BY <1>3, <1>t DEF PrefixFrom, Goto, TypeOK, Steps
  <2>. QED
    BY <1>3, <1>t, <2>1, LocalStep DEF PrefixFrom, Goto, TypeOK
<1>4. ASSUME NEW c \in Clients, NewPrefix(c) PROVE IInv'
  <2>1. CASE /\ redisUp /\ ~hasPrefix /\ hasPrefix' = TRUE
             /\ ips' = {0, Broadcast} /\ stale' = Clients
             /\ Goto(c, "reserve") /\ UNCHANGED <<op, snap, tries, lease>>
    <3>1. TypeOK'
      BY <1>4, <1>t, <2>1 DEF NewPrefix, Goto, TypeOK, Steps, Subnet
    <3>. QED
      BY <2>1, <3>1 DEF IInv, Fresh, PrefixFirst, EndsReserved, TypeOK
  <2>2. CASE /\ redisUp /\ hasPrefix /\ Goto(c, "reserve")
             /\ UNCHANGED <<hasPrefix, ips, stale, op, snap, tries, lease>>
    <3>1. TypeOK'
      BY <1>4, <1>t, <2>2 DEF NewPrefix, Goto, TypeOK, Steps
    <3>. QED
      BY <1>t, <2>2, <3>1, LocalStep DEF Goto, TypeOK
  <2>3. CASE Fail(c) /\ UNCHANGED <<hasPrefix, ips>>
    <3>1. TypeOK'
      BY <1>4, <1>t, <2>3, FailTyped DEF NewPrefix, TypeOK
    <3>. QED
      BY <1>t, <2>3, <3>1, LocalStep, FailTyped
  <2>. QED
    BY <1>4, <2>1, <2>2, <2>3 DEF NewPrefix
<1>5. ASSUME NEW c \in Clients, ReadPrefix(c) PROVE IInv'
  <2>1. TypeOK'
    BY <1>5, <1>t DEF ReadPrefix, Goto, TypeOK, Steps
  <2>. QED
    BY <1>5, <2>1
    DEF ReadPrefix, Goto, IInv, TypeOK, Fresh, PrefixFirst, EndsReserved
<1>6. ASSUME NEW c \in Clients, ReserveBridge(c) PROVE IInv'
  <2>0. snap[c] \cup {BridgeIp} \in SUBSET Subnet
    BY <1>t DEF TypeOK, BridgeIp, Subnet
  <2>1. TypeOK'
    BY <1>6, <1>t, <2>0 DEF ReserveBridge, Commit, ToRead, TypeOK, Steps
  <2>2. hasPrefix /\ pc'[c] = "read"
    BY <1>6, <1>t DEF ReserveBridge, ToRead, IInv, TypeOK, PrefixFirst
  <2>3. CASE BridgeIp \notin snap[c]
    <3>1. snap[c] = ips /\ Commit(c, ips \cup {BridgeIp})
      BY <1>6, <2>3 DEF ReserveBridge, Commit, IInv, Fresh
    <3>. QED
      BY <1>6, <2>1, <2>2, <3>1
      DEF ReserveBridge, Commit, IInv, Fresh, PrefixFirst, EndsReserved
  <2>4. CASE BridgeIp \in snap[c]
    BY <1>6, <1>t, <2>1, <2>2, <2>4, LocalStep DEF ReserveBridge, ToRead, TypeOK
  <2>. QED
    BY <2>3, <2>4
<1>7. ASSUME NEW c \in Clients, AcquireIP(c) PROVE IInv'
  <2>1. CASE Fail(c) /\ UNCHANGED ips
    <3>1. TypeOK'
      BY <1>7, <1>t, <2>1, FailTyped DEF AcquireIP, TypeOK
    <3>. QED
      BY <1>7, <1>t, <2>1, <3>1, LocalStep, FailTyped DEF AcquireIP
  <2>2. ASSUME NEW a \in Subnet \ snap[c],
               Commit(c, snap[c] \cup {a}), Return(c, a)
        PROVE  IInv'
    <3>1. snap[c] = ips /\ hasPrefix
      BY <1>7, <2>2 DEF AcquireIP, Commit, IInv, Fresh, PrefixFirst
    <3>2. a \in Hosts \cup {NoIp}
      BY <2>2, <3>1 DEF IInv, EndsReserved, Subnet, Hosts, BridgeIp
    <3>3. TypeOK'
      BY <1>7, <1>t, <2>2, <3>2, ReturnTyped DEF AcquireIP, Commit, TypeOK
    <3>. QED
      BY <1>7, <2>2, <3>1, <3>3
      DEF AcquireIP, Commit, IInv, Fresh, PrefixFirst, EndsReserved
  <2>. QED
    BY <1>7, <2>1, <2>2 DEF AcquireIP
<1>8. ASSUME NEW c \in Clients, ReleaseIp(c) PROVE IInv'
  <2>1. CASE Fail(c) /\ UNCHANGED ips
    <3>1. TypeOK'
      BY <1>8, <1>t, <2>1, FailTyped DEF ReleaseIp, TypeOK
    <3>. QED
      BY <1>8, <1>t, <2>1, <3>1, LocalStep, FailTyped DEF ReleaseIp
  <2>2. CASE /\ lease[c] \in snap[c]
             /\ Commit(c, snap[c] \ {lease[c]}) /\ Return(c, NoIp)
    <3>1. snap[c] = ips /\ hasPrefix
      BY <1>8, <2>2 DEF ReleaseIp, Commit, IInv, Fresh, PrefixFirst
    <3>2. lease[c] \in Hosts \cup {NoIp}
      BY <1>t DEF TypeOK
    <3>3. lease[c] # 0 /\ lease[c] # Broadcast
      BY <3>2 DEF Hosts, BridgeIp, NoIp
    <3>4. TypeOK'
      BY <1>8, <1>t, <2>2, ReturnTyped DEF ReleaseIp, Commit, TypeOK
    <3>. QED
      BY <1>8, <2>2, <3>1, <3>3, <3>4
      DEF ReleaseIp, Commit, IInv, Fresh, PrefixFirst, EndsReserved
  <2>. QED
    BY <1>8, <2>1, <2>2 DEF ReleaseIp
<1>9. ASSUME NEW c \in Clients, AcquireEnvoyIp(c) PROVE IInv'
  <2>1. CASE Fail(c) /\ UNCHANGED ips
    <3>1. TypeOK'
      BY <1>9, <1>t, <2>1, FailTyped DEF AcquireEnvoyIp, TypeOK
    <3>. QED
      BY <1>9, <1>t, <2>1, <3>1, LocalStep, FailTyped DEF AcquireEnvoyIp
  <2>2. CASE Commit(c, snap[c] \cup {EnvoyIp}) /\ Return(c, lease[c])
    <3>1. snap[c] = ips /\ hasPrefix
      BY <1>9, <2>2 DEF AcquireEnvoyIp, Commit, IInv, Fresh, PrefixFirst
    <3>2. lease[c] \in Hosts \cup {NoIp} /\ EnvoyIp \in Subnet
      BY <1>t DEF TypeOK, EnvoyIp, Subnet
    <3>3. TypeOK'
      BY <1>9, <1>t, <2>2, <3>2, ReturnTyped DEF AcquireEnvoyIp, Commit, TypeOK
    <3>. QED
      BY <1>9, <2>2, <3>1, <3>3
      DEF AcquireEnvoyIp, Commit, IInv, Fresh, PrefixFirst, EndsReserved
  <2>. QED
    BY <1>9, <2>1, <2>2 DEF AcquireEnvoyIp
<1>10. ASSUME NEW c \in Clients, Conflict(c) PROVE IInv'
  <2>1. CASE Fail(c)
    <3>1. TypeOK'
      BY <1>10, <1>t, <2>1, FailTyped DEF Conflict, TypeOK
    <3>. QED
      BY <1>10, <1>t, <2>1, <3>1, LocalStep, FailTyped DEF Conflict
  <2>2. CASE ~Fail(c)
    <3>1. hasPrefix
      BY <1>10 DEF Conflict, IInv, PrefixFirst
    <3>2. TypeOK'
      BY <1>10, <1>t, <2>2 DEF Conflict, Goto, ToRead, TypeOK, Steps
    <3>. QED
      BY <1>10, <1>t, <2>2, <3>1, <3>2, LocalStep
      DEF Conflict, Goto, ToRead, TypeOK
  <2>. QED
    BY <2>1, <2>2
<1>11. ASSUME NEW c \in Clients, Unreachable(c) PROVE IInv'
  <2>1. CASE Fail(c)
    <3>1. TypeOK'
      BY <1>11, <1>t, <2>1, FailTyped DEF Unreachable, TypeOK
    <3>. QED
      BY <1>11, <1>t, <2>1, <3>1, LocalStep, FailTyped DEF Unreachable
  <2>2. CASE ~Fail(c)
    <3>1. hasPrefix
      BY <1>11, <2>2 DEF Unreachable, IInv, PrefixFirst
    <3>2. TypeOK'
      BY <1>11, <1>t, <2>2 DEF Unreachable, ToRead, TypeOK, Steps
    <3>. QED
      BY <1>11, <1>t, <2>2, <3>1, <3>2, LocalStep DEF Unreachable, ToRead, TypeOK
  <2>. QED
    BY <2>1, <2>2
<1>12. ASSUME NEW c \in Clients, Crash(c) PROVE IInv'
  <2>1. lease[c] \in Hosts \cup {NoIp}
    BY <1>t DEF TypeOK
  <2>2. TypeOK'
    BY <1>12, <1>t, <2>1, ReturnTyped DEF Crash, TypeOK
  <2>. QED
    BY <1>12, <1>t, <2>1, <2>2, LocalStep, ReturnTyped DEF Crash
<1>13. CASE RedisToggle
  BY <1>13 DEF RedisToggle, IInv, TypeOK, Fresh, PrefixFirst, EndsReserved
<1>14. CASE UNCHANGED vars
  BY <1>14 DEF vars, IInv, TypeOK, Fresh, PrefixFirst, EndsReserved
<1>. QED
  BY <1>1, <1>2, <1>3, <1>4, <1>5, <1>6, <1>7, <1>8, <1>9, <1>10, <1>11, <1>12,
     <1>13, <1>14
  DEF Next, Step

-----------------------------------------------------------------------------
(* What follows from IInv *)

LEMMA IInvInvariant == Spec => []IInv
  BY InitIInv, NextIInv, PTL DEF Spec

\* Every reachable state of the allocator is well-typed; in particular AcquireIP,
\* which takes the lowest free address of the subnet, only ever returns a host
\* address, for every size of the subnet and with Redis coming and going.
THEOREM TypeCorrect == Spec => []TypeOK
<1>1. IInv => TypeOK
  BY DEF IInv
<1>. QED
  BY <1>1, IInvInvariant, PTL

\* A step that frees an address belongs to a release of that very address.
LEMMA FreesOnlyReleased ==
  ASSUME IInv, Next, NEW a \in ips \ ips'
  PROVE  \E c \in Clients : op[c] = "release" /\ lease[c] = a
<1>. USE DEF redis, local
<1>1. ASSUME NEW c \in Clients, Step(c) \/ Crash(c) \/ \E o \in Ops : Call(c, o)
      PROVE  op[c] = "release" /\ lease[c] = a
  <2>1. UNCHANGED ips \/ NewPrefix(c) \/ ReserveBridge(c) \/ AcquireIP(c)
           \/ ReleaseIp(c) \/ AcquireEnvoyIp(c)
    BY <1>1 DEF Step, Crash, Call, Probe, PrefixFrom, ReadPrefix, Conflict,
                Unreachable
  <2>2. CASE NewPrefix(c)
    BY <2>2 DEF NewPrefix, IInv, PrefixFirst
  <2>3. CASE ReserveBridge(c) \/ AcquireIP(c) \/ AcquireEnvoyIp(c)
    BY <2>3 DEF ReserveBridge, AcquireIP, AcquireEnvoyIp, Commit, IInv, Fresh
  <2>4. CASE ReleaseIp(c)
    BY <2>4 DEF ReleaseIp, Commit, IInv, Fresh
  <2>. QED
    BY <2>1, <2>2, <2>3, <2>4
<1>2. CASE RedisToggle
  BY <1>2 DEF RedisToggle
<1>. QED
  BY <1>1, <1>2 DEF Next

\* No write of one process undoes the write of another: an allocated address is
\* freed only by a release of the workload that has it.  Holds for every number
\* of processes and attempts, and whether or not Redis comes and goes.
THEOREM Persistence == Spec => AllocationsPersist
<1>1. IInv /\ [Next]_vars =>
         [\A a \in ips \ ips' :
             \E c \in Clients : op[c] = "release" /\ lease[c] = a]_vars
  BY FreesOnlyReleased
<1>. QED
  BY <1>1, IInvInvariant, PTL DEF Spec, AllocationsPersist

-----------------------------------------------------------------------------
(* How leases move *)

\* How an address moves in one step: it is granted while free, given back, given out
\* from memory, or nothing happens to it.
Granted(c, a) ==
    /\ lease[c] = NoIp /\ a \in Hosts /\ a \notin ips
    /\ ips' = ips \cup {a} /\ lease' = [lease EXCEPT ![c] = a]

GivenBack(c) ==
    /\ lease[c] # NoIp
    /\ ips \ {lease[c]} \subseteq ips' /\ lease' = [lease EXCEPT ![c] = NoIp]

Remembered(c) ==
    /\ ~redisUp /\ lease[c] = NoIp
    /\ ips' = ips /\ lease' = [lease EXCEPT ![c] = EnvoyIp]

Untouched == lease' = lease /\ ips \subseteq ips'

\* Every step is one of the four.
LEMMA LeaseMoves ==
  ASSUME IInv, CallsMatch, Next
  PROVE  \/ \E c \in Clients : \E a \in Hosts : Granted(c, a)
         \/ \E c \in Clients : GivenBack(c)
         \/ \E c \in Clients : Remembered(c)
         \/ Untouched
<1>. USE DEF redis, local
<1>1. CASE RedisToggle
  BY <1>1 DEF RedisToggle, Untouched
<1>2. SUFFICES ASSUME NEW c \in Clients, Step(c) \/ Crash(c) \/ \E o \in Ops : Call(c, o)
               PROVE  \/ \E a \in Hosts : Granted(c, a)
                      \/ GivenBack(c) \/ Remembered(c) \/ Untouched
  BY <1>1 DEF Next
<1>t. TypeOK /\ lease[c] \in Hosts \cup {NoIp}
  BY DEF IInv, TypeOK
<1>4. ASSUME Return(c, lease[c]) PROVE lease' = lease
  BY <1>4, <1>t DEF Return, TypeOK
<1>5. ASSUME Fail(c), UNCHANGED ips PROVE Untouched \/ GivenBack(c)
  BY <1>5, <1>t DEF Fail, Return, Untouched, GivenBack, TypeOK
<1>6. CASE AcquireIP(c)
  <2>1. CASE Fail(c) /\ UNCHANGED ips
    BY <1>5, <2>1
  <2>2. ASSUME NEW a \in Subnet \ snap[c],
               Commit(c, snap[c] \cup {a}), Return(c, a)
        PROVE  Granted(c, a)
    <3>1. snap[c] = ips /\ hasPrefix
      BY <1>6, <2>2 DEF AcquireIP, Commit, IInv, Fresh, PrefixFirst
    <3>2. a \in Hosts
      BY <2>2, <3>1, BroadcastAssumption
      DEF IInv, EndsReserved, Subnet, Hosts, BridgeIp
    <3>. QED
      BY <1>6, <2>2, <3>1, <3>2
      DEF AcquireIP, Granted, Commit, Return, CallsMatch
  <2>. QED
    BY <1>6, <2>1, <2>2 DEF AcquireIP, Granted
<1>7. CASE ReleaseIp(c)
  <2>1. CASE Fail(c) /\ UNCHANGED ips
    BY <1>5, <2>1
  <2>2. CASE Commit(c, snap[c] \ {lease[c]}) /\ Return(c, NoIp)
    BY <1>7, <2>2
    DEF ReleaseIp, Commit, Return, IInv, Fresh, GivenBack, CallsMatch
  <2>. QED
    BY <1>7, <2>1, <2>2 DEF ReleaseIp
<1>8. CASE AcquireEnvoyIp(c)
  <2>1. CASE Fail(c) /\ UNCHANGED ips
    BY <1>5, <2>1
  <2>2. CASE Commit(c, snap[c] \cup {EnvoyIp}) /\ Return(c, lease[c])
    BY <1>4, <1>8, <2>2
    DEF AcquireEnvoyIp, Commit, IInv, Fresh, Untouched
  <2>. QED
    BY <1>8, <2>1, <2>2 DEF AcquireEnvoyIp
<1>9. CASE NewPrefix(c)
  BY <1>5, <1>9 DEF NewPrefix, Untouched, IInv, PrefixFirst
<1>10. CASE ReserveBridge(c)
  BY <1>10 DEF ReserveBridge, Commit, Untouched, IInv, Fresh
<1>11. CASE PrefixFrom(c) \/ ReadPrefix(c) \/ \E o \in Ops : Call(c, o)
  BY <1>11 DEF PrefixFrom, ReadPrefix, Call, Untouched
<1>3. CASE Probe(c)
  <2>1. CASE ~redisUp /\ op[c] = "get" /\ Return(c, EnvoyIp)
    BY <1>3, <2>1 DEF Probe, Return, Remembered, CallsMatch
  <2>2. CASE Fail(c)
    BY <1>3, <1>5, <2>2 DEF Probe
  <2>3. CASE lease' = lease
    BY <1>3, <2>3 DEF Probe, Untouched
  <2>. QED
    BY <1>3, <2>1, <2>2, <2>3 DEF Probe
<1>14. CASE Unreachable(c)
  BY <1>5, <1>14 DEF Unreachable, Untouched
<1>12. CASE Conflict(c)
  BY <1>5, <1>12 DEF Conflict, Untouched
<1>13. CASE Crash(c)
  BY <1>4, <1>13 DEF Crash, Untouched
<1>. QED
  BY <1>2, <1>3, <1>6, <1>7, <1>8, <1>9, <1>10, <1>11, <1>12, <1>13, <1>14 DEF Step

\* An operation keeps its kind and the address it is about until it returns.
LEMMA NextCallsMatch == IInv /\ CallsMatch /\ [Next]_vars => CallsMatch'
<1>. SUFFICES ASSUME IInv, CallsMatch, [Next]_vars PROVE CallsMatch'
  OBVIOUS
<1>. USE DEF redis, local
<1>t. TypeOK
  BY DEF IInv
<1>1. ASSUME NEW c \in Clients, NEW a, Return(c, a) PROVE CallsMatch'
  BY <1>1, <1>t DEF Return, CallsMatch, TypeOK
<1>2. ASSUME NEW c \in Clients, NEW o \in Ops, Call(c, o) PROVE CallsMatch'
  BY <1>2, <1>t DEF Call, Goto, CallsMatch, TypeOK
<1>3. ASSUME NEW c \in Clients, NEW s, pc[c] # "idle",
             pc' = [pc EXCEPT ![c] = s], UNCHANGED <<op, lease>>
      PROVE  CallsMatch'
  BY <1>3, <1>t DEF CallsMatch, TypeOK
<1>4. ASSUME NEW c \in Clients, Step(c) \/ Crash(c) PROVE CallsMatch'
  <2>1. ASSUME Fail(c) PROVE CallsMatch'
    BY <1>1, <2>1 DEF Fail
  <2>2. CASE Probe(c) \/ NewPrefix(c)
    BY <1>1, <1>3, <2>1, <2>2 DEF Probe, NewPrefix, Goto
  <2>3. CASE PrefixFrom(c) \/ ReadPrefix(c) \/ ReserveBridge(c)
    BY <1>3, <2>3 DEF PrefixFrom, ReadPrefix, ReserveBridge, Goto, ToRead
  <2>4. CASE AcquireIP(c) \/ ReleaseIp(c) \/ AcquireEnvoyIp(c) \/ Crash(c)
    BY <1>1, <2>1, <2>4 DEF AcquireIP, ReleaseIp, AcquireEnvoyIp, Crash
  <2>5. CASE Conflict(c) \/ Unreachable(c)
    BY <1>3, <2>1, <2>5 DEF Conflict, Unreachable, Goto, ToRead
  <2>. QED
    BY <1>4, <2>2, <2>3, <2>4, <2>5 DEF Step
<1>5. CASE RedisToggle \/ UNCHANGED vars
  BY <1>5 DEF RedisToggle, vars, CallsMatch
<1>. QED
  BY <1>2, <1>4, <1>5 DEF Next

-----------------------------------------------------------------------------
(* While Redis stays reachable, no two workloads have the same address *)

\* Without outages Redis stays reachable.
LEMMA StaysReachable == ASSUME ~Outages, redisUp, [Next]_vars PROVE redisUp'
BY DEF Next, Step, Crash, Call, Probe, PrefixFrom, NewPrefix, ReadPrefix, ReserveBridge,
       AcquireIP, ReleaseIp, AcquireEnvoyIp, Conflict, Unreachable, RedisToggle, Commit,
       redis, vars

\* The kinds of step that are possible then preserve exclusivity.
LEMMA NextLInv == ASSUME ~Outages PROVE IInv /\ LInv /\ [Next]_vars => LInv'
<1>. SUFFICES ASSUME IInv, LInv, [Next]_vars PROVE LInv'
  OBVIOUS
<1>t. lease \in [Clients -> Hosts \cup {NoIp}] /\ NoIp \notin Hosts
  BY BroadcastAssumption DEF IInv, TypeOK, NoIp, Hosts, BridgeIp
<1>0. CallsMatch'
  BY NextCallsMatch DEF LInv
<1>1. CASE UNCHANGED vars
  BY <1>0, <1>1 DEF vars, LInv, LeasesAllocated, Distinct
<1>5. redisUp'
  BY StaysReachable DEF LInv
<1>2. ASSUME NEW c \in Clients, NEW a \in Hosts, Granted(c, a)
      PROVE  LInv'
  BY <1>0, <1>5, <1>t, <1>2 DEF Granted, LInv, LeasesAllocated, Distinct
<1>3. ASSUME NEW c \in Clients, GivenBack(c) PROVE LInv'
  BY <1>0, <1>5, <1>t, <1>3 DEF GivenBack, LInv, LeasesAllocated, Distinct
<1>4. ASSUME Untouched PROVE LInv'
  BY <1>0, <1>5, <1>4 DEF Untouched, LInv, LeasesAllocated, Distinct
<1>. QED
  BY <1>1, <1>2, <1>3, <1>4, LeaseMoves DEF LInv, Remembered

\* As long as Redis stays reachable, no two workloads are ever told that the same
\* address is theirs, however many CLI processes run concurrently and wherever
\* they crash.
THEOREM Exclusivity == ASSUME ~Outages PROVE Spec => []LeasesExclusive
<1>1. LInv => LeasesExclusive
  BY DEF LInv, Distinct, LeasesExclusive, Lease!Exclusive
<1>. QED
  BY <1>1, InitIInv, NextIInv, InitLInv, NextLInv, PTL DEF Spec

\* As long as Redis stays reachable, the allocator implements AddressLease: the
\* several steps of GetIp and ReleaseIp look like one grant or one return.
THEOREM Refinement == ASSUME ~Outages PROVE Spec => LeaseSpec
<1>1. Init => Lease!Init
  BY DEF Init, Lease!Init
<1>2. IInv /\ LInv /\ [Next]_vars => [Lease!Next]_lease
  <2>. SUFFICES ASSUME IInv, LInv, [Next]_vars PROVE [Lease!Next]_lease
    OBVIOUS
  <2>1. CASE UNCHANGED vars
    BY <2>1 DEF vars
  <2>2. ASSUME NEW c \in Clients, NEW a \in Hosts, Granted(c, a)
        PROVE  Lease!Next
    <3>1. \A x \in Clients : lease[x] # a
      BY <2>2, BroadcastAssumption
      DEF Granted, LInv, LeasesAllocated, NoIp, Hosts, BridgeIp
    <3>. QED
      BY <2>2, <3>1 DEF Granted, Lease!Next, Lease!Grant
  <2>3. ASSUME NEW c \in Clients, GivenBack(c) PROVE Lease!Next
    BY <2>3 DEF GivenBack, Lease!Next, Lease!Return
  <2>. QED
    BY <2>1, <2>2, <2>3, LeaseMoves DEF Untouched, LInv, Remembered
<1>. QED
  BY <1>1, <1>2, InitIInv, NextIInv, InitLInv, NextLInv, PTL
  DEF Spec, LeaseSpec, Lease!Spec

-----------------------------------------------------------------------------
(* Whatever Redis does *)

\* The inductive invariant that survives outages: it says nothing of 10.0.0.1.
OInv ==
    /\ CallsMatch
    /\ \A c \in Clients : lease[c] \in {NoIp, EnvoyIp} \/ lease[c] \in ips
    /\ SharedIsFirst

\* All four kinds of step keep it.
LEMMA NextOInv == IInv /\ OInv /\ [Next]_vars => OInv'
<1>. SUFFICES ASSUME IInv, OInv, [Next]_vars PROVE OInv'
  OBVIOUS
<1>t. lease \in [Clients -> Hosts \cup {NoIp}]
  BY DEF IInv, TypeOK
<1>0. CallsMatch'
  BY NextCallsMatch DEF OInv
<1>1. CASE UNCHANGED vars
  BY <1>0, <1>1 DEF vars, OInv, SharedIsFirst
<1>2. ASSUME NEW c \in Clients, NEW a \in Hosts, Granted(c, a) PROVE OInv'
  BY <1>0, <1>t, <1>2 DEF Granted, OInv, SharedIsFirst
<1>3. ASSUME NEW c \in Clients, GivenBack(c) PROVE OInv'
  BY <1>0, <1>t, <1>3 DEF GivenBack, OInv, SharedIsFirst
<1>4. ASSUME NEW c \in Clients, Remembered(c) PROVE OInv'
  BY <1>0, <1>t, <1>4 DEF Remembered, OInv, SharedIsFirst
<1>5. ASSUME Untouched PROVE OInv'
  BY <1>0, <1>5 DEF Untouched, OInv, SharedIsFirst
<1>. QED
  BY <1>1, <1>2, <1>3, <1>4, <1>5, LeaseMoves DEF OInv

\* OInv is an invariant.
LEMMA OInvInvariant == Spec => []OInv
<1>1. Init => OInv
  BY DEF Init, OInv, CallsMatch, SharedIsFirst
<1>. QED
  BY <1>1, InitIInv, NextIInv, NextOInv, PTL DEF Spec

\* README.md:83: whenever Redis comes and goes, two workloads are told the same address
\* only if it is 10.0.0.1.
THEOREM OutageDamage == Spec => []SharedIsFirst
<1>1. OInv => SharedIsFirst
  BY DEF OInv
<1>. QED
  BY <1>1, OInvInvariant, PTL

\* nm:316: the bridge's address stays reserved once it is, whatever interleaves and
\* whenever Redis comes and goes.
THEOREM BridgeStays == Spec => BridgeKept
<1>1. IInv /\ OInv /\ [Next]_vars => [BridgeReserved => BridgeReserved']_vars
  <2>. SUFFICES ASSUME IInv, OInv, [Next]_vars, BridgeReserved PROVE BridgeReserved'
    OBVIOUS
  <2>t. lease \in [Clients -> Hosts \cup {NoIp}] /\ BridgeIp # EnvoyIp /\ BridgeIp # NoIp
    BY BroadcastAssumption DEF IInv, TypeOK, BridgeIp, EnvoyIp, NoIp
  <2>1. CASE UNCHANGED vars
    BY <2>1 DEF vars, BridgeReserved
  <2>2. ASSUME NEW c \in Clients, NEW a \in Hosts, Granted(c, a) PROVE BridgeReserved'
    BY <2>t, <2>2 DEF Granted, BridgeReserved
  <2>3. ASSUME NEW c \in Clients, GivenBack(c) PROVE BridgeReserved'
    BY <2>t, <2>3 DEF GivenBack, BridgeReserved
  <2>4. ASSUME NEW c \in Clients, Remembered(c) PROVE BridgeReserved'
    BY <2>t, <2>4 DEF Remembered, BridgeReserved
  <2>5. ASSUME Untouched PROVE BridgeReserved'
    BY <2>5 DEF Untouched, BridgeReserved
  <2>. QED
    BY <2>1, <2>2, <2>3, <2>4, <2>5, LeaseMoves DEF OInv
<1>. QED
  BY <1>1, IInvInvariant, OInvInvariant, PTL DEF Spec, BridgeKept
=============================================================================
