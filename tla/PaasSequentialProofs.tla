------------------------- MODULE PaasSequentialProofs -------------------------
(***************************************************************************)
(* What Paas guarantees when commands are run one at a time (there is one  *)
(* slot) and no fault occurs: one gateway that serves, which the pid file  *)
(* names between commands; never two workloads with the same address on    *)
(* the bridge; and a route to every load-balanced workload.  None of this  *)
(* holds for commands that run at the same time.                           *)
(*                                                                         *)
(* GatewayKnown says at every step of the one command which gateways serve *)
(* and what the pid file knows of them.  GivenUp adds to Leased that       *)
(* nobody can have been granted the address that a delete has given back.  *)
(* RInv follows a route on its way: from the command's manifest and        *)
(* address into the fragment, from the fragments into what was read, from  *)
(* there into the configuration file, and from the file into the gateway   *)
(* that is started on it, if Envoy accepts the file; and it says which     *)
(* routes of recorded workloads are in each of these while the next        *)
(* command replaces them one by one.                                       *)
(***************************************************************************)
EXTENDS PaasConcurrentProofs

\* The gateways that serve: none once the old one is told to stop, at most the new
\* one once it is started, and otherwise at most the one that the pid file names.
Replacing == {"spawn", "writepid", "rmpid"}
GatewayKnown(s) ==
    /\ cli[s].pc \in {"spawn", "rmpid"} => Serving = {}
    /\ cli[s].pc \in {"writepid", "join"} => Serving \subseteq {cli[s].envoy}
    /\ cli[s].pc \notin Replacing => Serving \subseteq {pidfile}

\* While delete is about to kill, nobody else has the address it has given back.
GivenUp(s) ==
    cli[s].pc = "kill" =>
        cli[s].entry.ip = NoIp \/ \A k \in Keys : AddressOf[k] # cli[s].entry.ip

-----------------------------------------------------------------------------
(* What steps do to the gateways *)

\* Ending a process makes no gateway serve.
LEMMA KillServes ==
  ASSUME TypeOK, NEW p, Kill(p)
  PROVE  /\ Serving' \subseteq Serving
         /\ \A q \in Serving \ {p} : q \in Serving' /\ procs'[q] = procs[q]
  BY DEF TypeOK, Kill, Serving, Gateways, NoProc

\* SIGTERM to the pid that the pid file gives stops the gateway that serves.
LEMMA StopServes ==
  ASSUME TypeOK, Serving \subseteq {pidfile},
         IF FindPidForEnvoy # Nil THEN Terminate(FindPidForEnvoy)
                                  ELSE UNCHANGED <<procs, stopping>>
  PROVE  Serving' = {}
<1>1. CASE Serving = {}
  BY <1>1 DEF Terminate, Serving, Gateways
<1>2. CASE Serving = {pidfile}
  <2>1. pidfile \in Pids /\ procs[pidfile].kind = "envoy" /\ pidfile # Nil
    BY <1>2, NilAssumption DEF Serving, Gateways
  <2>2. FindPidForEnvoy = pidfile /\ pidfile \in Terminable
    BY <2>1 DEF FindPidForEnvoy, Live, Terminable
  <2>3. UNCHANGED procs /\ pidfile \in stopping' /\ stopping \subseteq stopping'
    BY <2>1, <2>2 DEF Terminate
  <2>. QED
    BY <1>2, <2>3 DEF Serving, Gateways
<1>. QED
  BY <1>1, <1>2

LEMMA SameKindsServe ==
  ASSUME SameKinds, UNCHANGED stopping
  PROVE  Serving' = Serving
  BY DEF SameKinds, Serving, Gateways

\* Without faults, the only thing that happens outside is that processes which are
\* shutting down exit.
LEMMA OutsideServes ==
  ASSUME MaxFaults = 0, TInv, Outside \/ UNCHANGED vars
  PROVE  /\ UNCHANGED <<registry, disk, cli>> /\ Serving' \subseteq Serving
         /\ \A q \in Serving : q \in Serving' /\ procs'[q] = procs[q]
<1>1. ASSUME NEW p \in Pids, Stops(p)
      PROVE  /\ UNCHANGED <<registry, disk, cli>> /\ Serving' \subseteq Serving
             /\ \A q \in Serving : q \in Serving' /\ procs'[q] = procs[q]
  <2>1. p \notin Serving
    BY <1>1 DEF Stops, Serving
  <2>. QED
    BY <1>1, <2>1, KillServes DEF Stops, TInv
<1>2. \A p \in Pids : ~ProcessExits(p)
  BY NoFault DEF ProcessExits, TInv
<1>3. CASE RedisDown \/ RedisBack \/ UNCHANGED vars
  BY <1>3 DEF RedisDown, RedisBack, vars, Serving, Gateways
<1>. QED
  BY <1>1, <1>2, <1>3 DEF Outside

\* A step that makes no gateway serve and leaves the pid file alone.
LEMMA PlainServes ==
  ASSUME NEW s \in Cmds, GatewayKnown(s), Serving' \subseteq Serving, UNCHANGED pidfile,
         cli[s].pc \notin Replacing, cli'[s].pc \notin Replacing \cup {"join"}
  PROVE  GatewayKnown(s)'
  BY DEF GatewayKnown, Replacing

LEMMA StopsServing ==
  ASSUME TInv, NEW s \in Cmds, GatewayKnown(s), StopExisting(s) \/ StopEnvoy(s)
  PROVE  GatewayKnown(s)'
<1>1. /\ cli[s].pc \in {"find", "stop"}
      /\ \E t \in {"spawn", "rmpid", "rmfrag"} : Goto(s, t) /\ t \in Steps
  BY DEF StopExisting, StopEnvoy, At, Steps
<1>2. cli'[s].pc \in {"spawn", "rmpid", "rmfrag"}
  BY <1>1, GotoEffect DEF TInv
<1>3. IF FindPidForEnvoy # Nil THEN Terminate(FindPidForEnvoy)
                               ELSE UNCHANGED <<procs, stopping>>
  BY DEF StopExisting, StopEnvoy
<1>4. Serving' = {}
  BY <1>1, <1>3, StopServes DEF TInv, GatewayKnown, Replacing
<1>. QED
  BY <1>2, <1>4 DEF GatewayKnown

LEMMA SpawnServing ==
  ASSUME MaxFaults = 0, TInv, NEW s \in Cmds, GatewayKnown(s), SpawnEnvoy(s)
  PROVE  GatewayKnown(s)'
<1>1. cli[s].pc = "spawn" /\ Serving = {} /\ cli[s] \in Commands
  BY DEF SpawnEnvoy, At, GatewayKnown, TInv, TypeOK
<1>2. PICK p \in FreePids :
         /\ procs' = [procs EXCEPT ![p] =
                        [NoProc EXCEPT !.kind = "envoy",
                                       !.routes = IF Valid(rendered)
                                                  THEN rendered ELSE {}]]
         /\ stopping' = IF Valid(rendered) THEN stopping ELSE stopping \cup {p}
         /\ cli' = [cli EXCEPT ![s].envoy = p, ![s].pc = "writepid"]
  BY NoFault DEF SpawnEnvoy, TInv
<1>3. cli'[s].pc = "writepid" /\ cli'[s].envoy = p
  BY <1>1, <1>2 DEF TInv, TypeOK, Commands
<1>4. \A q \in Pids \ {p} : procs'[q] = procs[q]
  BY <1>2 DEF TInv, TypeOK
<1>5. Serving' \subseteq {p}
  BY <1>1, <1>2, <1>4 DEF Serving, Gateways
<1>. QED
  BY <1>3, <1>5 DEF GatewayKnown, Replacing

LEMMA WritePidServing ==
  ASSUME TInv, NEW s \in Cmds, GatewayKnown(s), WritePidFile(s)
  PROVE  GatewayKnown(s)'
<1>1. /\ cli[s].pc = "writepid" /\ pidfile' = cli[s].envoy /\ UNCHANGED <<procs, stopping>>
      /\ Goto(s, "join")
  BY DEF WritePidFile, At
<1>2. cli'[s].pc = "join" /\ cli'[s].envoy = cli[s].envoy
  BY <1>1, GotoHolds DEF Steps, SameHolds, TInv
<1>3. Serving' = Serving
  BY <1>1 DEF Serving, Gateways
<1>. QED
  BY <1>1, <1>2, <1>3 DEF GatewayKnown

LEMMA RemovePidServing ==
  ASSUME TInv, NEW s \in Cmds, GatewayKnown(s), RemovePidFile(s)
  PROVE  GatewayKnown(s)'
<1>1. /\ cli[s].pc = "rmpid" /\ UNCHANGED <<procs, stopping>> /\ Goto(s, "rmfrag")
  BY DEF RemovePidFile, At
<1>2. cli'[s].pc = "rmfrag"
  BY <1>1, GotoEffect DEF TInv, Steps
<1>3. Serving' = {}
  BY <1>1 DEF Serving, Gateways, GatewayKnown
<1>. QED
  BY <1>2, <1>3 DEF GatewayKnown

\* The new gateway's pid is in the file when it is connected.
LEMMA ConnectServing ==
  ASSUME TInv, NEW s \in Cmds, GatewayKnown(s), ConnectEnvoy(s) \/ ConnectWorkload(s)
  PROVE  GatewayKnown(s)'
<1>1. /\ cli[s].pc \in {"link", "join"} /\ UNCHANGED <<pidfile, stopping>>
      /\ \E t \in {"register", "start", "unregister"} : Goto(s, t) /\ t \in Steps
  BY DEF ConnectEnvoy, ConnectWorkload, At, AfterEnvoy, disk, Steps
<1>2. cli'[s].pc \in {"register", "start", "unregister"}
  BY <1>1, GotoEffect DEF TInv
<1>3. SameKinds
  <2>1. UNCHANGED procs => SameKinds
    BY DEF SameKinds
  <2>2. CASE ConnectEnvoy(s)
    BY <2>1, <2>2, ConnectCases, ConnectKinds, HostFacts DEF GivesUp
  <2>3. CASE ConnectWorkload(s)
    BY <2>3, ConnectKinds, ConnectHolds DEF ConnectWorkload, Commands
  <2>. QED
    BY <2>2, <2>3
<1>4. Serving' = Serving
  BY <1>1, <1>3, SameKindsServe
<1>. QED
  BY <1>1, <1>2, <1>4, PlainServes DEF Replacing

LEMMA QuietServing ==
  ASSUME MaxFaults = 0, TInv, NEW s \in Cmds, GatewayKnown(s), QuietStep(s)
  PROVE  GatewayKnown(s)'
<1>1. CASE WriteFragment(s) \/ CreateConfig(s) \/ RenderConfig(s) \/ RemoveFragment(s)
           \/ ReleaseIp(s)
  <2>1. /\ cli[s].pc \notin Replacing /\ UNCHANGED <<procs, stopping, pidfile>>
        /\ \E t \in {"read", "render", "find", "kill"} : Goto(s, t) /\ t \in Steps
    BY <1>1 DEF WriteFragment, CreateConfig, RenderConfig, RemoveFragment, ReleaseIp, At,
                Replacing, Steps, disk
  <2>2. cli'[s].pc \in {"read", "render", "find", "kill"}
    BY <2>1, GotoEffect DEF TInv
  <2>3. Serving' = Serving
    BY <2>1 DEF Serving, Gateways
  <2>. QED
    BY <2>1, <2>2, <2>3, PlainServes DEF Replacing
<1>2. CASE ReadFragments(s)
  <2>1. cli[s].pc = "read" /\ UNCHANGED <<procs, stopping, pidfile>>
    BY <1>2 DEF ReadFragments, At, disk
  <2>2. cli'[s].pc = "truncate"
    BY <1>2 DEF ReadFragments, TInv, TypeOK, Commands
  <2>3. Serving' = Serving
    BY <2>1 DEF Serving, Gateways
  <2>. QED
    BY <2>1, <2>2, <2>3, PlainServes DEF Replacing
<1>. QED
  BY <1>1, <1>2, StopsServing, SpawnServing, WritePidServing, RemovePidServing,
     ConnectServing DEF QuietStep

\* Nothing else starts a gateway, and the pid file is left alone.
LEMMA OtherServing ==
  ASSUME TInv, NEW s \in Cmds, GatewayKnown(s),
         \/ \E m \in Manifests : RunCreate(s, m)
         \/ \E k \in Keys : RunDelete(s, k)
         \/ RunCleanup(s) \/ Unlink(s)
         \/ ExecPythonService(s) \/ ExecPostgreSQL(s)
         \/ KillWorkload(s) \/ Register(s) \/ Unregister(s)
  PROVE  GatewayKnown(s)'
<1>1. cli[s].pc \notin Replacing /\ UNCHANGED pidfile
  BY DEF RunCreate, RunDelete, RunCleanup, Unlink, ExecPythonService, ExecPostgreSQL,
         StartWorkload, KillWorkload, Register, Unregister, At, Replacing, disk
<1>2. Serving' \subseteq Serving
  <2>1. CASE UNCHANGED <<procs, stopping>>
    BY <2>1 DEF Serving, Gateways
  <2>2. CASE Unlink(s)
    BY <2>2, UnlinkEffect, SameKindsServe DEF Unlink
  <2>3. CASE KillWorkload(s)
    BY <2>1, <2>3, KillServes DEF KillWorkload, TInv
  <2>4. CASE ExecPythonService(s) \/ ExecPostgreSQL(s)
    <3>1. PICK p \in Pids, r \in Procs : Begins(p, r) /\ r.kind # "envoy"
      BY <2>4, ExecBegins
    <3>2. UNCHANGED stopping
      BY <2>4 DEF ExecPythonService, ExecPostgreSQL, StartWorkload
    <3>. QED
      BY <3>1, <3>2 DEF Begins, Serving, Gateways, TInv, TypeOK
  <2>. QED
    BY <2>1, <2>2, <2>3, <2>4 DEF RunCreate, RunDelete, RunCleanup, Register, Unregister
<1>3. cli'[s].pc \notin Replacing \cup {"join"}
  <2>1. CASE \/ \E m \in Manifests : RunCreate(s, m)
             \/ \E k \in Keys : RunDelete(s, k)
             \/ RunCleanup(s) \/ KillWorkload(s) \/ Register(s) \/ Unregister(s)
    <3>1. Passes(s)
      BY <2>1, BeginPasses, StepPasses
    <3>2. CASE KillWorkload(s)
      BY <3>2, GotoEffect, ExitEffect DEF KillWorkload, Steps, TInv, Leaves, Idle, Replacing
    <3>3. CASE Register(s) \/ Unregister(s)
      BY <3>3, ExitEffect DEF Register, Unregister, TInv, Leaves, Idle, Replacing
    <3>4. CASE RunCleanup(s)
      BY <3>4 DEF RunCleanup, TInv, TypeOK, Commands, Replacing
    <3>5. ASSUME NEW k \in Keys, RunDelete(s, k) PROVE cli'[s].pc = "release"
      BY <3>5, DeleteBegins
    <3>6. ASSUME NEW m \in Manifests, RunCreate(s, m)
          PROVE  cli'[s].pc \in {"idle", "register", "fragment", "start"}
      <4>. DEFINE r(a) == [Idle EXCEPT !.pc = IF ~m.supported THEN "register"
                                        ELSE IF m.lb THEN "fragment" ELSE "start",
                               !.m = m, !.key = KeyOf(m), !.ip = a]
      <4>1. \A a : r(a).pc \in {"register", "fragment", "start"}
        BY DEF Idle
      <4>2. UNCHANGED cli \/ \E a : cli' = [cli EXCEPT ![s] = r(a)]
        BY <3>6 DEF RunCreate
      <4>3. cli[s].pc = "idle"
        BY <3>6 DEF RunCreate, At
      <4>. HIDE DEF r
      <4>. QED
        BY <4>1, <4>2, <4>3 DEF TInv, TypeOK
    <3>. QED
      BY <2>1, <3>2, <3>3, <3>4, <3>5, <3>6 DEF Replacing
  <2>2. CASE Unlink(s)
    BY <2>2, UnlinkEffect DEF Replacing
  <2>3. CASE ExecPythonService(s) \/ ExecPostgreSQL(s)
    BY <2>3, ExecBegins DEF Replacing
  <2>. QED
    BY <2>1, <2>2, <2>3
<1>. QED
  BY <1>1, <1>2, <1>3, PlainServes

LEMMA InitServing ==
  ASSUME Init, NEW s \in Cmds
  PROVE  GatewayKnown(s)
  BY DEF Init, Idle, NoProc, GatewayKnown, Serving, Gateways

LEMMA NextServing ==
  ASSUME NEW s, Cmds = {s}, MaxFaults = 0, TInv, GatewayKnown(s), [Next]_vars
  PROVE  GatewayKnown(s)'
<1>1. s \in Cmds /\ \A c \in Cmds : c = s
  OBVIOUS
<1>2. CASE Outside \/ UNCHANGED vars
  BY <1>2, OutsideServes DEF GatewayKnown, disk
<1>3. ASSUME NEW c \in Cmds, Crash(c) PROVE FALSE
  BY <1>3, CrashTyped
<1>. QED
  BY <1>1, <1>2, <1>3, NextCases, QuietServing, OtherServing

\* When commands are run one at a time and none is cut off, at every step at most one
\* gateway has not been told to stop, and between commands the pid file names it.
\* Nothing is assumed of the manifests: a service that makes Envoy refuse its
\* configuration, or a database that has got an exited gateway's pid, included.
THEOREM OneGateway ==
  ASSUME NEW CONSTANT s, Cmds = {s}, MaxFaults = 0
  PROVE  Spec => []GatewaySingle
<1>1. Init => TInv /\ GatewayKnown(s)
  BY InitTyped, InitServing
<1>2. TInv /\ GatewayKnown(s) /\ [Next]_vars => TInv' /\ GatewayKnown(s)'
  BY NextTyped, NextServing
<1>3. GatewayKnown(s) => GatewaySingle
  <2>. SUFFICES ASSUME GatewayKnown(s) PROVE GatewaySingle
    OBVIOUS
  <2>1. \A p, q \in Serving : p = q
    BY DEF GatewayKnown, Replacing
  <2>2. Quiet => \A p \in Serving : pidfile = p
    BY DEF GatewayKnown, Replacing, Quiet, At
  <2>. QED
    BY <2>1, <2>2 DEF GatewaySingle
<1>. QED
  BY <1>1, <1>2, <1>3, PTL DEF Spec

-----------------------------------------------------------------------------
(* Addresses of interfaces *)

LEMMA NextGivenUp ==
  ASSUME NEW s, Cmds = {s}, Implemented, TInv, DInv, AInv, HInv, Leased, GivenUp(s),
         MaxFaults = 0, [Next]_vars
  PROVE  GivenUp(s)'
<1>1. s \in Cmds /\ \A c \in Cmds : c = s
  OBVIOUS
<1>2. CASE Outside \/ UNCHANGED vars
  <2>1. UNCHANGED <<registry, cli>>
    BY <1>2, OutsideServes
  <2>. QED
    BY <2>1 DEF GivenUp, AddressOf, At
<1>3. CASE ReleaseIp(s)
  <2>. DEFINE k == cli[s].key
              a == AddressOf[k]
  <2>1. /\ k \in Keys /\ AddressOf'[k] = NoIp /\ a = cli[s].entry.ip
        /\ \A j \in Keys \ {k} : AddressOf'[j] = AddressOf[j]
    BY <1>1, <1>3, HeldDef, ReleaseMoves, ReleaseLeases DEF AInv, ReturnMove, LoseMove
  <2>2. cli'[s].entry = cli[s].entry
    BY <1>1, <1>3, QuietTyped DEF QuietStep, QuietMove, Keeps
  <2>. HIDE DEF k
  <2>3. ASSUME NEW j \in Keys, a # NoIp PROVE AddressOf'[j] # a
    BY <2>1, <2>3 DEF HInv, Distinct
  <2>. QED
    BY <2>1, <2>2, <2>3 DEF GivenUp
<1>4. CASE cli'[s].pc # "kill"
  BY <1>4 DEF GivenUp
<1>5. CASE QuietStep(s) /\ ~ReleaseIp(s)
  BY <1>1, <1>4, <1>5, QuietNoKill
<1>6. CASE \/ \E m \in Manifests : RunCreate(s, m)
           \/ \E k \in Keys : RunDelete(s, k)
           \/ RunCleanup(s)
           \/ Unlink(s)
  <2>1. CASE RunCleanup(s)
    BY <1>1, <1>4, <2>1 DEF RunCleanup, TInv, TypeOK, Commands
  <2>. QED
    BY <1>1, <1>4, <1>6, <2>1, CreateBegins, DeleteBegins, UnlinkEffect
<1>7. CASE ExecPythonService(s) \/ ExecPostgreSQL(s)
  BY <1>1, <1>4, <1>7, ExecBegins
<1>8. CASE KillWorkload(s) \/ Register(s) \/ Unregister(s)
  BY <1>1, <1>4, <1>8, KillWorkloadTyped, RegisterTyped, UnregisterTyped DEF Leaves, Idle
<1>9. ASSUME NEW c \in Cmds, Crash(c) PROVE FALSE
  BY <1>9, CrashTyped
<1>. QED
  BY <1>1, <1>2, <1>3, <1>5, <1>6, <1>7, <1>8, <1>9, NextCases

LEMMA SequentialInvariant ==
  ASSUME NEW CONSTANT s, Cmds = {s}, OnePerName, MaxFaults = 0, Implemented
  PROVE  Spec => [](TInv /\ DInv /\ AInv /\ HInv /\ PInv /\ Leased /\ GivenUp(s))
<1>1. Init => GivenUp(s)
  BY DEF Init, Idle, GivenUp
<1>2. TInv /\ DInv /\ AInv /\ HInv /\ Leased /\ GivenUp(s) /\ [Next]_vars => GivenUp(s)'
  BY NextGivenUp
<1>. QED
  BY <1>1, <1>2, LeaseInvariant, PTL DEF Spec

\* When commands are run one at a time, no two workloads have the same address on
\* the bridge, not even while a delete has given an address back and the workload
\* still runs.
THEOREM AddressesDistinct ==
  ASSUME NEW CONSTANT s, Cmds = {s}, OnePerName, MaxFaults = 0, Implemented
  PROVE  Spec => []WorkloadAddressesDistinct
<1>1. TInv /\ DInv /\ AInv /\ HInv /\ PInv /\ Leased /\ GivenUp(s) => WorkloadAddressesDistinct
  <2>. SUFFICES ASSUME TInv, DInv, AInv, HInv, PInv, Leased, GivenUp(s),
                       NEW p \in Workloads, NEW q \in Workloads,
                       p # q, procs[p].addr = procs[q].addr, procs[p].addr # NoIp
                PROVE  FALSE
    BY DEF WorkloadAddressesDistinct
  <2>1. procs[p].key \in Keys /\ procs[q].key \in Keys /\ procs[p].key # procs[q].key
    BY OneProcessPerName
  <2>2. ASSUME NEW x \in {p, q}
        PROVE  procs[x].addr = AddressOf[procs[x].key] \/ Killed(s, x)
    BY DEF Leased
  <2>3. ~(Killed(s, p) /\ Killed(s, q))
    BY <2>1 DEF Killed
  <2>4. ~(/\ procs[p].addr = AddressOf[procs[p].key]
          /\ procs[q].addr = AddressOf[procs[q].key])
    BY <2>1 DEF HInv, Distinct
  <2>5. /\ ~(procs[p].addr = AddressOf[procs[p].key] /\ Killed(s, q))
        /\ ~(procs[q].addr = AddressOf[procs[q].key] /\ Killed(s, p))
    BY <2>1 DEF GivenUp, Killed
  <2>. QED
    BY <2>2, <2>3, <2>4, <2>5
<1>. QED
  BY <1>1, SequentialInvariant, PTL

-----------------------------------------------------------------------------
(* Routes *)

\* Every load-balanced service has an automatic server and an upstream of its own.
Routable ==
    /\ \A m \in Manifests : m.lb => m.server = Nil
    /\ \A m, n \in Manifests :
          m.lb /\ n.lb /\ m.upstream = n.upstream => KeyOf(m) = KeyOf(n)

\* The recorded workloads whose fragments no delete has removed yet.
Standing(s, k) ==
    cli[s].key = k => cli[s].pc \in {"release", "kill", "stop", "rmpid", "rmfrag"}
Balanced(s) == {k \in Entered : registry[k].conf # Nil /\ Standing(s, k)}

\* The routes they need, and the one that a create has written a fragment for.
RecordedRoutes(s) == {<<registry[k].conf, registry[k].ip>> : k \in Balanced(s)}
OwnRoute(s) ==
    IF cli[s].m # Nil /\ cli[s].m.lb /\ cli[s].pc # "fragment"
    THEN {<<cli[s].m.upstream, cli[s].ip>>} ELSE {}

\* Fragments are written for load-balanced services, and upstreams are those of the
\* manifests.
Named(s) ==
    /\ cli[s].m # Nil => cli[s].key = KeyOf(cli[s].m)
    /\ cli[s].pc = "fragment" => cli[s].m.lb
    /\ \A k \in Entered :
          registry[k].conf # Nil =>
             \E m \in Manifests : m.lb /\ KeyOf(m) = k /\ registry[k].conf = m.upstream

\* Where a route is: in the fragments, in what was read of them, in the file, and
\* in a gateway if the file is valid, but not while the file or the gateway is being
\* replaced.
Reading    == {"truncate", "render"}
Configured == {"find", "spawn", "writepid", "join", "start", "link", "register"}
Running    == {"writepid", "join", "start", "link", "register"}
Restarting == {"render", "stop", "rmpid", "rmfrag", "find", "spawn"}
HasRoute(r) == \E p \in Serving : r \in procs[p].routes

Written(s)  == RecordedRoutes(s) \cup OwnRoute(s) \subseteq frags
Read(s)     == cli[s].pc \in Reading =>
                  RecordedRoutes(s) \cup OwnRoute(s) \subseteq cli[s].seen
Rendered(s) == /\ cli[s].pc # "render" => RecordedRoutes(s) \subseteq rendered
               /\ cli[s].pc \in Configured => OwnRoute(s) \subseteq rendered
Served(s)   == Valid(rendered) =>
                  /\ cli[s].pc \notin Restarting =>
                        \A r \in RecordedRoutes(s) : HasRoute(r)
                  /\ cli[s].pc \in Running => \A r \in OwnRoute(s) : HasRoute(r)

RInv(s) == Named(s) /\ Written(s) /\ Read(s) /\ Rendered(s) /\ Served(s)

-----------------------------------------------------------------------------
(* What steps do to routes *)

RoutesKept == \A r : HasRoute(r) => HasRoute(r)'

\* A step that only moves on keeps what was read.
LEMMA GotoSeen ==
  ASSUME TypeOK, NEW s \in Cmds, NEW t \in Steps, Goto(s, t)
  PROVE  cli'[s].seen = cli[s].seen
  BY DEF TypeOK, Goto, Commands

LEMMA SameRoutes ==
  ASSUME \A p \in Serving : p \in Serving' /\ procs'[p].routes = procs[p].routes
  PROVE  RoutesKept
  BY DEF RoutesKept, HasRoute

\* Connecting and disconnecting leave routes alone.
LEMMA ConnectRoutes ==
  ASSUME TypeOK, NEW p, NEW a, procs' = [procs EXCEPT ![p].addr = a], UNCHANGED stopping
  PROVE  RoutesKept
<1>1. \A q \in Pids : procs'[q].kind = procs[q].kind /\ procs'[q].routes = procs[q].routes
  BY DEF TypeOK, Procs
<1>. QED
  BY <1>1, SameRoutes DEF Serving, Gateways

\* A step that adds no route that somebody needs, leaves the files alone and keeps
\* the gateways, or stops them to start a new one.
LEMMA RouteStep ==
  ASSUME NEW s \in Cmds, RInv(s), Named(s)',
         RecordedRoutes(s)' \subseteq RecordedRoutes(s),
         OwnRoute(s)' \subseteq OwnRoute(s),
         UNCHANGED <<frags, rendered>>,
         cli'[s].pc \notin Reading, cli[s].pc # "render",
         cli'[s].pc \in Configured => cli[s].pc \in Configured \/ OwnRoute(s)' = {},
         cli'[s].pc \in Running => cli[s].pc \in Running \/ OwnRoute(s)' = {},
         cli'[s].pc \notin Restarting => cli[s].pc \notin Restarting /\ RoutesKept
  PROVE  RInv(s)'
<1>1. Written(s)' /\ Read(s)'
  BY DEF RInv, Written, Read
<1>2. Rendered(s)'
  BY DEF RInv, Rendered
<1>3. ASSUME Valid(rendered), cli'[s].pc \notin Restarting, NEW r \in RecordedRoutes(s)'
      PROVE  HasRoute(r)'
  <2>1. HasRoute(r)
    BY <1>3 DEF RInv, Served
  <2>. QED
    BY <1>3, <2>1 DEF RoutesKept
<1>4. ASSUME Valid(rendered), cli'[s].pc \in Running, NEW r \in OwnRoute(s)'
      PROVE  HasRoute(r)'
  <2>1. HasRoute(r) /\ cli'[s].pc \notin Restarting
    BY <1>4 DEF RInv, Served, Running, Restarting
  <2>. QED
    BY <2>1 DEF RoutesKept
<1>5. Served(s)'
  BY <1>3, <1>4 DEF Served
<1>. QED
  BY <1>1, <1>2, <1>5 DEF RInv

\* A command that keeps what it carries.
LEMMA KeptRoutes ==
  ASSUME NEW s \in Cmds, RInv(s), Keeps(s), UNCHANGED registry,
         cli'[s].pc # "fragment",
         cli'[s].pc \in {"release", "kill", "stop", "rmpid", "rmfrag"} =>
            cli[s].pc \in {"release", "kill", "stop", "rmpid", "rmfrag"}
  PROVE  Named(s)' /\ RecordedRoutes(s)' \subseteq RecordedRoutes(s)
<1>1. Named(s)'
  BY DEF RInv, Named, Keeps, Entered
<1>2. \A k \in Keys : Standing(s, k)' => Standing(s, k)
  BY DEF Standing, Keeps
<1>3. \A k \in Balanced(s)' : k \in Balanced(s) /\ registry'[k] = registry[k]
  BY <1>2 DEF Balanced, Entered
<1>. QED
  BY <1>1, <1>3 DEF RecordedRoutes

LEMMA KeptOwn ==
  ASSUME NEW s \in Cmds, Keeps(s), cli'[s].ip = cli[s].ip, cli[s].pc # "fragment"
  PROVE  OwnRoute(s)' \subseteq OwnRoute(s)
  BY DEF OwnRoute, Keeps

\* No two workloads share an upstream.
LEMMA OtherUpstream ==
  ASSUME Routable, TInv, NEW s \in Cmds, RInv(s), NEW k \in Balanced(s),
         NEW j \in Keys, NEW m \in Manifests, m.lb, KeyOf(m) = j, j # k
  PROVE  registry[k].conf # m.upstream
  BY DEF RInv, Named, Balanced, Routable

\* The fragment of the service is written: the others stay.
LEMMA WriteRoutes ==
  ASSUME Routable, TInv, NEW s \in Cmds, RInv(s), WriteFragment(s)
  PROVE  RInv(s)'
<1>. DEFINE m == cli[s].m
            own == <<m.upstream, cli[s].ip>>
<1>1. /\ cli[s].pc = "fragment" /\ m \in Manifests /\ cli[s].key \in Keys
      /\ UNCHANGED <<registry, procs, stopping, rendered>> /\ Goto(s, "read") /\ "read" \in Steps
  BY DEF WriteFragment, At, TInv, Shape, WellFormed, CreateSteps, DeleteSteps, EnvoySteps,
         Steps
<1>2. Keeps(s) /\ cli'[s].pc = "read" /\ cli'[s].ip = cli[s].ip
  BY <1>1, GotoEffect, GotoDetails DEF TInv
<1>3. Named(s)' /\ RecordedRoutes(s)' \subseteq RecordedRoutes(s)
  BY <1>1, <1>2, KeptRoutes
<1>4. m.lb
  BY <1>1 DEF RInv, Named
<1>5. OwnRoute(s)' \subseteq {own} /\ frags' = {f \in frags : f[1] # m.upstream} \cup {own}
  <2>1. m.server = Nil
    BY <1>1, <1>4 DEF Routable
  <2>2. frags' = {f \in frags : f[1] # m.upstream} \cup {own}
    BY <2>1 DEF WriteFragment
  <2>3. OwnRoute(s)' \subseteq {own}
    BY <1>2 DEF OwnRoute, Keeps
  <2>. QED
    BY <2>2, <2>3
<1>. HIDE DEF own
<1>6. Written(s)'
  <2>1. ASSUME NEW k \in Balanced(s)
        PROVE  <<registry[k].conf, registry[k].ip>> \in frags'
    <3>1. cli[s].key # k /\ cli[s].key = KeyOf(m)
      BY <1>1, NilAssumption DEF Balanced, Standing, RInv, Named
    <3>2. registry[k].conf # m.upstream
      BY <1>1, <1>4, <3>1, OtherUpstream
    <3>3. <<registry[k].conf, registry[k].ip>> \in frags
      BY DEF RInv, Written, RecordedRoutes
    <3>. QED
      BY <1>5, <3>2, <3>3
  <2>2. RecordedRoutes(s) \subseteq frags'
    BY <2>1 DEF RecordedRoutes
  <2>. QED
    BY <1>3, <1>5, <2>2 DEF Written
<1>7. Read(s)'
  BY <1>2 DEF Read, Reading
<1>8. Rendered(s)'
  BY <1>1, <1>2, <1>3 DEF RInv, Rendered, Configured
<1>9. Served(s)'
  <2>1. RoutesKept
    BY <1>1, SameRoutes DEF Serving, Gateways
  <2>. QED
    BY <1>1, <1>2, <1>3, <2>1 DEF RInv, Served, Running, Restarting, RoutesKept
<1>. QED
  BY <1>3, <1>6, <1>7, <1>8, <1>9 DEF RInv

\* All fragments are read.
LEMMA ReadRoutes ==
  ASSUME TInv, NEW s \in Cmds, RInv(s), ReadFragments(s)
  PROVE  RInv(s)'
<1>1. /\ cli[s].pc = "read" /\ cli[s] \in Commands
      /\ UNCHANGED <<registry, procs, stopping, frags, rendered>>
  BY DEF ReadFragments, At, TInv, TypeOK, disk
<1>2. cli'[s].pc = "truncate" /\ cli'[s].seen = frags
  <2>. DEFINE r == [cli[s] EXCEPT !.pc = "truncate", !.seen = frags]
  <2>1. r.pc = "truncate" /\ r.seen = frags
    BY <1>1 DEF Commands
  <2>2. cli' = [cli EXCEPT ![s] = r]
    BY DEF ReadFragments, TInv, TypeOK
  <2>. HIDE DEF r
  <2>. QED
    BY <2>1, <2>2 DEF TInv, TypeOK
<1>3. Keeps(s) /\ cli'[s].ip = cli[s].ip
  BY QuietTyped, QuietDetails DEF QuietStep, QuietMove
<1>4. /\ Named(s)' /\ RecordedRoutes(s)' \subseteq RecordedRoutes(s)
      /\ OwnRoute(s)' \subseteq OwnRoute(s)
  BY <1>1, <1>2, <1>3, KeptRoutes, KeptOwn
<1>5. Written(s)'
  BY <1>1, <1>4 DEF RInv, Written
<1>6. Read(s)'
  BY <1>2, <1>4 DEF RInv, Written, Read
<1>7. Rendered(s)'
  BY <1>1, <1>2, <1>4 DEF RInv, Rendered, Configured
<1>8. Served(s)'
  <2>1. RoutesKept
    BY <1>1, SameRoutes DEF Serving, Gateways
  <2>. QED
    BY <1>1, <1>2, <1>4, <2>1 DEF RInv, Served, Running, Restarting, RoutesKept
<1>. QED
  BY <1>4, <1>5, <1>6, <1>7, <1>8 DEF RInv

\* The file is empty until it is rendered; the gateway does not read it meanwhile.
LEMMA TruncateRoutes ==
  ASSUME TInv, NEW s \in Cmds, RInv(s), CreateConfig(s)
  PROVE  RInv(s)'
<1>1. /\ cli[s].pc = "truncate" /\ Goto(s, "render") /\ "render" \in Steps
      /\ UNCHANGED <<registry, procs, stopping, frags>>
  BY DEF CreateConfig, At, Steps
<1>2. /\ Keeps(s) /\ cli'[s].pc = "render" /\ cli'[s].seen = cli[s].seen
      /\ cli'[s].ip = cli[s].ip
  BY <1>1, GotoEffect, GotoDetails, GotoSeen DEF TInv
<1>3. /\ Named(s)' /\ RecordedRoutes(s)' \subseteq RecordedRoutes(s)
      /\ OwnRoute(s)' \subseteq OwnRoute(s)
  BY <1>1, <1>2, KeptRoutes, KeptOwn
<1>4. Written(s)' /\ Read(s)' /\ Rendered(s)'
  BY <1>1, <1>2, <1>3 DEF RInv, Written, Read, Rendered, Reading, Configured
<1>5. Served(s)'
  BY <1>2 DEF Served, Running, Restarting
<1>. QED
  BY <1>3, <1>4, <1>5 DEF RInv

LEMMA RenderRoutes ==
  ASSUME TInv, NEW s \in Cmds, RInv(s), RenderConfig(s)
  PROVE  RInv(s)'
<1>1. /\ cli[s].pc = "render" /\ Goto(s, "find") /\ "find" \in Steps
      /\ rendered' = cli[s].seen /\ UNCHANGED <<registry, procs, stopping, frags>>
  BY DEF RenderConfig, At, Steps
<1>2. Keeps(s) /\ cli'[s].pc = "find" /\ cli'[s].ip = cli[s].ip
  BY <1>1, GotoEffect, GotoDetails DEF TInv
<1>3. /\ Named(s)' /\ RecordedRoutes(s)' \subseteq RecordedRoutes(s)
      /\ OwnRoute(s)' \subseteq OwnRoute(s)
  BY <1>1, <1>2, KeptRoutes, KeptOwn
<1>4. Written(s)' /\ Read(s)' /\ Rendered(s)'
  BY <1>1, <1>2, <1>3 DEF RInv, Written, Read, Rendered, Reading
<1>5. Served(s)'
  BY <1>2 DEF Served, Running, Restarting
<1>. QED
  BY <1>3, <1>4, <1>5 DEF RInv

\* The fragment of the deleted workload goes, and no other.
LEMMA RemoveRoutes ==
  ASSUME Routable, TInv, DInv, NEW s \in Cmds, RInv(s), RemoveFragment(s)
  PROVE  RInv(s)'
<1>1. /\ cli[s].pc = "rmfrag" /\ Goto(s, "find") /\ "find" \in Steps
      /\ cli[s].m = Nil /\ cli[s].key \in Keys /\ cli[s].entry \in Entries
      /\ frags' = {f \in frags : f[1] # cli[s].entry.conf}
      /\ UNCHANGED <<registry, procs, stopping, rendered>>
  BY DEF RemoveFragment, At, TInv, Shape, WellFormed, CreateSteps, DeleteSteps, EnvoySteps,
         Steps
<1>2. Keeps(s) /\ cli'[s].pc = "find" /\ cli'[s].ip = cli[s].ip
  BY <1>1, GotoEffect, GotoDetails DEF TInv
<1>3. /\ Named(s)' /\ RecordedRoutes(s)' \subseteq RecordedRoutes(s)
      /\ OwnRoute(s)' = {}
  BY <1>1, <1>2, KeptRoutes DEF OwnRoute, Keeps
<1>4. cli[s].entry = registry[cli[s].key] /\ cli[s].key \in Entered
  BY <1>1, EntryAssumption DEF DInv, EntryHeld, Entered
<1>5. ASSUME NEW k \in Balanced(s)'
      PROVE  <<registry'[k].conf, registry'[k].ip>> \in frags'
  <2>1. k # cli[s].key /\ k \in Balanced(s) /\ registry'[k] = registry[k]
    BY <1>1, <1>2, <1>5 DEF Balanced, Standing, Keeps, Entered
  <2>2. registry[k].conf # cli[s].entry.conf
    <3>1. registry[k].conf # Nil
      BY <2>1 DEF Balanced
    <3>2. CASE cli[s].entry.conf # Nil
      <4>1. PICK m \in Manifests : /\ m.lb /\ KeyOf(m) = cli[s].key
                                   /\ cli[s].entry.conf = m.upstream
        BY <1>4, <3>2 DEF RInv, Named
      <4>. QED
        BY <1>1, <2>1, <4>1, OtherUpstream
    <3>. QED
      BY <3>1, <3>2
  <2>3. <<registry[k].conf, registry[k].ip>> \in frags
    BY <2>1 DEF RInv, Written, RecordedRoutes
  <2>. QED
    BY <1>1, <2>1, <2>2, <2>3
<1>6. Written(s)'
  BY <1>3, <1>5 DEF Written, RecordedRoutes
<1>7. Read(s)' /\ Rendered(s)'
  BY <1>1, <1>2, <1>3 DEF RInv, Read, Rendered, Reading
<1>8. Served(s)'
  BY <1>2 DEF Served, Running, Restarting
<1>. QED
  BY <1>3, <1>6, <1>7, <1>8 DEF RInv

\* The new gateway is started on the file as it is now.
LEMMA SpawnRoutes ==
  ASSUME MaxFaults = 0, TInv, NEW s \in Cmds, RInv(s), SpawnEnvoy(s)
  PROVE  RInv(s)'
<1>1. /\ cli[s].pc = "spawn" /\ cli[s] \in Commands
      /\ UNCHANGED <<registry, frags, rendered>>
  BY DEF SpawnEnvoy, At, TInv, TypeOK, disk
<1>2. PICK p \in FreePids :
         /\ procs' = [procs EXCEPT ![p] =
                        [NoProc EXCEPT !.kind = "envoy",
                                       !.routes = IF Valid(rendered)
                                                  THEN rendered ELSE {}]]
         /\ stopping' = IF Valid(rendered) THEN stopping ELSE stopping \cup {p}
         /\ cli' = [cli EXCEPT ![s].envoy = p, ![s].pc = "writepid"]
  BY NoFault DEF SpawnEnvoy, TInv
<1>3. cli'[s].pc = "writepid"
  <2>. DEFINE r == [cli[s] EXCEPT !.envoy = p, !.pc = "writepid"]
  <2>1. r.pc = "writepid"
    BY <1>1 DEF Commands
  <2>2. cli' = [cli EXCEPT ![s] = r]
    BY <1>2 DEF TInv, TypeOK
  <2>. HIDE DEF r
  <2>. QED
    BY <2>1, <2>2 DEF TInv, TypeOK
<1>4. Keeps(s) /\ cli'[s].ip = cli[s].ip
  BY QuietTyped, QuietDetails DEF QuietStep, QuietMove
<1>5. /\ Named(s)' /\ RecordedRoutes(s)' \subseteq RecordedRoutes(s)
      /\ OwnRoute(s)' \subseteq OwnRoute(s)
  BY <1>1, <1>3, <1>4, KeptRoutes, KeptOwn
<1>6. Valid(rendered) => p \in Serving' /\ procs'[p].routes = rendered
  <2>1. p \in Pids /\ p \notin stopping
    BY DEF FreePids, Live, Terminable, TInv, TypeOK
  <2>. QED
    BY <1>2, <2>1 DEF Serving, Gateways, NoProc, TInv, TypeOK
<1>7. RecordedRoutes(s) \cup OwnRoute(s) \subseteq rendered
  BY <1>1 DEF RInv, Rendered, Configured
<1>8. Written(s)' /\ Read(s)' /\ Rendered(s)'
  BY <1>1, <1>3, <1>5, <1>7 DEF RInv, Written, Read, Rendered, Reading
<1>9. Served(s)'
  BY <1>1, <1>5, <1>6, <1>7 DEF Served, HasRoute
<1>. QED
  BY <1>5, <1>8, <1>9 DEF RInv

LEMMA QuietRoutes ==
  ASSUME Routable, MaxFaults = 0, TInv, DInv, NEW s \in Cmds, RInv(s), QuietStep(s)
  PROVE  RInv(s)'
<1>0. TypeOK /\ Keeps(s) /\ UNCHANGED registry /\ cli'[s].ip = cli[s].ip
  BY QuietTyped, QuietDetails DEF QuietMove, TInv
<1>. USE DEF At, Reading, Configured, Running, Restarting
<1>1. ASSUME cli[s].pc \notin {"fragment", "render"},
             UNCHANGED <<frags, rendered>>,
             cli'[s].pc \notin Reading \cup {"fragment"},
             cli'[s].pc \in Configured => cli[s].pc \in Configured,
             cli'[s].pc \in Running => cli[s].pc \in Running,
             cli'[s].pc \notin Restarting => cli[s].pc \notin Restarting /\ RoutesKept,
             cli'[s].pc \in {"release", "kill", "stop", "rmpid", "rmfrag"} =>
                cli[s].pc \in {"release", "kill", "stop", "rmpid", "rmfrag"}
      PROVE  RInv(s)'
  BY <1>0, <1>1, KeptRoutes, KeptOwn, RouteStep
<1>2. CASE StopExisting(s)
  <2>1. /\ cli[s].pc = "find" /\ Goto(s, "spawn") /\ "spawn" \in Steps
        /\ UNCHANGED <<frags, rendered>>
    BY <1>2 DEF StopExisting, Steps, disk
  <2>2. cli'[s].pc = "spawn"
    BY <1>0, <2>1, GotoEffect
  <2>. QED
    BY <1>1, <2>1, <2>2
<1>3. CASE StopEnvoy(s) \/ RemovePidFile(s)
  <2>1. /\ cli[s].pc \in {"stop", "rmpid"} /\ UNCHANGED <<frags, rendered>>
        /\ \E t \in {"rmpid", "rmfrag"} : Goto(s, t) /\ t \in Steps
    BY <1>3 DEF StopEnvoy, RemovePidFile, Steps, disk
  <2>2. cli'[s].pc \in {"rmpid", "rmfrag"}
    BY <1>0, <2>1, GotoEffect
  <2>. QED
    BY <1>1, <2>1, <2>2
<1>4. CASE WritePidFile(s) \/ ReleaseIp(s)
  <2>1. /\ \/ cli[s].pc = "writepid" /\ Goto(s, "join")
           \/ cli[s].pc = "release" /\ Goto(s, "kill")
        /\ {"join", "kill"} \subseteq Steps
        /\ UNCHANGED <<frags, rendered, procs, stopping>>
    BY <1>4 DEF WritePidFile, ReleaseIp, Steps, disk
  <2>2. \/ cli[s].pc = "writepid" /\ cli'[s].pc = "join"
        \/ cli[s].pc = "release" /\ cli'[s].pc = "kill"
    BY <1>0, <2>1, GotoEffect
  <2>3. RoutesKept
    BY <2>1, SameRoutes DEF Serving, Gateways
  <2>. QED
    BY <1>1, <2>1, <2>2, <2>3
<1>5. CASE ConnectEnvoy(s) \/ ConnectWorkload(s)
  <2>1. /\ \/ /\ cli[s].pc = "join" /\ Goto(s, AfterEnvoy(s))
              /\ AfterEnvoy(s) \in {"start", "unregister"}
           \/ cli[s].pc = "link" /\ Goto(s, "register")
        /\ {"start", "unregister", "register"} \subseteq Steps
        /\ UNCHANGED <<frags, rendered>>
    BY <1>5 DEF ConnectEnvoy, ConnectWorkload, AfterEnvoy, Steps, disk
  <2>2. \/ cli[s].pc = "join" /\ cli'[s].pc \in {"start", "unregister"}
        \/ cli[s].pc = "link" /\ cli'[s].pc = "register"
    BY <1>0, <2>1, GotoEffect
  <2>3. RoutesKept
    <3>1. UNCHANGED stopping
      BY <1>5 DEF ConnectEnvoy, ConnectWorkload
    <3>2. CASE UNCHANGED procs
      BY <3>1, <3>2, SameRoutes DEF Serving, Gateways
    <3>. QED
      BY <1>0, <1>5, <3>1, <3>2, ConnectRoutes DEF ConnectEnvoy, ConnectWorkload
  <2>. QED
    BY <1>1, <2>1, <2>2, <2>3
<1>. QED
  BY <1>2, <1>3, <1>4, <1>5, WriteRoutes, ReadRoutes, TruncateRoutes, RenderRoutes,
     RemoveRoutes, SpawnRoutes DEF QuietStep

-----------------------------------------------------------------------------
(* The other steps *)

LEMMA InitRoutes ==
  ASSUME Init, NEW s \in Cmds
  PROVE  RInv(s)
<1>1. cli[s] = Idle /\ Entered = {}
  BY DEF Init, Entered
<1>2. RecordedRoutes(s) = {} /\ OwnRoute(s) = {} /\ cli[s].pc = "idle" /\ cli[s].m = Nil
  BY <1>1 DEF RecordedRoutes, Balanced, OwnRoute, Idle
<1>. QED
  BY <1>1, <1>2 DEF RInv, Named, Written, Read, Rendered, Served, Reading, Configured, Running

LEMMA BeginRoutes ==
  ASSUME Implemented, TInv, NEW s \in Cmds, RInv(s),
         \/ \E m \in Manifests : RunCreate(s, m)
         \/ \E k \in Keys : RunDelete(s, k)
         \/ RunCleanup(s)
         \/ Unlink(s)
  PROVE  RInv(s)'
<1>1. /\ cli[s].pc \in {"idle", "unlink"} /\ cli[s].key = Nil /\ cli[s].m = Nil
      /\ UNCHANGED <<registry, frags, rendered>>
  BY DEF RunCreate, RunDelete, RunCleanup, Unlink, At, TInv, Shape, WellFormed,
         CreateSteps, DeleteSteps, EnvoySteps, disk
<1>2. RoutesKept
  <2>1. CASE UNCHANGED <<procs, stopping>>
    BY <2>1, SameRoutes DEF Serving, Gateways
  <2>2. CASE Unlink(s)
    BY <2>1, <2>2, ConnectRoutes DEF Unlink, TInv
  <2>. QED
    BY <2>1, <2>2 DEF RunCreate, RunDelete, RunCleanup
<1>3. \/ cli'[s].pc \in {"idle", "unlink", "release"} /\ cli'[s].m = Nil
      \/ /\ cli'[s].pc \in {"fragment", "start"} /\ cli'[s].m \in Manifests
         /\ cli'[s].pc = "fragment" <=> cli'[s].m.lb
         /\ cli'[s].key = KeyOf(cli'[s].m)
  <2>1. CASE RunCleanup(s)
    BY <1>1, <2>1 DEF RunCleanup, TInv, TypeOK, Commands
  <2>2. CASE Unlink(s)
    BY <1>1, <2>2, UnlinkTyped DEF Keeps, Leaves, Idle
  <2>3. ASSUME NEW m \in Manifests, RunCreate(s, m)
        PROVE  /\ cli'[s].pc \in {"fragment", "start"} /\ cli'[s].m \in Manifests
               /\ cli'[s].pc = "fragment" <=> cli'[s].m.lb
               /\ cli'[s].key = KeyOf(cli'[s].m)
    <3>1. m.type # "other" /\ m.supported /\ m.lb \in BOOLEAN
      BY ManifestAssumption DEF Implemented
    <3>. DEFINE r(a) == [Idle EXCEPT
                           !.pc = IF ~m.supported THEN "register"
                                  ELSE IF m.lb THEN "fragment" ELSE "start",
                           !.m = m, !.key = KeyOf(m), !.ip = a]
    <3>2. \A a : /\ r(a).pc = IF m.lb THEN "fragment" ELSE "start"
                 /\ r(a).m = m /\ r(a).key = KeyOf(m)
      BY <3>1 DEF Idle
    <3>3. \E a : cli' = [cli EXCEPT ![s] = r(a)]
      BY <2>3, <3>1 DEF RunCreate
    <3>. HIDE DEF r
    <3>4. /\ cli'[s].pc = IF m.lb THEN "fragment" ELSE "start"
          /\ cli'[s].m = m /\ cli'[s].key = KeyOf(m)
      BY <3>2, <3>3 DEF TInv, TypeOK
    <3>. QED
      BY <3>1, <3>4
  <2>4. ASSUME NEW k \in Keys, RunDelete(s, k)
        PROVE  cli'[s].pc = "release" /\ cli'[s].m = Nil
    <3>. DEFINE r == [Idle EXCEPT !.pc = "release", !.key = k, !.entry = registry[k]]
    <3>1. r.pc = "release" /\ r.m = Nil
      BY DEF Idle
    <3>2. cli' = [cli EXCEPT ![s] = r]
      BY <2>4 DEF RunDelete
    <3>. HIDE DEF r
    <3>. QED
      BY <3>1, <3>2 DEF TInv, TypeOK
  <2>. QED
    BY <2>1, <2>2, <2>3, <2>4
<1>4. Named(s)'
  BY <1>1, <1>3 DEF RInv, Named, Entered
<1>5. OwnRoute(s)' = {}
  BY <1>3 DEF OwnRoute
<1>6. RecordedRoutes(s)' \subseteq RecordedRoutes(s)
  <2>1. \A k \in Balanced(s)' : k \in Balanced(s) /\ registry'[k] = registry[k]
    BY <1>1, KeyAssumption DEF Balanced, Standing, Entered
  <2>. QED
    BY <2>1 DEF RecordedRoutes
<1>. QED
  BY <1>1, <1>2, <1>3, <1>4, <1>5, <1>6, RouteStep
     DEF Reading, Configured, Running, Restarting

LEMMA ExecRoutes ==
  ASSUME TInv, NEW s \in Cmds, RInv(s), ExecPythonService(s) \/ ExecPostgreSQL(s)
  PROVE  RInv(s)'
<1>1. PICK p \in FreePids, next \in {"link", "register"} : StartWorkload(s, p, next)
  BY DEF ExecPythonService, ExecPostgreSQL
<1>2. /\ cli[s].pc = "start" /\ cli[s].m.type \in {"service", "db"} /\ cli[s] \in Commands
      /\ p \in Pids /\ procs[p].kind = "none"
      /\ UNCHANGED <<registry, stopping, frags, rendered>>
  BY <1>1 DEF ExecPythonService, ExecPostgreSQL, At, StartWorkload, disk, FreePids, Live,
              TInv, TypeOK
<1>3. /\ \A d \in Cmds \ {s} : cli'[d] = cli[d]
      /\ cli'[s].m = cli[s].m /\ cli'[s].key = cli[s].key /\ cli'[s].pc = next
      /\ \A q \in Pids \ {p} : procs'[q] = procs[q]
  BY <1>1, <1>2, StartTyped DEF At
<1>4. cli'[s].ip = cli[s].ip
  <2>. DEFINE r == [cli[s] EXCEPT !.pid = p, !.pc = next]
  <2>1. r.ip = cli[s].ip
    BY <1>2 DEF Commands
  <2>2. cli' = [cli EXCEPT ![s] = r]
    BY <1>1 DEF StartWorkload, TInv, TypeOK
  <2>. HIDE DEF r
  <2>. QED
    BY <2>1, <2>2 DEF TInv, TypeOK
<1>5. RoutesKept
  BY <1>2, <1>3, SameRoutes DEF Serving, Gateways
<1>6. Named(s)'
  BY <1>2, <1>3 DEF RInv, Named, Entered
<1>7. OwnRoute(s)' \subseteq OwnRoute(s)
  BY <1>2, <1>3, <1>4 DEF OwnRoute
<1>8. RecordedRoutes(s)' \subseteq RecordedRoutes(s)
  <2>1. \A k \in Balanced(s)' : k \in Balanced(s) /\ registry'[k] = registry[k]
    BY <1>2, <1>3 DEF Balanced, Standing, Entered
  <2>. QED
    BY <2>1 DEF RecordedRoutes
<1>. QED
  BY <1>2, <1>3, <1>5, <1>6, <1>7, <1>8, RouteStep
     DEF Reading, Configured, Running, Restarting

\* Whoever is killed, a new gateway is started by the same delete.
LEMMA KillRoutes ==
  ASSUME TInv, DInv, HasPids, NEW s \in Cmds, RInv(s), KillWorkload(s)
  PROVE  RInv(s)'
<1>1. /\ cli[s].pc = "kill" /\ cli[s].key \in Keys /\ cli[s].entry \in Entries
      /\ UNCHANGED <<registry, frags, rendered>>
  BY DEF KillWorkload, At, TInv, Shape, WellFormed, CreateSteps, DeleteSteps, EnvoySteps,
         disk
<1>2. cli[s].entry.pid # Nil
  BY <1>1, EntryAssumption DEF DInv, EntryHeld, HasPids
<1>3. Keeps(s) /\ cli'[s].ip = cli[s].ip /\ cli'[s].pc = "stop"
  BY <1>2, GotoEffect, GotoDetails DEF KillWorkload, TInv, Steps
<1>4. /\ Named(s)' /\ RecordedRoutes(s)' \subseteq RecordedRoutes(s)
      /\ OwnRoute(s)' \subseteq OwnRoute(s)
  BY <1>1, <1>3, KeptRoutes, KeptOwn
<1>. QED
  BY <1>1, <1>3, <1>4, RouteStep DEF Reading, Configured, Running, Restarting

\* The route of create becomes one of a recorded workload; delete's is none any more.
LEMMA RecordRoutes ==
  ASSUME TInv, redisUp, NEW s \in Cmds, RInv(s), Register(s) \/ Unregister(s)
  PROVE  RInv(s)'
<1>. DEFINE k == cli[s].key
<1>1. /\ cli[s].pc \in {"register", "unregister"} /\ k \in Keys /\ Leaves(s)
      /\ UNCHANGED <<procs, stopping, frags, rendered>>
      /\ \A j \in Keys \ {k} : registry'[j] = registry[j]
  BY RegisterTyped, UnregisterTyped DEF Register, Unregister, disk
<1>2. \/ registry'[k] = Nil
      \/ /\ cli[s].pc = "register" /\ cli[s].m \in Manifests /\ cli[s].m # Nil
         /\ registry'[k].ip = cli[s].ip
         /\ registry'[k].conf = IF cli[s].m.lb THEN cli[s].m.upstream ELSE Nil
  <2>1. CASE Register(s)
    <3>. DEFINE e == [pid |-> cli[s].pid, ip |-> cli[s].ip,
                      conf |-> IF cli[s].m.lb THEN cli[s].m.upstream ELSE Nil]
    <3>1. registry' = [registry EXCEPT ![k] = e]
      BY <2>1 DEF Register
    <3>2. /\ e.ip = cli[s].ip
          /\ e.conf = IF cli[s].m.lb THEN cli[s].m.upstream ELSE Nil
      OBVIOUS
    <3>. HIDE DEF e
    <3>3. registry'[k] = e
      BY <1>1, <3>1 DEF TInv, TypeOK
    <3>4. cli[s].pc = "register" /\ cli[s].m \in Manifests /\ cli[s].m # Nil
      BY <2>1, NilAssumption DEF Register, At, TInv, Shape, WellFormed, CreateSteps,
                                 DeleteSteps, EnvoySteps
    <3>. QED
      BY <3>2, <3>3, <3>4
  <2>2. CASE Unregister(s)
    BY <1>1, <2>2 DEF Unregister, TInv, TypeOK
  <2>. QED
    BY <2>1, <2>2
<1>3. cli'[s].pc = "idle" /\ cli'[s].m = Nil /\ cli'[s].key = Nil
  BY <1>1 DEF Leaves, Idle
<1>4. OwnRoute(s)' = {}
  BY <1>3 DEF OwnRoute
<1>5. RecordedRoutes(s)' \subseteq RecordedRoutes(s) \cup OwnRoute(s)
  <2>. SUFFICES ASSUME NEW j \in Balanced(s)'
                PROVE  <<registry'[j].conf, registry'[j].ip>>
                          \in RecordedRoutes(s) \cup OwnRoute(s)
    BY DEF RecordedRoutes
  <2>1. j \in Keys /\ registry'[j] # Nil /\ registry'[j].conf # Nil
    BY DEF Balanced, Entered
  <2>2. CASE j = k
    BY <1>2, <2>1, <2>2 DEF OwnRoute
  <2>3. CASE j # k
    <3>1. j \in Balanced(s) /\ registry'[j] = registry[j]
      BY <1>1, <2>1, <2>3 DEF Balanced, Entered, Standing
    <3>. QED
      BY <3>1 DEF RecordedRoutes
  <2>. QED
    BY <2>2, <2>3
<1>6. cli[s].pc = "unregister" => OwnRoute(s) = {}
  BY DEF OwnRoute, TInv, Shape, WellFormed, CreateSteps, DeleteSteps, EnvoySteps
<1>7. Named(s)'
  <2>1. ASSUME NEW j \in Keys, registry'[j] # Nil, registry'[j].conf # Nil
        PROVE  \E m \in Manifests : m.lb /\ KeyOf(m) = j /\ registry'[j].conf = m.upstream
    <3>1. CASE j = k
      BY <1>2, <2>1, <3>1 DEF RInv, Named
    <3>2. CASE j # k
      BY <1>1, <2>1, <3>2 DEF RInv, Named, Entered
    <3>. QED
      BY <3>1, <3>2
  <2>. QED
    BY <1>3, <2>1 DEF Named, Entered
<1>8. Written(s)' /\ Read(s)'
  BY <1>1, <1>3, <1>4, <1>5 DEF RInv, Written, Read, Reading
<1>9. Rendered(s)'
  BY <1>1, <1>3, <1>4, <1>5, <1>6 DEF RInv, Rendered, Configured
<1>10. Served(s)'
  <2>1. RoutesKept
    BY <1>1, SameRoutes DEF Serving, Gateways
  <2>2. Valid(rendered) => \A r \in RecordedRoutes(s) \cup OwnRoute(s) : HasRoute(r)
    BY <1>1, <1>6 DEF RInv, Served, Running, Restarting
  <2>. QED
    BY <1>1, <1>3, <1>4, <1>5, <2>1, <2>2 DEF Served, RoutesKept
<1>. QED
  BY <1>7, <1>8, <1>9, <1>10 DEF RInv

LEMMA NextRoutes ==
  ASSUME NEW s, Cmds = {s}, Routable, MaxFaults = 0, Implemented,
         TInv, DInv, AInv, HInv, RInv(s), [Next]_vars
  PROVE  RInv(s)'
<1>1. s \in Cmds /\ (\A c \in Cmds : c = s) /\ redisUp /\ HasPids
  BY DEF AInv, HInv
<1>2. CASE Outside \/ UNCHANGED vars
  <2>1. UNCHANGED <<registry, frags, rendered, cli>> /\ RoutesKept
    BY <1>2, OutsideServes, SameRoutes DEF disk
  <2>2. Named(s)' /\ RecordedRoutes(s)' = RecordedRoutes(s) /\ OwnRoute(s)' = OwnRoute(s)
    BY <2>1 DEF RInv, Named, RecordedRoutes, OwnRoute, Balanced, Standing, Entered
  <2>. QED
    BY <2>1, <2>2 DEF RInv, Written, Read, Rendered, Served, RoutesKept
<1>3. ASSUME NEW c \in Cmds, Crash(c) PROVE FALSE
  BY <1>3, CrashTyped
<1>. QED
  BY <1>1, <1>2, <1>3, NextCases, QuietRoutes, BeginRoutes, ExecRoutes, KillRoutes,
     RecordRoutes

\* When commands are run one at a time, between commands the gateway has a route to
\* the recorded address of every load-balanced workload, unless Envoy refuses the
\* configuration for the empty address of a workload that the pool had none left for.
THEOREM RoutesReach ==
  ASSUME NEW CONSTANT s, Cmds = {s}, OnePerName, MaxFaults = 0, Implemented, Routable
  PROVE  Spec => []WorkloadsRouted
<1>1. Init => RInv(s)
  BY InitRoutes
<1>2. TInv /\ DInv /\ AInv /\ HInv /\ RInv(s) /\ [Next]_vars => RInv(s)'
  BY NextRoutes
<1>3. TInv /\ RInv(s) => WorkloadsRouted
  <2>. SUFFICES ASSUME TInv, RInv(s), Quiet, Valid(rendered),
                       NEW k \in Entered, registry[k].conf # Nil
                PROVE  \E p \in Serving :
                          <<registry[k].conf, registry[k].ip>> \in procs[p].routes
    BY DEF WorkloadsRouted
  <2>1. cli[s].pc = "idle" /\ cli[s].key = Nil
    BY DEF Quiet, At, TInv, Shape, WellFormed, CreateSteps, DeleteSteps, EnvoySteps
  <2>2. k \in Balanced(s)
    BY <2>1, KeyAssumption DEF Balanced, Standing, Entered
  <2>. QED
    BY <2>1, <2>2 DEF RInv, Served, Restarting, RecordedRoutes, HasRoute
<1>. QED
  BY <1>1, <1>2, <1>3, SequentialInvariant, PTL DEF Spec
===============================================================================
