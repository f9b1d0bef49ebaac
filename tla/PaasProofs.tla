----------------------------- MODULE PaasProofs -----------------------------
(***************************************************************************)
(* Proofs about Paas for any number of commands, manifests, process ids,   *)
(* addresses and faults.                                                   *)
(*                                                                         *)
(* The argument has three layers.  Shape says what a command in progress   *)
(* carries at each of its steps; it makes the types inductive.  Deletion   *)
(* says that a delete past the kill has ended the process it will forget,  *)
(* which needs that nobody else is at work on the same name.  Accounting   *)
(* says where every running workload is recorded, which needs that nothing *)
(* fails.                                                                  *)
(***************************************************************************)
EXTENDS Paas, TLAPS

EnvoySteps  == {"find", "spawn", "writepid", "join"}
CreateSteps == {"fragment", "read", "truncate", "render", "start", "link",
                "register"} \cup EnvoySteps
DeleteSteps == {"release", "kill", "stop", "rmpid", "rmfrag", "unregister"}
               \cup EnvoySteps

\* create has a manifest, delete has an entry, cleanup has neither, and create
\* has started its workload when it connects it.
WellFormed(r) ==
    \/ /\ r.pc \in {"idle", "unlink"}
       /\ r.m = Nil /\ r.entry = Nil /\ r.key = Nil
    \/ /\ r.pc \in CreateSteps
       /\ r.m \in Manifests /\ r.m.type # "other" /\ r.key \in Keys
       /\ r.entry = Nil
       /\ r.pc = "link" => r.pid # Nil
    \/ /\ r.pc \in DeleteSteps
       /\ r.m = Nil /\ r.key \in Keys /\ r.entry \in Entries

Shape == \A c \in Cmds : WellFormed(cli[c])

\* The inductive invariant behind the types.
TInv == TypeOK /\ Shape

\* No two commands are about the same name.
OneCommand ==
    \A c, d \in Cmds : c # d /\ cli[c].key # Nil => cli[c].key # cli[d].key

\* The entry that a delete has read is still the one in the registry.
EntryHeld ==
    \A c \in Cmds : cli[c].entry # Nil => registry[cli[c].key] = cli[c].entry

\* After the kill, the recorded process is gone and its pid has not come back to
\* the same workload.
Ended ==
    \A c \in Cmds :
        /\ cli[c].entry # Nil /\ cli[c].entry.pid # Nil
        /\ cli[c].pc \notin {"release", "kill"}
        => procs[cli[c].entry.pid].key # cli[c].key

\* The inductive invariant behind deletion.
DInv == OneCommand /\ EntryHeld /\ Ended

\* A running process of a workload is the recorded one, and no delete has got
\* past its kill, or the create that started it has yet to record it.
Recorded(p) ==
    LET k == procs[p].key
    IN  /\ registry[k] # Nil /\ registry[k].pid = p
        /\ \A c \in Cmds : cli[c].key = k => cli[c].pc \in {"release", "kill"}
Started(p) ==
    \E c \in Cmds : /\ cli[c].key = procs[p].key /\ cli[c].pid = p
                    /\ cli[c].m # Nil /\ cli[c].pc \in {"link", "register"}

Accounted == \A p \in Pids : procs[p].key # Nil => Recorded(p) \/ Started(p)

\* Workloads, and nothing else, are known by a key.
Keyed == \A p \in Workloads : procs[p].key # Nil

\* The inductive invariant behind accounting.
AInv == redisUp /\ Accounted /\ Keyed

\* What most steps have in common: one command moves on and keeps what it
\* carries, and processes may end or be Envoy but do not become workloads.
Keeps(c) ==
    /\ \A d \in Cmds \ {c} : cli'[d] = cli[d]
    /\ cli'[c].m = cli[c].m /\ cli'[c].key = cli[c].key
    /\ cli'[c].entry = cli[c].entry /\ cli'[c].pid = cli[c].pid
Leaves(c) ==
    /\ \A d \in Cmds \ {c} : cli'[d] = cli[d]
    /\ cli'[c] = Idle
Fades ==
    \A q \in Pids :
        \/ procs'[q].kind = procs[q].kind /\ procs'[q].key = procs[q].key
        \/ procs'[q].kind \in {"none", "envoy"} /\ procs'[q].key = Nil
\* Only processes that SIGTERM ends are about to exit.
StopsTyped == stopping' \in SUBSET Terminable'
Continues(c) ==
    /\ cli[c].pc \in {"release", "kill"} => cli'[c].pc \in {"release", "kill"}
    /\ cli[c].pc \in {"link", "register"} => cli'[c].pc \in {"link", "register"}

\* Such a step, with the registry left alone.
QuietMove(c) == Keeps(c) /\ Fades /\ Continues(c) /\ UNCHANGED <<registry, redisUp>>

\* The actions that are steps of this kind.
QuietStep(c) ==
    \/ WriteFragment(c) \/ ReadFragments(c) \/ CreateConfig(c) \/ RenderConfig(c)
    \/ StopExisting(c) \/ SpawnEnvoy(c) \/ WritePidFile(c) \/ ConnectEnvoy(c)
    \/ ConnectWorkload(c) \/ ReleaseIp(c) \/ StopEnvoy(c) \/ RemovePidFile(c)
    \/ RemoveFragment(c)

-----------------------------------------------------------------------------
(* What the helpers do *)

LEMMA IdleTyped == Idle \in Commands /\ WellFormed(Idle)
  BY DEF Idle, Commands, WellFormed, Steps, Addrs, Routes

LEMMA NoProcTyped == NoProc \in Procs
  BY DEF NoProc, Procs, Addrs, Routes

LEMMA GotoEffect ==
  ASSUME TypeOK, NEW c \in Cmds, NEW s \in Steps, Goto(c, s)
  PROVE  cli' \in [Cmds -> Commands] /\ Keeps(c) /\ cli'[c].pc = s
  BY DEF TypeOK, Goto, Commands, Keeps

LEMMA ExitEffect ==
  ASSUME TypeOK, NEW c \in Cmds, Exit(c)
  PROVE  cli' \in [Cmds -> Commands] /\ Leaves(c)
  BY IdleTyped DEF TypeOK, Exit, Leaves

LEMMA KillEffect ==
  ASSUME TypeOK, NEW p \in Pids, Kill(p)
  PROVE  procs' \in [Pids -> Procs] /\ Fades /\ procs'[p].key = Nil /\ StopsTyped
  BY NoProcTyped DEF TypeOK, Kill, Fades, NoProc, StopsTyped, Terminable

LEMMA TerminateEffect ==
  ASSUME TypeOK, NEW p \in Pids, Terminate(p)
  PROVE  procs' \in [Pids -> Procs] /\ Fades /\ StopsTyped
  BY DEF TypeOK, Terminate, Fades, StopsTyped, Terminable

\* Connecting a process changes its address only (and nothing, if p is no process).
LEMMA ConnectEffect ==
  ASSUME TypeOK, NEW p, NEW a \in Addrs, procs' = [procs EXCEPT ![p].addr = a],
         UNCHANGED stopping
  PROVE  procs' \in [Pids -> Procs] /\ Fades /\ StopsTyped
  BY DEF TypeOK, Procs, Fades, StopsTyped, Terminable

LEMMA SameStops ==
  ASSUME TypeOK, UNCHANGED <<procs, stopping>>
  PROVE  StopsTyped
  BY DEF TypeOK, StopsTyped, Terminable

LEMMA FindPidTyped ==
  ASSUME TypeOK
  PROVE  FindPidForEnvoy \in Pids \cup {Nil}
  BY DEF TypeOK, FindPidForEnvoy

LEMMA AfterEnvoyTyped ==
  ASSUME NEW c \in Cmds
  PROVE  AfterEnvoy(c) \in Steps
  BY DEF AfterEnvoy, Steps

LEMMA HostFacts ==
  /\ Hosts \subseteq Addrs /\ NoIp \in Addrs
  /\ EnvoyIp \in Hosts /\ BridgeIp \in Hosts
  BY BroadcastAssumption DEF Hosts, Addrs, EnvoyIp, BridgeIp

-----------------------------------------------------------------------------
(* Types: every step preserves TInv *)

LEMMA InitTyped == Init => TInv
<1>1. Init => TypeOK
  BY IdleTyped, NoProcTyped, HostFacts, MaxFaultsAssumption
     DEF Init, TypeOK, Routes, Hosts, Terminable
<1>2. Init => Shape
  BY IdleTyped DEF Init, Shape
<1>. QED
  BY <1>1, <1>2 DEF TInv

\* One command moves, the others stay where they are.
LEMMA ShapeStep ==
  ASSUME Shape, NEW c \in Cmds, WellFormed(cli'[c]),
         \A d \in Cmds \ {c} : cli'[d] = cli[d]
  PROVE  Shape'
  BY DEF Shape

\* A step that only moves on.
LEMMA MoveTyped ==
  ASSUME TInv, NEW c \in Cmds, NEW s \in Steps, Goto(c, s),
         \/ /\ cli[c].pc \in CreateSteps \ DeleteSteps
            /\ s \in CreateSteps
            /\ s = "link" => cli[c].pid # Nil
         \/ /\ cli[c].pc \in DeleteSteps \ CreateSteps
            /\ s \in DeleteSteps
         \/ /\ cli[c].pc \in EnvoySteps
            /\ s \in EnvoySteps \cup {AfterEnvoy(c)}
  PROVE  cli' \in [Cmds -> Commands] /\ Shape'
<1>1. TypeOK /\ Shape /\ WellFormed(cli[c])
  BY DEF TInv, Shape
<1>2. WellFormed(cli'[c])
  BY <1>1, GotoEffect, EntryAssumption
     DEF Keeps, WellFormed, CreateSteps, DeleteSteps, EnvoySteps, AfterEnvoy
<1>. QED
  BY <1>1, <1>2, GotoEffect, ShapeStep DEF Keeps

\* A step that ends the command.
LEMMA LeaveTyped ==
  ASSUME TInv, NEW c \in Cmds, Exit(c)
  PROVE  cli' \in [Cmds -> Commands] /\ Shape'
  BY ExitEffect, IdleTyped, ShapeStep DEF TInv, Leaves

LEMMA RunCreateTyped ==
  ASSUME TInv, NEW c \in Cmds, NEW m \in Manifests, RunCreate(c, m)
  PROVE  TInv'
<1>1. PICK a \in Subnet \cup {NoIp} :
         /\ GetIp(c, a)
         /\ IF m.type = "other"
            THEN UNCHANGED cli
            ELSE cli' = [cli EXCEPT ![c] = [Idle EXCEPT
                           !.pc = IF ~m.supported THEN "register"
                                  ELSE IF m.lb THEN "fragment" ELSE "start",
                           !.m = m, !.key = KeyOf(m), !.ip = a]]
  BY DEF RunCreate
<1>2. a \in Addrs /\ ips' \in SUBSET Hosts /\ faults' \in 0 .. MaxFaults
  <2>1. ips \in SUBSET Hosts /\ faults \in 0 .. MaxFaults /\ LowestFree \subseteq Hosts
    BY DEF LowestFree, TInv, TypeOK
  <2>. HIDE DEF LowestFree
  <2>. QED
    BY <1>1, <2>1, HostFacts, MaxFaultsAssumption DEF GetIp, Fault
<1>0. StopsTyped
  BY SameStops DEF RunCreate, TInv
<1>3. CASE m.type = "other"
  BY <1>0, <1>1, <1>2, <1>3 DEF RunCreate, TInv, TypeOK, Shape, disk, StopsTyped
<1>4. CASE m.type # "other"
  <2>1. KeyOf(m) \in Keys
    BY <1>4 DEF Keys
  <2>2. DEFINE r == [Idle EXCEPT !.pc = IF ~m.supported THEN "register"
                                  ELSE IF m.lb THEN "fragment" ELSE "start",
                           !.m = m, !.key = KeyOf(m), !.ip = a]
  <2>3. /\ r \in Commands /\ r.m = m /\ r.key = KeyOf(m) /\ r.entry = Nil
        /\ r.pc \in {"register", "fragment", "start"}
    BY <1>2, <2>1, IdleTyped DEF Commands, Idle, Steps
  <2>4. WellFormed(r)
    BY <1>4, <2>1, <2>3 DEF WellFormed, CreateSteps
  <2>5. cli' = [cli EXCEPT ![c] = r]
    BY <1>1, <1>4
  <2>. HIDE DEF r
  <2>6. cli' \in [Cmds -> Commands] /\ Shape'
    BY <2>3, <2>4, <2>5, ShapeStep DEF TInv, TypeOK
  <2>. QED
    BY <1>0, <1>2, <2>6 DEF RunCreate, TInv, TypeOK, disk, StopsTyped
<1>. QED
  BY <1>3, <1>4

LEMMA RunDeleteTyped ==
  ASSUME TInv, NEW c \in Cmds, NEW k \in Keys, RunDelete(c, k)
  PROVE  TInv'
<1>. DEFINE r == [Idle EXCEPT !.pc = "release", !.key = k, !.entry = registry[k]]
<1>1. registry[k] \in Entries
  BY DEF RunDelete, TInv, TypeOK
<1>2. /\ r \in Commands /\ r.m = Nil /\ r.key = k /\ r.entry = registry[k]
      /\ r.pc = "release"
  BY <1>1, IdleTyped DEF Commands, Idle, Steps
<1>3. WellFormed(r)
  BY <1>1, <1>2 DEF WellFormed, DeleteSteps
<1>4. cli' = [cli EXCEPT ![c] = r]
  BY DEF RunDelete
<1>. HIDE DEF r
<1>5. cli' \in [Cmds -> Commands] /\ Shape'
  BY <1>2, <1>3, <1>4, ShapeStep DEF TInv, TypeOK
<1>6. StopsTyped
  BY SameStops DEF RunDelete, TInv
<1>. QED
  BY <1>5, <1>6 DEF RunDelete, TInv, TypeOK, disk, StopsTyped

LEMMA RunCleanupTyped ==
  ASSUME TInv, NEW c \in Cmds, RunCleanup(c)
  PROVE  TInv'
<1>. DEFINE links == {<<p, procs[p].key>> : p \in {q \in Pids : procs[q].addr # NoIp}}
<1>1. links \in SUBSET (Pids \X (Keys \cup {Nil}))
  BY DEF TInv, TypeOK, Procs
<1>2. cli' = [cli EXCEPT ![c].pc = "unlink", ![c].links = links]
  BY DEF RunCleanup
<1>. HIDE DEF links
<1>. DEFINE r == [cli[c] EXCEPT !.pc = "unlink", !.links = links]
<1>a. cli[c] \in Commands
  BY DEF TInv, TypeOK
<1>b. /\ r \in Commands /\ r.pc = "unlink" /\ r.m = cli[c].m
      /\ r.key = cli[c].key /\ r.entry = cli[c].entry
  BY <1>1, <1>a DEF Commands, Steps
<1>c. cli' = [cli EXCEPT ![c] = r]
  BY <1>2 DEF TInv, TypeOK
<1>. HIDE DEF r
<1>3. /\ cli' \in [Cmds -> Commands]
      /\ \A d \in Cmds \ {c} : cli'[d] = cli[d]
      /\ cli'[c].pc = "unlink" /\ cli'[c].m = cli[c].m
      /\ cli'[c].key = cli[c].key /\ cli'[c].entry = cli[c].entry
  BY <1>b, <1>c DEF TInv, TypeOK
<1>4. WellFormed(cli'[c])
  BY <1>3 DEF RunCleanup, At, TInv, Shape, WellFormed, CreateSteps, DeleteSteps, EnvoySteps
<1>5. StopsTyped
  BY SameStops DEF RunCleanup, TInv
<1>. QED
  BY <1>3, <1>4, <1>5, ShapeStep DEF RunCleanup, TInv, TypeOK, disk, StopsTyped

\* The command started a process and goes on.
LEMMA StartTyped ==
  ASSUME TInv, NEW c \in Cmds, At(c, "start"), cli[c].m.type \in {"service", "db"},
         NEW p \in FreePids, NEW next \in {"link", "register"},
         StartWorkload(c, p, next)
  PROVE  /\ TInv'
         /\ \A d \in Cmds \ {c} : cli'[d] = cli[d]
         /\ cli'[c].m = cli[c].m /\ cli'[c].key = cli[c].key
         /\ cli'[c].entry = cli[c].entry /\ cli'[c].pid = p /\ cli'[c].pc = next
         /\ procs'[p].key = cli[c].key /\ procs'[p].kind = cli[c].m.type
         /\ \A q \in Pids \ {p} : procs'[q] = procs[q]
<1>. DEFINE r == [cli[c] EXCEPT !.pid = p, !.pc = next]
            proc == [NoProc EXCEPT !.kind = cli[c].m.type, !.key = cli[c].key]
<1>1. /\ cli[c] \in Commands /\ p \in Pids /\ p # Nil
      /\ cli[c].key \in Keys /\ cli[c].m \in Manifests /\ cli[c].entry = Nil
      /\ cli[c].m.type # "other"
  BY NilAssumption
     DEF TInv, TypeOK, FreePids, At, Shape, WellFormed, CreateSteps, DeleteSteps, EnvoySteps
<1>2. /\ r \in Commands /\ r.pid = p /\ r.pc = next /\ r.m = cli[c].m
      /\ r.key = cli[c].key /\ r.entry = cli[c].entry
  BY <1>1 DEF Commands, Steps
<1>3. /\ proc \in Procs /\ proc.key = cli[c].key /\ proc.kind = cli[c].m.type
  BY <1>1, NoProcTyped DEF NoProc, Procs
<1>4. WellFormed(r)
  BY <1>1, <1>2 DEF WellFormed, CreateSteps
<1>5. cli' = [cli EXCEPT ![c] = r] /\ procs' = [procs EXCEPT ![p] = proc]
  BY DEF StartWorkload, TInv, TypeOK
<1>. HIDE DEF r, proc
<1>6. cli' \in [Cmds -> Commands] /\ procs' \in [Pids -> Procs]
      /\ \A d \in Cmds \ {c} : cli'[d] = cli[d]
  BY <1>1, <1>2, <1>3, <1>5 DEF TInv, TypeOK
<1>7. Shape'
  BY <1>2, <1>4, <1>5, <1>6, ShapeStep DEF TInv, TypeOK
<1>s. StopsTyped
  <2>1. p \notin stopping /\ stopping' = stopping /\ \A q \in Pids \ {p} : procs'[q] = procs[q]
    BY <1>5 DEF StartWorkload, TInv, TypeOK, Terminable, FreePids, Live
  <2>. QED
    BY <2>1 DEF TInv, TypeOK, StopsTyped, Terminable
<1>8. TypeOK'
  BY <1>6, <1>s DEF StartWorkload, TInv, TypeOK, disk, StopsTyped
<1>. QED
  BY <1>1, <1>2, <1>3, <1>5, <1>6, <1>7, <1>8 DEF TInv, TypeOK

LEMMA SpawnTyped ==
  ASSUME TInv, NEW c \in Cmds, SpawnEnvoy(c)
  PROVE  TInv' /\ Keeps(c) /\ Fades /\ cli'[c].pc \in {"writepid", AfterEnvoy(c)}
<1>1. /\ cli[c] \in Commands /\ cli[c].pc = "spawn"
  BY DEF SpawnEnvoy, At, TInv, TypeOK
<1>2. ASSUME NEW p \in FreePids,
             procs' = [procs EXCEPT ![p] =
                         [NoProc EXCEPT !.kind = "envoy",
                                        !.routes = IF Valid(rendered) THEN rendered ELSE {}]],
             stopping' = IF Valid(rendered) THEN stopping ELSE stopping \cup {p},
             cli' = [cli EXCEPT ![c].envoy = p, ![c].pc = "writepid"],
             UNCHANGED faults
      PROVE  TInv' /\ Keeps(c) /\ Fades /\ cli'[c].pc = "writepid"
  <2>. DEFINE r == [cli[c] EXCEPT !.envoy = p, !.pc = "writepid"]
              proc == [NoProc EXCEPT !.kind = "envoy",
                                     !.routes = IF Valid(rendered) THEN rendered ELSE {}]
  <2>1. p \in Pids
    BY DEF FreePids
  <2>2. /\ r \in Commands /\ r.pid = cli[c].pid /\ r.pc = "writepid" /\ r.m = cli[c].m
        /\ r.key = cli[c].key /\ r.entry = cli[c].entry
    BY <1>1, <2>1 DEF Commands, Steps
  <2>3. /\ proc \in Procs /\ proc.key = Nil /\ proc.kind = "envoy"
    BY NoProcTyped DEF NoProc, Procs, TInv, TypeOK, Routes
  <2>4. WellFormed(r)
    BY <1>1, <2>2
       DEF TInv, Shape, WellFormed, CreateSteps, DeleteSteps, EnvoySteps
  <2>5. cli' = [cli EXCEPT ![c] = r] /\ procs' = [procs EXCEPT ![p] = proc]
    BY <1>2 DEF TInv, TypeOK
  <2>. HIDE DEF r, proc
  <2>6. cli' \in [Cmds -> Commands] /\ procs' \in [Pids -> Procs]
        /\ \A d \in Cmds \ {c} : cli'[d] = cli[d]
    BY <2>1, <2>2, <2>3, <2>5 DEF TInv, TypeOK
  <2>7. Shape'
    BY <2>2, <2>4, <2>5, <2>6, ShapeStep DEF TInv, TypeOK
  <2>s. StopsTyped
    <3>1. /\ stopping \subseteq Terminable /\ stopping' \subseteq stopping \cup {p}
          /\ procs'[p] = proc /\ \A q \in Pids \ {p} : procs'[q] = procs[q]
      BY <1>2, <2>1, <2>5 DEF TInv, TypeOK
    <3>. QED
      BY <2>1, <2>3, <3>1 DEF StopsTyped, Terminable
  <2>8. TypeOK'
    BY <1>2, <2>6, <2>s DEF SpawnEnvoy, TInv, TypeOK, disk, StopsTyped
  <2>. QED
    BY <2>1, <2>2, <2>3, <2>5, <2>6, <2>7, <2>8 DEF TInv, TypeOK, Keeps, Fades
<1>3. ASSUME Fault, Goto(c, AfterEnvoy(c)), UNCHANGED <<procs, stopping>>
      PROVE  TInv' /\ Keeps(c) /\ Fades /\ cli'[c].pc = AfterEnvoy(c)
  <2>1. cli' \in [Cmds -> Commands] /\ Shape'
    BY <1>1, <1>3, AfterEnvoyTyped, MoveTyped DEF EnvoySteps
  <2>2. faults' \in 0 .. MaxFaults
    BY <1>3, MaxFaultsAssumption DEF Fault, TInv, TypeOK
  <2>. QED
    BY <1>3, <2>1, <2>2, AfterEnvoyTyped, GotoEffect, SameStops
       DEF SpawnEnvoy, TInv, TypeOK, disk, Fades, StopsTyped
<1>. QED
  BY <1>2, <1>3 DEF SpawnEnvoy

\* The effect of a step that leaves the processes alone or only ends some, and
\* moves on.
LEMMA PlainTyped ==
  ASSUME TInv, NEW c \in Cmds, NEW s \in Steps, Goto(c, s),
         \/ /\ cli[c].pc \in CreateSteps \ DeleteSteps
            /\ s \in CreateSteps
            /\ s = "link" => cli[c].pid # Nil
         \/ /\ cli[c].pc \in DeleteSteps \ CreateSteps
            /\ s \in DeleteSteps
         \/ /\ cli[c].pc \in EnvoySteps
            /\ s \in EnvoySteps \cup {AfterEnvoy(c)},
         cli[c].pc = "release" => s = "kill",
         cli[c].pc = "link" => s = "register",
         cli[c].pc \notin {"kill", "register"},
         procs' \in [Pids -> Procs], Fades, StopsTyped,
         ips' \in SUBSET Hosts, frags' \in Routes, rendered' \in Routes,
         pidfile' \in Pids \cup {Nil}, faults' \in 0 .. MaxFaults,
         UNCHANGED <<registry, redisUp>>
  PROVE  TInv' /\ QuietMove(c)
<1>1. cli' \in [Cmds -> Commands] /\ Shape'
  BY MoveTyped
<1>2. Keeps(c) /\ cli'[c].pc = s
  BY GotoEffect DEF TInv
<1>. QED
  BY <1>1, <1>2 DEF TInv, TypeOK, QuietMove, Continues, StopsTyped

LEMMA SameFades ==
  ASSUME TInv, UNCHANGED procs
  PROVE  /\ procs' \in [Pids -> Procs] /\ Fades
         /\ UNCHANGED stopping => StopsTyped
  BY SameStops DEF TInv, TypeOK, Fades

LEMMA QuietTyped ==
  ASSUME TInv, NEW c \in Cmds, QuietStep(c)
  PROVE  TInv' /\ QuietMove(c)
<1>0. /\ TypeOK /\ cli[c] \in Commands /\ WellFormed(cli[c])
  BY DEF TInv, TypeOK, Shape
<1>. USE DEF At, CreateSteps, DeleteSteps, EnvoySteps, Steps
<1>1. ASSUME WriteFragment(c) PROVE TInv' /\ QuietMove(c)
  <2>1. cli[c].m \in Manifests /\ cli[c].ip \in Addrs
    BY <1>0, <1>1 DEF WriteFragment, WellFormed, Commands
  <2>2. cli[c].m.upstream \in Upstreams /\ cli[c].m.server \in Hosts \cup {Nil}
    BY <2>1, ManifestAssumption DEF Upstreams
  <2>3. frags' \in Routes
    <3>. DEFINE server == IF cli[c].m.server = Nil THEN cli[c].ip ELSE cli[c].m.server
    <3>1. server \in Addrs
      BY <2>1, <2>2, HostFacts
    <3>2. frags' = {f \in frags : f[1] # cli[c].m.upstream}
                   \cup {<<cli[c].m.upstream, server>>}
      BY <1>1 DEF WriteFragment
    <3>. QED
      BY <1>0, <2>2, <3>1, <3>2 DEF TypeOK, Routes
  <2>4. Goto(c, "read") /\ cli[c].pc = "fragment"
    BY <1>1 DEF WriteFragment
  <2>5. UNCHANGED <<registry, ips, redisUp, procs, stopping, rendered, pidfile, faults>>
    BY <1>1 DEF WriteFragment
  <2>. QED
    BY <1>0, <2>3, <2>4, <2>5, SameFades, PlainTyped DEF TypeOK
<1>2. ASSUME ReadFragments(c) PROVE TInv' /\ QuietMove(c)
  <2>. DEFINE r == [cli[c] EXCEPT !.pc = "truncate", !.seen = frags]
  <2>1. cli[c].pc = "read"
    BY <1>2 DEF ReadFragments
  <2>2. /\ r \in Commands /\ r.pc = "truncate" /\ r.m = cli[c].m /\ r.key = cli[c].key
        /\ r.entry = cli[c].entry /\ r.pid = cli[c].pid
    BY <1>0 DEF Commands, TypeOK
  <2>3. cli' = [cli EXCEPT ![c] = r]
    BY <1>0, <1>2 DEF ReadFragments, TypeOK
  <2>4. WellFormed(r)
    BY <1>0, <2>1, <2>2 DEF WellFormed
  <2>. HIDE DEF r
  <2>5. cli' \in [Cmds -> Commands] /\ Keeps(c) /\ cli'[c] = r
    BY <1>0, <2>2, <2>3 DEF TypeOK, Keeps
  <2>6. Shape'
    BY <2>4, <2>5, ShapeStep DEF TInv, Keeps
  <2>7. UNCHANGED <<registry, ips, redisUp, procs, stopping, disk, faults>>
    BY <1>2 DEF ReadFragments
  <2>. QED
    BY <2>1, <2>2, <2>5, <2>6, <2>7, SameFades
       DEF TInv, TypeOK, QuietMove, Continues, disk, StopsTyped
<1>3. ASSUME CreateConfig(c) PROVE TInv' /\ QuietMove(c)
  <2>1. /\ Goto(c, "render") /\ cli[c].pc = "truncate" /\ rendered' = {}
        /\ UNCHANGED <<registry, ips, redisUp, procs, stopping, frags, pidfile, faults>>
    BY <1>3 DEF CreateConfig
  <2>2. rendered' \in Routes
    BY <2>1 DEF Routes
  <2>. QED
    BY <1>0, <2>1, <2>2, SameFades, PlainTyped DEF TypeOK
<1>4. ASSUME RenderConfig(c) PROVE TInv' /\ QuietMove(c)
  <2>1. /\ Goto(c, "find") /\ cli[c].pc = "render" /\ rendered' = cli[c].seen
        /\ UNCHANGED <<registry, ips, redisUp, procs, stopping, frags, pidfile, faults>>
    BY <1>4 DEF RenderConfig
  <2>2. rendered' \in Routes
    BY <1>0, <2>1 DEF Commands
  <2>. QED
    BY <1>0, <2>1, <2>2, SameFades, PlainTyped DEF TypeOK
<1>5. ASSUME StopExisting(c) PROVE TInv' /\ QuietMove(c)
  <2>1. /\ Goto(c, "spawn") /\ cli[c].pc = "find"
        /\ UNCHANGED <<registry, ips, redisUp, disk, faults>>
    BY <1>5 DEF StopExisting
  <2>2. procs' \in [Pids -> Procs] /\ Fades /\ StopsTyped
    BY <1>0, <1>5, FindPidTyped, TerminateEffect, SameFades, SameStops DEF StopExisting
  <2>. QED
    BY <1>0, <2>1, <2>2, PlainTyped DEF TypeOK, disk
<1>6. ASSUME SpawnEnvoy(c) PROVE TInv' /\ QuietMove(c)
  <2>1. /\ TInv' /\ Keeps(c) /\ Fades /\ cli[c].pc = "spawn"
        /\ UNCHANGED <<registry, redisUp>>
    BY <1>6, SpawnTyped DEF SpawnEnvoy
  <2>. QED
    BY <2>1 DEF QuietMove, Continues
<1>7. ASSUME WritePidFile(c) PROVE TInv' /\ QuietMove(c)
  <2>1. /\ Goto(c, "join") /\ cli[c].pc = "writepid" /\ pidfile' = cli[c].envoy
        /\ UNCHANGED <<registry, ips, redisUp, procs, stopping, frags, rendered, faults>>
    BY <1>7 DEF WritePidFile
  <2>2. pidfile' \in Pids \cup {Nil}
    BY <1>0, <2>1 DEF Commands
  <2>. QED
    BY <1>0, <2>1, <2>2, SameFades, PlainTyped DEF TypeOK
<1>8. ASSUME ConnectEnvoy(c) PROVE TInv' /\ QuietMove(c)
  <2>1. /\ Goto(c, AfterEnvoy(c)) /\ cli[c].pc = "join"
        /\ UNCHANGED <<registry, redisUp, stopping, disk>>
    BY <1>8 DEF ConnectEnvoy
  <2>2. ips' \in SUBSET Hosts /\ faults' \in 0 .. MaxFaults
    BY <1>0, <1>8, HostFacts, MaxFaultsAssumption DEF ConnectEnvoy, TypeOK, Fault
  <2>3. procs' \in [Pids -> Procs] /\ Fades /\ StopsTyped
    <3>1. CASE procs' = [procs EXCEPT ![cli[c].envoy].addr = EnvoyIp]
      BY <1>0, <2>1, <3>1, HostFacts, ConnectEffect
    <3>2. CASE UNCHANGED procs
      BY <2>1, <3>2, SameFades
    <3>. QED
      BY <1>8, <3>1, <3>2 DEF ConnectEnvoy
  <2>. QED
    BY <1>0, <2>1, <2>2, <2>3, AfterEnvoyTyped, PlainTyped DEF TypeOK, disk
<1>9. ASSUME ConnectWorkload(c) PROVE TInv' /\ QuietMove(c)
  <2>1. /\ Goto(c, "register") /\ cli[c].pc = "link"
        /\ UNCHANGED <<registry, ips, redisUp, stopping, disk, faults>>
    BY <1>9 DEF ConnectWorkload
  <2>2. procs' \in [Pids -> Procs] /\ Fades /\ StopsTyped
    <3>1. CASE procs' = [procs EXCEPT ![cli[c].pid].addr = cli[c].ip]
      <4>1. cli[c].ip \in Addrs
        BY <1>0 DEF Commands
      <4>. QED
        BY <1>0, <2>1, <3>1, <4>1, ConnectEffect
    <3>2. CASE UNCHANGED procs
      BY <2>1, <3>2, SameFades
    <3>. QED
      BY <1>9, <3>1, <3>2 DEF ConnectWorkload
  <2>. QED
    BY <1>0, <2>1, <2>2, PlainTyped DEF TypeOK, disk
<1>10. ASSUME ReleaseIp(c) PROVE TInv' /\ QuietMove(c)
  <2>1. /\ Goto(c, "kill") /\ cli[c].pc = "release"
        /\ UNCHANGED <<registry, redisUp, procs, stopping, disk>>
    BY <1>10 DEF ReleaseIp
  <2>2. ips' \in SUBSET Hosts /\ faults' \in 0 .. MaxFaults
    BY <1>0, <1>10, MaxFaultsAssumption DEF ReleaseIp, TypeOK, Fault
  <2>. QED
    BY <1>0, <2>1, <2>2, SameFades, PlainTyped DEF TypeOK, disk
<1>11. ASSUME StopEnvoy(c) PROVE TInv' /\ QuietMove(c)
  <2>1. /\ cli[c].pc = "stop" /\ UNCHANGED <<registry, ips, redisUp, disk, faults>>
        /\ \E s \in {"rmpid", "rmfrag"} : Goto(c, s)
    BY <1>11 DEF StopEnvoy
  <2>2. procs' \in [Pids -> Procs] /\ Fades /\ StopsTyped
    BY <1>0, <1>11, FindPidTyped, TerminateEffect, SameFades, SameStops DEF StopEnvoy
  <2>. QED
    BY <1>0, <2>1, <2>2, PlainTyped DEF TypeOK, disk
<1>12. ASSUME RemovePidFile(c) PROVE TInv' /\ QuietMove(c)
  <2>1. /\ Goto(c, "rmfrag") /\ cli[c].pc = "rmpid" /\ pidfile' = Nil
        /\ UNCHANGED <<registry, ips, redisUp, procs, stopping, frags, rendered, faults>>
    BY <1>12 DEF RemovePidFile
  <2>. QED
    BY <1>0, <2>1, SameFades, PlainTyped DEF TypeOK
<1>13. ASSUME RemoveFragment(c) PROVE TInv' /\ QuietMove(c)
  <2>1. /\ Goto(c, "find") /\ cli[c].pc = "rmfrag"
        /\ frags' = {f \in frags : f[1] # cli[c].entry.conf}
        /\ UNCHANGED <<registry, ips, redisUp, procs, stopping, rendered, pidfile, faults>>
    BY <1>13 DEF RemoveFragment
  <2>2. frags' \in Routes
    BY <1>0, <2>1 DEF TypeOK, Routes
  <2>. QED
    BY <1>0, <2>1, <2>2, SameFades, PlainTyped DEF TypeOK
<1>. QED
  BY <1>1, <1>2, <1>3, <1>4, <1>5, <1>6, <1>7, <1>8, <1>9, <1>10, <1>11, <1>12,
     <1>13 DEF QuietStep

LEMMA KillWorkloadTyped ==
  ASSUME TInv, NEW c \in Cmds, KillWorkload(c)
  PROVE  /\ TInv' /\ Fades /\ UNCHANGED <<registry, redisUp>>
         /\ \/ Leaves(c)
            \/ /\ Keeps(c) /\ cli[c].pc = "kill" /\ cli'[c].pc = "stop"
               /\ cli[c].entry.pid \in Pids
               /\ procs'[cli[c].entry.pid].key = Nil
<1>0. /\ TypeOK /\ cli[c].pc = "kill" /\ cli[c].entry \in Entries
      /\ UNCHANGED <<registry, ips, redisUp, disk, faults>>
  BY DEF KillWorkload, At, TInv, Shape, WellFormed, CreateSteps, DeleteSteps, EnvoySteps
<1>1. CASE cli[c].entry.pid = Nil
  <2>1. Exit(c) /\ UNCHANGED <<procs, stopping>>
    BY <1>1 DEF KillWorkload
  <2>. QED
    BY <1>0, <2>1, ExitEffect, LeaveTyped, SameFades DEF TInv, TypeOK, disk, StopsTyped
<1>2. CASE cli[c].entry.pid # Nil
  <2>1. cli[c].entry.pid \in Pids /\ Kill(cli[c].entry.pid) /\ Goto(c, "stop")
    BY <1>0, <1>2 DEF KillWorkload, Entries
  <2>2. cli' \in [Cmds -> Commands] /\ Shape'
    BY <1>0, <2>1, MoveTyped DEF CreateSteps, DeleteSteps, EnvoySteps, Steps
  <2>3. Keeps(c) /\ cli'[c].pc = "stop"
    BY <1>0, <2>1, GotoEffect DEF Steps
  <2>. QED
    BY <1>0, <2>1, <2>2, <2>3, KillEffect DEF TInv, TypeOK, disk, StopsTyped
<1>. QED
  BY <1>1, <1>2

LEMMA RegisterTyped ==
  ASSUME TInv, NEW c \in Cmds, Register(c)
  PROVE  /\ TInv' /\ Leaves(c) /\ UNCHANGED <<redisUp, procs>>
         /\ cli[c].pc = "register" /\ cli[c].m # Nil /\ cli[c].key \in Keys
         /\ \A k \in Keys \ {cli[c].key} : registry'[k] = registry[k]
         /\ \/ UNCHANGED registry /\ ~redisUp
            \/ /\ registry'[cli[c].key] \in Entries
               /\ registry'[cli[c].key].pid = cli[c].pid
<1>. DEFINE e == [pid |-> cli[c].pid, ip |-> cli[c].ip,
                  conf |-> IF cli[c].m.lb THEN cli[c].m.upstream ELSE Nil]
<1>1. /\ cli[c] \in Commands /\ cli[c].pc = "register"
      /\ cli[c].m \in Manifests /\ cli[c].key \in Keys
  BY DEF Register, At, TInv, TypeOK, Shape, WellFormed, CreateSteps, DeleteSteps, EnvoySteps
<1>2. e \in Entries /\ e.pid = cli[c].pid
  BY <1>1 DEF Commands, Entries, Upstreams
<1>3. /\ Exit(c) /\ UNCHANGED <<ips, redisUp, procs, stopping, disk, faults>>
      /\ registry' = IF redisUp THEN [registry EXCEPT ![cli[c].key] = e] ELSE registry
  BY DEF Register
<1>. HIDE DEF e
<1>4. cli' \in [Cmds -> Commands] /\ Shape' /\ Leaves(c)
  BY <1>3, LeaveTyped, ExitEffect DEF TInv
<1>5. registry' \in [Keys -> Entries \cup {Nil}]
  BY <1>2, <1>3 DEF TInv, TypeOK
<1>. QED
  BY <1>1, <1>2, <1>3, <1>4, <1>5, NilAssumption, SameStops DEF TInv, TypeOK, disk, StopsTyped

LEMMA UnregisterTyped ==
  ASSUME TInv, NEW c \in Cmds, Unregister(c)
  PROVE  /\ TInv' /\ Leaves(c) /\ UNCHANGED <<redisUp, procs>>
         /\ cli[c].pc = "unregister" /\ cli[c].key \in Keys
         /\ cli[c].entry \in Entries
         /\ \A k \in Keys \ {cli[c].key} : registry'[k] = registry[k]
<1>1. /\ cli[c].pc = "unregister" /\ cli[c].key \in Keys /\ cli[c].entry \in Entries
      /\ Exit(c) /\ UNCHANGED <<ips, redisUp, procs, stopping, disk, faults>>
  BY DEF Unregister, At, TInv, Shape, WellFormed, CreateSteps, DeleteSteps, EnvoySteps
<1>2. cli' \in [Cmds -> Commands] /\ Shape' /\ Leaves(c)
  BY <1>1, LeaveTyped, ExitEffect DEF TInv
<1>3. registry' \in [Keys -> Entries \cup {Nil}]
  BY DEF Unregister, TInv, TypeOK
<1>. QED
  BY <1>1, <1>2, <1>3, SameStops DEF Unregister, TInv, TypeOK, disk, StopsTyped

LEMMA UnlinkTyped ==
  ASSUME TInv, NEW c \in Cmds, Unlink(c)
  PROVE  /\ TInv' /\ Fades /\ UNCHANGED <<registry, redisUp>>
         /\ cli[c].pc = "unlink"
         /\ Leaves(c) \/ (Keeps(c) /\ cli'[c].pc = "unlink")
<1>0. /\ TypeOK /\ cli[c] \in Commands /\ cli[c].pc = "unlink"
      /\ UNCHANGED <<registry, ips, redisUp, stopping, disk, faults>>
  BY DEF Unlink, At, TInv, TypeOK
<1>1. PICK l \in cli[c].links :
         /\ procs' = IF procs[l[1]].key = l[2]
                     THEN [procs EXCEPT ![l[1]].addr = NoIp] ELSE procs
         /\ IF cli[c].links = {l}
            THEN Exit(c)
            ELSE cli' = [cli EXCEPT ![c].links = @ \ {l}]
  BY DEF Unlink
<1>2. procs' \in [Pids -> Procs] /\ Fades /\ StopsTyped
  BY <1>0, <1>1, HostFacts, ConnectEffect, SameFades
<1>3. CASE Exit(c)
  BY <1>0, <1>2, <1>3, LeaveTyped, ExitEffect DEF TInv, TypeOK, disk, StopsTyped
<1>4. CASE cli' = [cli EXCEPT ![c].links = @ \ {l}]
  <2>1. /\ cli' \in [Cmds -> Commands] /\ Keeps(c) /\ cli'[c].pc = cli[c].pc
    BY <1>0, <1>4 DEF TypeOK, Commands, Keeps
  <2>2. WellFormed(cli'[c])
    BY <1>0, <2>1
       DEF TInv, Shape, Keeps, WellFormed, CreateSteps, DeleteSteps, EnvoySteps
  <2>3. Shape'
    BY <2>1, <2>2, ShapeStep DEF Keeps, TInv
  <2>. QED
    BY <1>0, <1>2, <2>1, <2>3 DEF TInv, TypeOK, disk, StopsTyped
<1>. QED
  BY <1>1, <1>3, <1>4

LEMMA CrashTyped ==
  ASSUME TInv, NEW c \in Cmds, Crash(c)
  PROVE  /\ TInv' /\ Leaves(c) /\ UNCHANGED <<registry, redisUp, procs>>
         /\ MaxFaults # 0
<1>1. faults' \in 0 .. MaxFaults /\ MaxFaults # 0
  BY MaxFaultsAssumption DEF Crash, Fault, TInv, TypeOK
<1>2. cli' \in [Cmds -> Commands] /\ Shape' /\ Leaves(c)
  BY LeaveTyped, ExitEffect DEF Crash, TInv
<1>. QED
  BY <1>1, <1>2, SameStops DEF Crash, TInv, TypeOK, disk, StopsTyped

\* What happens outside of the program.
Outside == (\E p \in Pids : Stops(p) \/ ProcessExits(p)) \/ RedisDown \/ RedisBack

LEMMA OutsideTyped ==
  ASSUME TInv, Outside
  PROVE  TInv' /\ Fades /\ UNCHANGED <<registry, cli>> /\ (redisUp => redisUp' \/ MaxFaults # 0)
<1>1. ASSUME NEW p \in Pids, ProcessExits(p)
      PROVE  TInv' /\ Fades /\ UNCHANGED <<registry, cli, redisUp>>
  <2>1. faults' \in 0 .. MaxFaults
    BY <1>1, MaxFaultsAssumption DEF ProcessExits, Fault, TInv, TypeOK
  <2>. QED
    BY <1>1, <2>1, KillEffect DEF ProcessExits, TInv, TypeOK, Shape, disk, StopsTyped
<1>s. ASSUME NEW p \in Pids, Stops(p)
      PROVE  TInv' /\ Fades /\ UNCHANGED <<registry, cli, redisUp>>
  BY <1>s, KillEffect DEF Stops, TInv, TypeOK, Shape, disk, StopsTyped
<1>2. ASSUME RedisDown
      PROVE  TInv' /\ Fades /\ UNCHANGED <<registry, cli>> /\ MaxFaults # 0
  <2>1. faults' \in 0 .. MaxFaults /\ MaxFaults # 0
    BY <1>2, MaxFaultsAssumption DEF RedisDown, Fault, TInv, TypeOK
  <2>. QED
    BY <1>2, <2>1, SameFades DEF RedisDown, TInv, TypeOK, Shape, disk, StopsTyped
<1>3. ASSUME RedisBack
      PROVE  TInv' /\ Fades /\ UNCHANGED <<registry, cli>> /\ redisUp'
  BY <1>3, SameFades DEF RedisBack, TInv, TypeOK, Shape, disk, StopsTyped
<1>. QED
  BY <1>1, <1>s, <1>2, <1>3 DEF Outside

LEMMA StutterTyped ==
  ASSUME TInv, UNCHANGED vars
  PROVE  TInv' /\ Fades /\ UNCHANGED <<registry, cli, redisUp, procs>>
  BY SameStops DEF vars, disk, TInv, TypeOK, Shape, Fades, StopsTyped

LEMMA ExecTyped ==
  ASSUME TInv, NEW c \in Cmds, ExecPythonService(c) \/ ExecPostgreSQL(c)
  PROVE  /\ TInv' /\ UNCHANGED <<registry, redisUp>>
         /\ \A d \in Cmds \ {c} : cli'[d] = cli[d]
         /\ cli'[c].m = cli[c].m /\ cli'[c].key = cli[c].key
         /\ cli'[c].entry = cli[c].entry
         /\ cli[c].pc = "start" /\ cli'[c].pc \in {"link", "register"}
         /\ cli[c].m \in Manifests /\ cli[c].key \in Keys
         /\ cli'[c].pid \in Pids
         /\ procs'[cli'[c].pid].key = cli[c].key
         /\ \A q \in Pids \ {cli'[c].pid} : procs'[q] = procs[q]
<1>1. /\ At(c, "start") /\ cli[c].m.type \in {"service", "db"}
      /\ \E p \in FreePids : \E next \in {"link", "register"} :
            StartWorkload(c, p, next)
  BY DEF ExecPythonService, ExecPostgreSQL
<1>2. PICK p \in FreePids : \E next \in {"link", "register"} : StartWorkload(c, p, next)
  BY <1>1
<1>3. PICK next \in {"link", "register"} : StartWorkload(c, p, next)
  BY <1>2
<1>4. cli[c].m \in Manifests /\ cli[c].key \in Keys /\ p \in Pids
  BY <1>1
     DEF At, TInv, Shape, WellFormed, CreateSteps, DeleteSteps, EnvoySteps, FreePids
<1>5. UNCHANGED <<registry, redisUp>> /\ cli[c].pc = "start"
  BY <1>1, <1>3 DEF StartWorkload, At
<1>6. /\ TInv'
      /\ \A d \in Cmds \ {c} : cli'[d] = cli[d]
      /\ cli'[c].m = cli[c].m /\ cli'[c].key = cli[c].key
      /\ cli'[c].entry = cli[c].entry /\ cli'[c].pid = p /\ cli'[c].pc = next
      /\ procs'[p].key = cli[c].key
      /\ \A q \in Pids \ {p} : procs'[q] = procs[q]
  BY <1>1, <1>3, StartTyped
<1>. QED
  BY <1>4, <1>5, <1>6

\* The steps of the specification, grouped by what the lemmas say of them.
LEMMA NextCases ==
  ASSUME [Next]_vars
  PROVE  \/ \E c \in Cmds :
               \/ \E m \in Manifests : RunCreate(c, m)
               \/ \E k \in Keys : RunDelete(c, k)
               \/ RunCleanup(c)
               \/ QuietStep(c)
               \/ ExecPythonService(c) \/ ExecPostgreSQL(c)
               \/ KillWorkload(c)
               \/ Register(c)
               \/ Unregister(c)
               \/ Unlink(c)
               \/ Crash(c)
         \/ Outside
         \/ UNCHANGED vars
  BY DEF Next, Step, QuietStep, Outside

LEMMA NextTyped == TInv /\ [Next]_vars => TInv'
  BY NextCases, RunCreateTyped, RunDeleteTyped, RunCleanupTyped, QuietTyped, ExecTyped,
     KillWorkloadTyped, RegisterTyped, UnregisterTyped, UnlinkTyped, CrashTyped,
     OutsideTyped, StutterTyped

\* The state is well-typed: what a command remembers, what the registry and the
\* pool hold, and what the processes of the host are.
THEOREM TypeCorrect == Spec => []TypeOK
<1>1. TInv => TypeOK
  BY DEF TInv
<1>. QED
  BY InitTyped, NextTyped, <1>1, PTL DEF Spec

-----------------------------------------------------------------------------
(* Deletion: every step preserves DInv *)

LEMMA InitDeletion == Init => DInv
  BY DEF Init, DInv, OneCommand, EntryHeld, Ended, Idle

\* A step that keeps or ends one command, leaves the registry alone, and lets
\* processes fade, preserves DInv unless it passes the kill.
LEMMA DeletionStep ==
  ASSUME TInv, DInv, NEW c \in Cmds, Fades, UNCHANGED registry,
         \/ Leaves(c)
         \/ /\ Keeps(c)
            /\ cli[c].pc \in {"release", "kill"} => cli'[c].pc \in {"release", "kill"}
  PROVE  DInv'
<1>1. /\ Idle.key = Nil /\ Idle.entry = Nil
  BY DEF Idle
<1>2. \A d \in Cmds :
         /\ cli'[d].key \in {cli[d].key, Nil} /\ cli'[d].entry \in {cli[d].entry, Nil}
         /\ cli'[d].entry # Nil =>
               /\ cli'[d].key = cli[d].key
               /\ cli'[d].pc \notin {"release", "kill"} => cli[d].pc \notin {"release", "kill"}
  BY <1>1 DEF Keeps, Leaves
<1>3. \A d \in Cmds : cli[d].entry # Nil => cli[d].entry \in Entries /\ cli[d].key \in Keys
  BY DEF TInv, Shape, WellFormed
<1>4. OneCommand'
  BY <1>2 DEF DInv, OneCommand
<1>5. EntryHeld'
  BY <1>2 DEF DInv, EntryHeld
<1>6. Ended'
  <2>. SUFFICES ASSUME NEW d \in Cmds, cli'[d].entry # Nil, cli'[d].entry.pid # Nil,
                       cli'[d].pc \notin {"release", "kill"}
                PROVE  procs'[cli'[d].entry.pid].key # cli'[d].key
    BY DEF Ended
  <2>1. /\ cli'[d].entry = cli[d].entry /\ cli'[d].key = cli[d].key
        /\ cli[d].entry \in Entries /\ cli[d].key \in Keys
        /\ procs[cli[d].entry.pid].key # cli[d].key
    BY <1>2, <1>3 DEF DInv, Ended
  <2>2. cli[d].entry.pid \in Pids
    BY <2>1 DEF Entries
  <2>. QED
    BY <2>1, <2>2, KeyAssumption DEF Fades
<1>. QED
  BY <1>4, <1>5, <1>6 DEF DInv

LEMMA RunCreateDeletion ==
  ASSUME OnePerName, TInv, DInv, NEW c \in Cmds, NEW m \in Manifests, RunCreate(c, m)
  PROVE  DInv'
<1>0. UNCHANGED <<registry, procs>> /\ cli[c].pc = "idle"
  BY DEF RunCreate, At
<1>1. CASE m.type = "other"
  BY <1>0, <1>1 DEF RunCreate, DInv, OneCommand, EntryHeld, Ended
<1>2. CASE m.type # "other"
  <2>1. Undisturbed(KeyOf(m))
    BY <1>2 DEF RunCreate
  <2>. DEFINE r(a) == [Idle EXCEPT !.pc = IF ~m.supported THEN "register"
                                  ELSE IF m.lb THEN "fragment" ELSE "start",
                           !.m = m, !.key = KeyOf(m), !.ip = a]
  <2>2. \A a : r(a).key = KeyOf(m) /\ r(a).entry = Nil
    BY DEF Idle
  <2>3. \E a : cli' = [cli EXCEPT ![c] = r(a)]
    BY <1>2 DEF RunCreate
  <2>. HIDE DEF r
  <2>4. /\ \A d \in Cmds \ {c} : cli'[d] = cli[d]
        /\ cli'[c].key = KeyOf(m) /\ cli'[c].entry = Nil
    BY <2>2, <2>3 DEF TInv, TypeOK
  <2>. QED
    BY <1>0, <2>1, <2>4 DEF Undisturbed, DInv, OneCommand, EntryHeld, Ended
<1>. QED
  BY <1>1, <1>2

LEMMA RunDeleteDeletion ==
  ASSUME OnePerName, TInv, DInv, NEW c \in Cmds, NEW k \in Keys, RunDelete(c, k)
  PROVE  DInv'
<1>. DEFINE r == [Idle EXCEPT !.pc = "release", !.key = k, !.entry = registry[k]]
<1>1. r.key = k /\ r.entry = registry[k] /\ r.pc = "release"
  BY DEF Idle
<1>2. cli' = [cli EXCEPT ![c] = r] /\ UNCHANGED <<registry, procs>> /\ Undisturbed(k)
  BY DEF RunDelete
<1>. HIDE DEF r
<1>3. /\ \A d \in Cmds \ {c} : cli'[d] = cli[d]
      /\ cli'[c].key = k /\ cli'[c].entry = registry[k] /\ cli'[c].pc = "release"
  BY <1>1, <1>2 DEF TInv, TypeOK
<1>. QED
  BY <1>2, <1>3 DEF Undisturbed, DInv, OneCommand, EntryHeld, Ended

LEMMA ExecDeletion ==
  ASSUME TInv, DInv, NEW c \in Cmds, ExecPythonService(c) \/ ExecPostgreSQL(c)
  PROVE  DInv'
<1>1. /\ UNCHANGED registry /\ \A d \in Cmds \ {c} : cli'[d] = cli[d]
      /\ cli'[c].key = cli[c].key /\ cli[c].entry = Nil /\ cli'[c].entry = Nil
      /\ cli[c].key \in Keys
      /\ procs'[cli'[c].pid].key = cli[c].key
      /\ \A q \in Pids \ {cli'[c].pid} : procs'[q] = procs[q]
  BY ExecTyped DEF TInv, Shape, WellFormed, CreateSteps, DeleteSteps, EnvoySteps
<1>2. OneCommand' /\ EntryHeld'
  BY <1>1 DEF DInv, OneCommand, EntryHeld
<1>3. Ended'
  <2>. SUFFICES ASSUME NEW d \in Cmds, cli'[d].entry # Nil, cli'[d].entry.pid # Nil,
                       cli'[d].pc \notin {"release", "kill"}
                PROVE  procs'[cli'[d].entry.pid].key # cli'[d].key
    BY DEF Ended
  <2>1. d # c /\ cli'[d] = cli[d] /\ cli[d].entry \in Entries /\ cli[d].key \in Keys
    BY <1>1 DEF TInv, Shape, WellFormed
  <2>2. cli[d].key # cli[c].key /\ procs[cli[d].entry.pid].key # cli[d].key
    BY <1>1, <2>1, KeyAssumption DEF DInv, OneCommand, Ended
  <2>3. cli[d].entry.pid \in Pids
    BY <2>1 DEF Entries
  <2>. QED
    BY <1>1, <2>1, <2>2, <2>3
<1>. QED
  BY <1>2, <1>3 DEF DInv

LEMMA KillDeletion ==
  ASSUME TInv, DInv, NEW c \in Cmds, KillWorkload(c)
  PROVE  DInv'
<1>1. CASE Leaves(c)
  BY <1>1, KillWorkloadTyped, DeletionStep
<1>2. CASE /\ Keeps(c) /\ cli[c].pc = "kill" /\ cli'[c].pc = "stop"
           /\ cli[c].entry.pid \in Pids
           /\ procs'[cli[c].entry.pid].key = Nil
  <2>0. Fades /\ UNCHANGED registry
    BY KillWorkloadTyped
  <2>1. cli[c].entry \in Entries /\ cli[c].key \in Keys
    BY <1>2 DEF TInv, Shape, WellFormed, CreateSteps, DeleteSteps, EnvoySteps
  <2>2. OneCommand' /\ EntryHeld'
    BY <1>2, <2>0 DEF Keeps, DInv, OneCommand, EntryHeld
  <2>3. Ended'
    <3>. SUFFICES ASSUME NEW d \in Cmds, cli'[d].entry # Nil, cli'[d].entry.pid # Nil,
                         cli'[d].pc \notin {"release", "kill"}
                  PROVE  procs'[cli'[d].entry.pid].key # cli'[d].key
      BY DEF Ended
    <3>1. CASE d = c
      BY <1>2, <2>1, <3>1, KeyAssumption DEF Keeps
    <3>2. CASE d # c
      <4>1. /\ cli'[d] = cli[d] /\ cli[d].entry \in Entries /\ cli[d].key \in Keys
            /\ procs[cli[d].entry.pid].key # cli[d].key
        BY <1>2, <3>2 DEF Keeps, TInv, Shape, WellFormed, DInv, Ended
      <4>2. cli[d].entry.pid \in Pids
        BY <4>1 DEF Entries
      <4>. QED
        BY <2>0, <4>1, <4>2, KeyAssumption DEF Fades
    <3>. QED
      BY <3>1, <3>2
  <2>. QED
    BY <2>2, <2>3 DEF DInv
<1>. QED
  BY <1>1, <1>2, KillWorkloadTyped

\* create and delete change the entry of their own name only, and end.
LEMMA EndDeletion ==
  ASSUME TInv, DInv, NEW c \in Cmds, Leaves(c), UNCHANGED procs, cli[c].key \in Keys,
         \A k \in Keys \ {cli[c].key} : registry'[k] = registry[k]
  PROVE  DInv'
<1>1. Idle.key = Nil /\ Idle.entry = Nil
  BY DEF Idle
<1>2. OneCommand' /\ Ended'
  BY <1>1 DEF Leaves, DInv, OneCommand, Ended
<1>3. EntryHeld'
  <2>. SUFFICES ASSUME NEW d \in Cmds, cli'[d].entry # Nil
                PROVE  registry'[cli'[d].key] = cli'[d].entry
    BY DEF EntryHeld
  <2>1. d # c /\ cli'[d] = cli[d] /\ cli[d].key \in Keys
    BY <1>1 DEF Leaves, TInv, Shape, WellFormed
  <2>. QED
    BY <2>1, KeyAssumption DEF DInv, OneCommand, EntryHeld
<1>. QED
  BY <1>2, <1>3 DEF DInv

LEMMA NextDeletion == OnePerName /\ TInv /\ DInv /\ [Next]_vars => DInv'
<1>. SUFFICES ASSUME OnePerName, TInv, DInv, [Next]_vars PROVE DInv'
  OBVIOUS
<1>1. ASSUME NEW c \in Cmds, RunCleanup(c) PROVE DInv'
  <2>1. UNCHANGED <<registry, procs>> /\ cli[c].pc = "idle"
    BY <1>1 DEF RunCleanup, At
  <2>2. /\ \A d \in Cmds \ {c} : cli'[d] = cli[d]
        /\ cli'[c].key = cli[c].key /\ cli'[c].entry = cli[c].entry
    BY <1>1 DEF RunCleanup, TInv, TypeOK, Commands
  <2>3. cli[c].entry = Nil
    BY <2>1 DEF TInv, Shape, WellFormed, CreateSteps, DeleteSteps, EnvoySteps
  <2>. QED
    BY <2>1, <2>2, <2>3 DEF DInv, OneCommand, EntryHeld, Ended
<1>2. ASSUME NEW c \in Cmds, QuietStep(c) PROVE DInv'
  BY <1>2, QuietTyped, DeletionStep DEF QuietMove, Continues
<1>3. ASSUME NEW c \in Cmds, Unlink(c) PROVE DInv'
  BY <1>3, UnlinkTyped, DeletionStep
<1>4. ASSUME NEW c \in Cmds, Crash(c) PROVE DInv'
  <2>1. Fades
    BY <1>4, CrashTyped, SameFades
  <2>. QED
    BY <1>4, <2>1, CrashTyped, DeletionStep
<1>5. ASSUME NEW c \in Cmds, Register(c) \/ Unregister(c) PROVE DInv'
  BY <1>5, RegisterTyped, UnregisterTyped, EndDeletion
<1>6. CASE Outside \/ UNCHANGED vars
  <2>1. Fades /\ UNCHANGED <<registry, cli>>
    BY <1>6, OutsideTyped, StutterTyped
  <2>2. \A c \in Cmds : Keeps(c)
    BY <2>1 DEF Keeps
  <2>3. CASE Cmds = {}
    BY <2>3 DEF DInv, OneCommand, EntryHeld, Ended
  <2>. QED
    BY <2>1, <2>2, <2>3, DeletionStep
<1>. QED
  BY <1>1, <1>2, <1>3, <1>4, <1>5, <1>6, NextCases, RunCreateDeletion,
     RunDeleteDeletion, ExecDeletion, KillDeletion

LEMMA StepNeverOrphans ==
  ASSUME TInv, DInv, [Next]_vars, NEW k \in Entered, registry'[k] = Nil,
         registry[k].pid # Nil
  PROVE  procs[registry[k].pid].key # k
<1>0. k \in Keys /\ registry[k] # Nil
  BY DEF Entered
<1>1. ASSUME NEW c \in Cmds, Register(c) PROVE FALSE
  BY <1>0, <1>1, RegisterTyped, EntryAssumption
<1>2. ASSUME NEW c \in Cmds, Unregister(c) PROVE procs[registry[k].pid].key # k
  <2>1. /\ cli[c].pc = "unregister" /\ cli[c].entry \in Entries
        /\ cli[c].key \in Keys /\ cli[c].key = k
    BY <1>0, <1>2, UnregisterTyped
  <2>2. cli[c].entry # Nil /\ registry[k] = cli[c].entry
    BY <2>1, EntryAssumption DEF DInv, EntryHeld
  <2>. QED
    BY <2>1, <2>2 DEF DInv, Ended
<1>3. ASSUME UNCHANGED registry PROVE FALSE
  BY <1>0, <1>3
<1>4. ASSUME NEW c \in Cmds, RunCleanup(c) \/ (\E m \in Manifests : RunCreate(c, m))
                             \/ (\E j \in Keys : RunDelete(c, j))
      PROVE  FALSE
  BY <1>3, <1>4 DEF RunCleanup, RunCreate, RunDelete
<1>. QED
  BY <1>1, <1>2, <1>3, <1>4, NextCases, QuietTyped, ExecTyped, KillWorkloadTyped,
     UnlinkTyped, CrashTyped, OutsideTyped, StutterTyped DEF QuietMove

\* As long as the commands for one name are run one after the other, delete
\* removes an entry only when its process is gone, whatever fails and wherever
\* an earlier attempt was cut off.
THEOREM NeverOrphans ==
  ASSUME OnePerName
  PROVE  Spec => DeleteNeverOrphans
<1>1. Init => TInv /\ DInv
  BY InitTyped, InitDeletion
<1>2. TInv /\ DInv /\ [Next]_vars => TInv' /\ DInv'
  BY NextTyped, NextDeletion
<1>3. TInv /\ DInv /\ [Next]_vars =>
        [\A k \in Entered :
           LET p == registry[k].pid
           IN  registry'[k] = Nil /\ p # Nil => procs[p].key # k]_vars
  BY StepNeverOrphans
<1>. QED
  BY <1>1, <1>2, <1>3, PTL DEF Spec, DeleteNeverOrphans

-----------------------------------------------------------------------------
(* Accounting: without faults every step preserves AInv *)

LEMMA InitAccounting == Init => AInv
  BY DEF Init, AInv, Accounted, Keyed, Workloads, NoProc

\* A step that keeps or ends one command, which is not at the point of recording
\* its workload, and lets processes fade.
LEMMA AccountingStep ==
  ASSUME TInv, AInv, NEW c \in Cmds, Fades, UNCHANGED registry, redisUp',
         \/ Leaves(c) /\ cli[c].m = Nil
         \/ Keeps(c) /\ Continues(c)
  PROVE  AInv'
<1>1. ASSUME NEW p \in Pids, procs'[p].key # Nil
      PROVE  procs'[p].key = procs[p].key /\ procs'[p].kind = procs[p].kind
  BY <1>1 DEF Fades
<1>2. \A d \in Cmds : cli'[d].key = cli[d].key \/ cli'[d].key = Nil
  BY DEF Keeps, Leaves, Idle
<1>3. Accounted'
  <2>. SUFFICES ASSUME NEW p \in Pids, procs'[p].key # Nil
                PROVE  Recorded(p)' \/ Started(p)'
    BY DEF Accounted
  <2>1. procs'[p].key = procs[p].key
    BY <1>1
  <2>2. CASE Recorded(p)
    <3>1. \A d \in Cmds : cli'[d].key = procs[p].key =>
              /\ cli[d].key = procs[p].key
              /\ cli[d].pc \in {"release", "kill"} => cli'[d].pc \in {"release", "kill"}
      BY <1>2, <2>1 DEF Keeps, Leaves, Continues, Idle
    <3>. QED
      BY <2>1, <2>2, <3>1 DEF Recorded
  <2>3. CASE Started(p)
    <3>1. PICK d \in Cmds : /\ cli[d].key = procs[p].key /\ cli[d].pid = p
                            /\ cli[d].m # Nil /\ cli[d].pc \in {"link", "register"}
      BY <2>3 DEF Started
    <3>2. /\ cli'[d].key = procs[p].key /\ cli'[d].pid = p
          /\ cli'[d].m # Nil /\ cli'[d].pc \in {"link", "register"}
      BY <3>1 DEF Keeps, Leaves, Continues
    <3>. QED
      BY <2>1, <3>2 DEF Started
  <2>. QED
    BY <2>1, <2>2, <2>3 DEF AInv, Accounted
<1>4. Keyed'
  BY DEF AInv, Keyed, Workloads, Fades
<1>. QED
  BY <1>3, <1>4 DEF AInv

\* A command for a name that nobody else is at work on begins.
LEMMA AccountingBegin ==
  ASSUME TInv, AInv, NEW c \in Cmds, NEW k \in Keys, Undisturbed(k),
         UNCHANGED <<registry, procs, redisUp>>, cli[c].key = Nil, cli[c].m = Nil,
         \A d \in Cmds \ {c} : cli'[d] = cli[d],
         cli'[c].key = k,
         registry[k] = Nil \/ cli'[c].pc = "release"
  PROVE  AInv'
<1>1. Accounted'
  <2>. SUFFICES ASSUME NEW p \in Pids, procs'[p].key # Nil
                PROVE  Recorded(p)' \/ Started(p)'
    BY DEF Accounted
  <2>1. CASE Recorded(p)
    BY <2>1 DEF Recorded
  <2>2. CASE Started(p)
    BY <2>2 DEF Started
  <2>. QED
    BY <2>1, <2>2 DEF AInv, Accounted
<1>. QED
  BY <1>1 DEF AInv, Keyed, Workloads

LEMMA RunCreateAccounting ==
  ASSUME OnePerName, TInv, AInv, NEW c \in Cmds, NEW m \in Manifests, RunCreate(c, m)
  PROVE  AInv'
<1>0. UNCHANGED <<registry, redisUp, procs>> /\ cli[c].pc = "idle"
  BY DEF RunCreate, At
<1>1. CASE m.type = "other"
  BY <1>0, <1>1 DEF RunCreate, AInv, Accounted, Recorded, Started, Keyed, Workloads
<1>2. CASE m.type # "other"
  <2>1. Undisturbed(KeyOf(m)) /\ registry[KeyOf(m)] = Nil /\ KeyOf(m) \in Keys
    BY <1>2 DEF RunCreate, Keys
  <2>. DEFINE r(a) == [Idle EXCEPT !.pc = IF ~m.supported THEN "register"
                                  ELSE IF m.lb THEN "fragment" ELSE "start",
                           !.m = m, !.key = KeyOf(m), !.ip = a]
  <2>2. \A a : r(a).key = KeyOf(m)
    BY DEF Idle
  <2>3. \E a : cli' = [cli EXCEPT ![c] = r(a)]
    BY <1>2 DEF RunCreate
  <2>. HIDE DEF r
  <2>4. (\A d \in Cmds \ {c} : cli'[d] = cli[d]) /\ cli'[c].key = KeyOf(m)
    BY <2>2, <2>3 DEF TInv, TypeOK
  <2>5. cli[c].key = Nil /\ cli[c].m = Nil
    BY <1>0 DEF TInv, Shape, WellFormed, CreateSteps, DeleteSteps, EnvoySteps
  <2>. QED
    BY <1>0, <2>1, <2>4, <2>5, AccountingBegin
<1>. QED
  BY <1>1, <1>2

LEMMA RunDeleteAccounting ==
  ASSUME OnePerName, TInv, AInv, NEW c \in Cmds, NEW k \in Keys, RunDelete(c, k)
  PROVE  AInv'
<1>. DEFINE r == [Idle EXCEPT !.pc = "release", !.key = k, !.entry = registry[k]]
<1>1. r.key = k /\ r.pc = "release"
  BY DEF Idle
<1>2. /\ cli' = [cli EXCEPT ![c] = r] /\ UNCHANGED <<registry, procs, redisUp>>
      /\ Undisturbed(k) /\ cli[c].pc = "idle"
  BY DEF RunDelete, At
<1>. HIDE DEF r
<1>3. (\A d \in Cmds \ {c} : cli'[d] = cli[d]) /\ cli'[c].key = k /\ cli'[c].pc = "release"
  BY <1>1, <1>2 DEF TInv, TypeOK
<1>4. cli[c].key = Nil /\ cli[c].m = Nil
  BY <1>2 DEF TInv, Shape, WellFormed, CreateSteps, DeleteSteps, EnvoySteps
<1>. QED
  BY <1>2, <1>3, <1>4, AccountingBegin

\* While a create for a name is on its way to the start, no process of that name
\* runs; afterwards there is the one that it has started.
LEMMA ExecAccounting ==
  ASSUME TInv, DInv, AInv, NEW c \in Cmds, ExecPythonService(c) \/ ExecPostgreSQL(c)
  PROVE  AInv'
<1>1. /\ UNCHANGED <<registry, redisUp>> /\ \A d \in Cmds \ {c} : cli'[d] = cli[d]
      /\ cli'[c].key = cli[c].key /\ cli'[c].m = cli[c].m
      /\ cli[c].pc = "start" /\ cli'[c].pc \in {"link", "register"}
      /\ cli[c].key \in Keys /\ cli[c].m # Nil
      /\ procs'[cli'[c].pid].key = cli[c].key
      /\ \A q \in Pids \ {cli'[c].pid} : procs'[q] = procs[q]
  BY ExecTyped, NilAssumption
<1>2. Accounted'
  <2>. SUFFICES ASSUME NEW p \in Pids, procs'[p].key # Nil
                PROVE  Recorded(p)' \/ Started(p)'
    BY DEF Accounted
  <2>1. CASE p = cli'[c].pid
    BY <1>1, <2>1 DEF Started
  <2>2. CASE p # cli'[c].pid
    <3>1. procs'[p] = procs[p]
      BY <1>1, <2>2
    <3>2. CASE Recorded(p)
      BY <1>1, <3>1, <3>2 DEF Recorded
    <3>3. CASE Started(p)
      <4>1. PICK d \in Cmds : /\ cli[d].key = procs[p].key /\ cli[d].pid = p
                              /\ cli[d].m # Nil /\ cli[d].pc \in {"link", "register"}
        BY <3>3 DEF Started
      <4>. QED
        BY <1>1, <3>1, <4>1 DEF Started
    <3>. QED
      BY <3>1, <3>2, <3>3 DEF AInv, Accounted
  <2>. QED
    BY <2>1, <2>2
<1>3. Keyed'
  BY <1>1, KeyAssumption DEF AInv, Keyed, Workloads
<1>. QED
  BY <1>1, <1>2, <1>3 DEF AInv

LEMMA KillAccounting ==
  ASSUME TInv, DInv, AInv, NEW c \in Cmds, KillWorkload(c)
  PROVE  AInv'
<1>0. /\ Fades /\ UNCHANGED <<registry, redisUp>> /\ cli[c].m = Nil
      /\ cli[c].entry \in Entries /\ cli[c].key \in Keys
  BY KillWorkloadTyped DEF KillWorkload, At, TInv, Shape, WellFormed, CreateSteps,
                           DeleteSteps, EnvoySteps
<1>1. CASE Leaves(c)
  BY <1>0, <1>1, AccountingStep DEF AInv
<1>2. CASE /\ Keeps(c) /\ cli[c].pc = "kill" /\ cli'[c].pc = "stop"
           /\ cli[c].entry.pid \in Pids
           /\ procs'[cli[c].entry.pid].key = Nil
  <2>1. registry[cli[c].key] = cli[c].entry
    BY <1>0, EntryAssumption DEF DInv, EntryHeld
  <2>2. Accounted'
    <3>. SUFFICES ASSUME NEW p \in Pids, procs'[p].key # Nil
                  PROVE  Recorded(p)' \/ Started(p)'
      BY DEF Accounted
    <3>1. procs'[p].key = procs[p].key
      BY <1>0 DEF Fades
    <3>2. CASE Recorded(p)
      <4>1. procs[p].key # cli[c].key
        BY <1>2, <2>1, <3>2 DEF Recorded
      <4>. QED
        BY <1>0, <1>2, <3>1, <3>2, <4>1 DEF Recorded, Keeps
    <3>3. CASE Started(p)
      <4>1. PICK d \in Cmds : /\ cli[d].key = procs[p].key /\ cli[d].pid = p
                              /\ cli[d].m # Nil /\ cli[d].pc \in {"link", "register"}
        BY <3>3 DEF Started
      <4>2. cli'[d] = cli[d]
        BY <1>0, <1>2, <4>1 DEF Keeps
      <4>. QED
        BY <3>1, <4>1, <4>2 DEF Started
    <3>. QED
      BY <3>1, <3>2, <3>3 DEF AInv, Accounted
  <2>3. Keyed'
    BY <1>0 DEF AInv, Keyed, Workloads, Fades
  <2>. QED
    BY <1>0, <2>2, <2>3 DEF AInv
<1>. QED
  BY <1>1, <1>2, KillWorkloadTyped

\* The one process that create has started becomes the recorded one.
LEMMA RegisterAccounting ==
  ASSUME TInv, DInv, AInv, NEW c \in Cmds, Register(c)
  PROVE  AInv'
<1>1. /\ Leaves(c) /\ UNCHANGED <<redisUp, procs>>
      /\ cli[c].pc = "register" /\ cli[c].key \in Keys /\ cli[c].key # Nil
      /\ \A k \in Keys \ {cli[c].key} : registry'[k] = registry[k]
      /\ registry'[cli[c].key] # Nil
      /\ registry'[cli[c].key].pid = cli[c].pid
  BY RegisterTyped, EntryAssumption, KeyAssumption DEF AInv
<1>2. cli'[c].key = Nil
  BY <1>1 DEF Leaves, Idle
<1>3. Accounted'
  <2>. SUFFICES ASSUME NEW p \in Pids, procs'[p].key # Nil
                PROVE  Recorded(p)' \/ Started(p)'
    BY DEF Accounted
  <2>1. procs'[p] = procs[p] /\ procs[p].key \in Keys
    BY <1>1 DEF TInv, TypeOK, Procs
  <2>2. CASE procs[p].key = cli[c].key
    <3>1. Started(p)
      BY <1>1, <2>1, <2>2 DEF AInv, Accounted, Recorded
    <3>2. cli[c].pid = p
      BY <1>1, <2>2, <3>1 DEF Started, DInv, OneCommand
    <3>3. \A d \in Cmds : cli'[d].key # cli[c].key
      BY <1>1, <1>2 DEF Leaves, DInv, OneCommand
    <3>. QED
      BY <1>1, <2>1, <2>2, <3>2, <3>3 DEF Recorded
  <2>3. CASE procs[p].key # cli[c].key
    <3>1. CASE Recorded(p)
      BY <1>1, <1>2, <2>1, <2>3, <3>1, KeyAssumption DEF Recorded, Leaves
    <3>2. CASE Started(p)
      BY <1>1, <2>1, <2>3, <3>2 DEF Started, Leaves
    <3>. QED
      BY <2>1, <3>1, <3>2 DEF AInv, Accounted
  <2>. QED
    BY <2>2, <2>3
<1>. QED
  BY <1>1, <1>3 DEF AInv, Keyed, Workloads

\* When delete removes the entry no process of that name is left.
LEMMA UnregisterAccounting ==
  ASSUME TInv, DInv, AInv, NEW c \in Cmds, Unregister(c)
  PROVE  AInv'
<1>1. /\ Leaves(c) /\ UNCHANGED <<redisUp, procs>>
      /\ cli[c].pc = "unregister" /\ cli[c].key \in Keys /\ cli[c].key # Nil
      /\ \A k \in Keys \ {cli[c].key} : registry'[k] = registry[k]
  BY UnregisterTyped, KeyAssumption
<1>2. cli'[c].key = Nil
  BY <1>1 DEF Leaves, Idle
<1>3. Accounted'
  <2>. SUFFICES ASSUME NEW p \in Pids, procs'[p].key # Nil
                PROVE  Recorded(p)' \/ Started(p)'
    BY DEF Accounted
  <2>1. procs'[p] = procs[p] /\ procs[p].key \in Keys
    BY <1>1 DEF TInv, TypeOK, Procs
  <2>2. CASE Recorded(p)
    <3>1. procs[p].key # cli[c].key
      BY <1>1, <2>2 DEF Recorded
    <3>. QED
      BY <1>1, <1>2, <2>1, <2>2, <3>1, KeyAssumption DEF Recorded, Leaves
  <2>3. CASE Started(p)
    <3>1. PICK d \in Cmds : /\ cli[d].key = procs[p].key /\ cli[d].pid = p
                            /\ cli[d].m # Nil /\ cli[d].pc \in {"link", "register"}
      BY <2>3 DEF Started
    <3>2. cli'[d] = cli[d]
      BY <1>1, <3>1 DEF Leaves
    <3>. QED
      BY <2>1, <3>1, <3>2 DEF Started
  <2>. QED
    BY <2>1, <2>2, <2>3 DEF AInv, Accounted
<1>. QED
  BY <1>1, <1>3 DEF AInv, Keyed, Workloads

LEMMA NextAccounting ==
  OnePerName /\ MaxFaults = 0 /\ TInv /\ DInv /\ AInv /\ [Next]_vars => AInv'
<1>. SUFFICES ASSUME OnePerName, MaxFaults = 0, TInv, DInv, AInv, [Next]_vars
              PROVE  AInv'
  OBVIOUS
<1>1. ASSUME NEW c \in Cmds, RunCleanup(c) PROVE AInv'
  <2>1. UNCHANGED <<registry, redisUp, procs>> /\ cli[c].pc = "idle"
    BY <1>1 DEF RunCleanup, At
  <2>2. Keeps(c)
    BY <1>1 DEF RunCleanup, TInv, TypeOK, Commands, Keeps
  <2>. QED
    BY <2>1, <2>2, SameFades, AccountingStep DEF Continues, AInv
<1>2. ASSUME NEW c \in Cmds, QuietStep(c) PROVE AInv'
  BY <1>2, QuietTyped, AccountingStep DEF QuietMove, AInv
<1>3. ASSUME NEW c \in Cmds, Unlink(c) PROVE AInv'
  <2>1. cli[c].m = Nil
    BY <1>3, UnlinkTyped DEF TInv, Shape, WellFormed, CreateSteps, DeleteSteps, EnvoySteps
  <2>. QED
    BY <1>3, <2>1, UnlinkTyped, AccountingStep DEF Continues, AInv
<1>4. ASSUME NEW c \in Cmds, Crash(c) PROVE FALSE
  BY <1>4, CrashTyped
<1>5. CASE Outside \/ UNCHANGED vars
  <2>1. Fades /\ UNCHANGED <<registry, cli>> /\ redisUp'
    BY <1>5, OutsideTyped, StutterTyped DEF AInv
  <2>2. \A p \in Pids : procs'[p].key # Nil =>
           procs'[p].key = procs[p].key /\ procs'[p].kind = procs[p].kind
    BY <2>1 DEF Fades
  <2>3. Accounted'
    BY <2>1, <2>2 DEF AInv, Accounted, Recorded, Started
  <2>4. Keyed'
    BY <2>1 DEF AInv, Keyed, Workloads, Fades
  <2>. QED
    BY <2>1, <2>3, <2>4 DEF AInv
<1>. QED
  BY <1>1, <1>2, <1>3, <1>4, <1>5, NextCases, RunCreateAccounting,
     RunDeleteAccounting, ExecAccounting, KillAccounting, RegisterAccounting,
     UnregisterAccounting

\* Without faults, and as long as the commands for one name are run one after the
\* other, every running workload that no command is at work on is the one its
\* registry entry names, however commands for other names interleave.
THEOREM Tracked ==
  ASSUME OnePerName, MaxFaults = 0
  PROVE  Spec => []WorkloadsTracked
<1>1. Init => TInv /\ DInv /\ AInv
  BY InitTyped, InitDeletion, InitAccounting
<1>2. TInv /\ DInv /\ AInv /\ [Next]_vars => TInv' /\ DInv' /\ AInv'
  BY NextTyped, NextDeletion, NextAccounting
<1>3. TInv /\ AInv => WorkloadsTracked
  BY DEF AInv, Accounted, Keyed, Recorded, Started, WorkloadsTracked, Workloads, Undisturbed
<1>. QED
  BY <1>1, <1>2, <1>3, PTL DEF Spec
=============================================================================
