------------------------- MODULE PaasConcurrentProofs -------------------------
(***************************************************************************)
(* What Paas guarantees for commands that run at the same time.            *)
(*                                                                         *)
(* Everything here rests on whose process a pid is.  PInv says that a pid  *)
(* which a command holds is not given out again before the command has     *)
(* ended: it is the command's own process, or a dead one.  So processes    *)
(* are connected as in Connection, whatever commands run and whatever      *)
(* fails.  Without faults it also follows where the address of every       *)
(* interface comes from (Leased), when two of them are the same, and, if   *)
(* there are no databases, that entries keep naming running processes.     *)
(***************************************************************************)
EXTENDS PaasAddressProofs

-----------------------------------------------------------------------------
(* What a step does to processes, and to the pids that its command holds *)

Joining == {"link", "writepid", "join"}

Others(c)    == \A d \in Cmds \ {c} : cli'[d] = cli[d]
SameHolds(c) == /\ cli'[c].pid = cli[c].pid /\ cli'[c].envoy = cli[c].envoy
                /\ cli'[c].key = cli[c].key /\ cli'[c].ip = cli[c].ip
HoldsNone(c) == cli'[c].pid = Nil /\ cli'[c].envoy = Nil

\* Processes end at most.
Ends == \A q \in Pids : procs'[q] \in {procs[q], NoProc}

\* Most steps: nothing is started or connected.  A command that is about to connect
\* a process goes on to do so, unless a fault keeps it from it.
Passes(c) ==
    /\ Others(c) /\ Ends /\ cli'[c].pc \notin {"link", "writepid"}
    /\ \/ /\ SameHolds(c) /\ cli[c].pc \notin {"link", "join"}
          /\ cli'[c].pc = "join" <=> cli[c].pc = "writepid"
       \/ /\ HoldsNone(c) \/ SameHolds(c)
          /\ cli'[c].pc # "join" /\ (cli[c].pc \in Joining => faults' > 0)

LEMMA GotoHolds ==
  ASSUME TypeOK, NEW c \in Cmds, NEW s \in Steps, Goto(c, s)
  PROVE  Others(c) /\ SameHolds(c) /\ cli'[c].pc = s
  BY DEF TypeOK, Goto, Commands, Others, SameHolds

LEMMA ExitHolds ==
  ASSUME TypeOK, NEW c \in Cmds, Exit(c)
  PROVE  Others(c) /\ HoldsNone(c) /\ cli'[c].pc = "idle"
  BY DEF TypeOK, Exit, Idle, Others, HoldsNone

LEMMA KillEnds ==
  ASSUME TypeOK, NEW p, Kill(p) \/ Terminate(p) \/ UNCHANGED procs
  PROVE  Ends
<1>1. CASE UNCHANGED procs
  BY <1>1 DEF Ends
<1>2. CASE Kill(p)
  BY <1>2 DEF TypeOK, Kill, Ends
<1>. QED
  BY <1>1, <1>2 DEF Terminate

\* The steps that only move on.
LEMMA MovePasses ==
  ASSUME TInv, NEW c \in Cmds, NEW s \in Steps \ {"link", "writepid"}, Goto(c, s), Ends,
         cli[c].pc \notin {"link", "join"}, s = "join" <=> cli[c].pc = "writepid"
  PROVE  Passes(c)
  BY GotoHolds DEF TInv, Passes

\* The steps that end the command.
LEMMA ExitPasses ==
  ASSUME TInv, NEW c \in Cmds, Exit(c), Ends, cli[c].pc \in Joining => faults' > 0
  PROVE  Passes(c)
  BY ExitHolds DEF TInv, Passes

LEMMA BeginPasses ==
  ASSUME TInv, NEW c \in Cmds, 
         \/ \E m \in Manifests : RunCreate(c, m)
         \/ \E k \in Keys : RunDelete(c, k)
         \/ RunCleanup(c)
  PROVE  Passes(c)
<1>1. /\ TypeOK /\ Ends /\ cli[c].pc = "idle" /\ cli[c] \in Commands
  BY DEF TInv, TypeOK, RunCreate, RunDelete, RunCleanup, At, Ends
<1>2. ASSUME NEW r, cli' = [cli EXCEPT ![c] = r], r.pid = Nil, r.envoy = Nil,
             r.pc \notin Joining
      PROVE  Passes(c)
  BY <1>1, <1>2 DEF TypeOK, Joining, Passes, Others, HoldsNone
<1>3. ASSUME NEW m \in Manifests, RunCreate(c, m)
      PROVE  Passes(c)
  <2>1. CASE UNCHANGED cli
    BY <1>1, <2>1 DEF Passes, Others, SameHolds
  <2>. DEFINE r(a) == [Idle EXCEPT !.pc = IF ~m.supported THEN "register"
                                    ELSE IF m.lb THEN "fragment" ELSE "start",
                           !.m = m, !.key = KeyOf(m), !.ip = a]
  <2>2. \A a : r(a).pid = Nil /\ r(a).envoy = Nil /\ r(a).pc \notin Joining
    BY DEF Idle, Joining
  <2>3. UNCHANGED cli \/ \E a : cli' = [cli EXCEPT ![c] = r(a)]
    BY <1>3 DEF RunCreate
  <2>. HIDE DEF r
  <2>. QED
    BY <1>2, <2>1, <2>2, <2>3
<1>4. ASSUME NEW k \in Keys, RunDelete(c, k)
      PROVE  Passes(c)
  <2>. DEFINE r == [Idle EXCEPT !.pc = "release", !.key = k, !.entry = registry[k]]
  <2>1. r.pid = Nil /\ r.envoy = Nil /\ r.pc \notin Joining
    BY DEF Idle, Joining
  <2>2. cli' = [cli EXCEPT ![c] = r]
    BY <1>4 DEF RunDelete
  <2>. HIDE DEF r
  <2>. QED
    BY <1>2, <2>1, <2>2
<1>5. CASE RunCleanup(c)
  <2>. DEFINE links == {<<p, procs[p].key>> : p \in {q \in Pids : procs[q].addr # NoIp}}
  <2>1. cli' = [cli EXCEPT ![c].pc = "unlink", ![c].links = links]
    BY <1>5 DEF RunCleanup
  <2>. HIDE DEF links
  <2>2. Others(c) /\ SameHolds(c) /\ cli'[c].pc = "unlink"
    BY <1>1, <2>1 DEF TypeOK, Commands, Others, SameHolds
  <2>. QED
    BY <1>1, <2>2 DEF Passes
<1>. QED
  BY <1>3, <1>4, <1>5

\* Every step of a command except those that start, connect or disconnect a process.
LEMMA StepPasses ==
  ASSUME TInv, NEW c \in Cmds,
         \/ /\ QuietStep(c) /\ ~ConnectWorkload(c) /\ ~ConnectEnvoy(c)
            /\ SpawnEnvoy(c) => UNCHANGED procs
         \/ KillWorkload(c) \/ Register(c) \/ Unregister(c) \/ Crash(c)
  PROVE  Passes(c)
<1>0. TypeOK /\ cli[c] \in Commands
  BY DEF TInv, TypeOK
<1>1. UNCHANGED procs => Ends
  BY DEF Ends
<1>2. CASE WriteFragment(c) \/ CreateConfig(c) \/ RenderConfig(c) \/ WritePidFile(c)
           \/ ReleaseIp(c) \/ RemovePidFile(c) \/ RemoveFragment(c)
  <2>1. UNCHANGED procs
    BY <1>2 DEF WriteFragment, CreateConfig, RenderConfig, WritePidFile, ReleaseIp,
                RemovePidFile, RemoveFragment
  <2>2. \E s \in Steps \ {"link", "writepid"} :
           Goto(c, s) /\ (s = "join" <=> cli[c].pc = "writepid")
    BY <1>2 DEF WriteFragment, CreateConfig, RenderConfig, WritePidFile, ReleaseIp,
                RemovePidFile, RemoveFragment, At, Steps
  <2>3. cli[c].pc \notin {"link", "join"}
    BY <1>2 DEF WriteFragment, CreateConfig, RenderConfig, WritePidFile, ReleaseIp,
                RemovePidFile, RemoveFragment, At
  <2>. QED
    BY <1>1, <2>1, <2>2, <2>3, MovePasses
<1>3. CASE ReadFragments(c)
  <2>1. cli[c].pc = "read" /\ UNCHANGED procs
    BY <1>3 DEF ReadFragments, At
  <2>2. Others(c) /\ SameHolds(c) /\ cli'[c].pc = "truncate"
    BY <1>0, <1>3 DEF ReadFragments, TypeOK, Commands, Others, SameHolds
  <2>. QED
    BY <1>1, <2>1, <2>2 DEF Passes
<1>4. CASE StopExisting(c) \/ StopEnvoy(c)
  <2>1. Ends
    BY <1>0, <1>4, KillEnds DEF StopExisting, StopEnvoy
  <2>2. \E s \in {"spawn", "rmpid", "rmfrag"} : Goto(c, s)
    BY <1>4 DEF StopExisting, StopEnvoy
  <2>3. cli[c].pc \in {"find", "stop"}
    BY <1>4 DEF StopExisting, StopEnvoy, At
  <2>. QED
    BY <2>1, <2>2, <2>3, MovePasses DEF Steps
<1>5. CASE SpawnEnvoy(c) /\ UNCHANGED procs
  <2>1. cli[c].pc = "spawn"
    BY <1>5 DEF SpawnEnvoy, At
  <2>2. Goto(c, AfterEnvoy(c))
    <3>. SUFFICES ASSUME NEW p \in FreePids,
                         procs' = [procs EXCEPT ![p] =
                            [NoProc EXCEPT !.kind = "envoy",
                                           !.routes = IF Valid(rendered)
                                                      THEN rendered ELSE {}]]
                  PROVE  FALSE
      BY <1>5 DEF SpawnEnvoy
    <3>1. procs'[p].kind = "envoy" /\ procs[p].kind = "none"
      BY <1>0 DEF TypeOK, NoProc, FreePids, Live
    <3>. QED
      BY <1>5, <3>1
  <2>. QED
    BY <1>1, <1>5, <2>1, <2>2, MovePasses DEF AfterEnvoy, Steps
<1>6. CASE KillWorkload(c)
  <2>1. cli[c].pc = "kill" /\ (Goto(c, "stop") \/ Exit(c))
    BY <1>6 DEF KillWorkload, At
  <2>2. Ends
    BY <1>0, <1>6, KillEnds DEF KillWorkload
  <2>. QED
    BY <2>1, <2>2, MovePasses, ExitPasses DEF Steps, Joining
<1>7. CASE Register(c) \/ Unregister(c)
  <2>1. cli[c].pc \in {"register", "unregister"} /\ Exit(c) /\ UNCHANGED procs
    BY <1>7 DEF Register, Unregister, At
  <2>. QED
    BY <1>1, <2>1, ExitPasses DEF Joining
<1>8. CASE Crash(c)
  <2>1. faults' > 0 /\ Exit(c) /\ UNCHANGED procs
    BY <1>0, <1>8, MaxFaultsAssumption DEF Crash, Fault, TypeOK
  <2>. QED
    BY <1>1, <2>1, ExitPasses
<1>. QED
  BY <1>2, <1>3, <1>4, <1>5, <1>6, <1>7, <1>8 DEF QuietStep

\* A process is started: p, which was free, becomes r.
Begins(p, r) ==
    /\ p \in FreePids /\ procs' = [procs EXCEPT ![p] = r]
    /\ r \in Procs /\ r.kind # "none" /\ r.addr = NoIp

LEMMA ExecBegins ==
  ASSUME TInv, NEW c \in Cmds, ExecPythonService(c) \/ ExecPostgreSQL(c)
  PROVE  \E p \in Pids, r \in Procs :
            /\ Begins(p, r) /\ r.kind # "envoy" /\ r.key = cli[c].key
            /\ Others(c) /\ cli'[c].pid = p /\ cli'[c].envoy = cli[c].envoy
            /\ cli'[c].key = cli[c].key /\ cli'[c].ip = cli[c].ip
            /\ cli[c].pc = "start" /\ cli'[c].pc \in {"link", "register"}
<1>1. /\ At(c, "start") /\ cli[c].m.type \in {"service", "db"}
      /\ \E p \in FreePids : \E next \in {"link", "register"} :
            StartWorkload(c, p, next)
  BY DEF ExecPythonService, ExecPostgreSQL
<1>2. PICK p \in FreePids : \E next \in {"link", "register"} : StartWorkload(c, p, next)
  BY <1>1
<1>3. PICK next \in {"link", "register"} : StartWorkload(c, p, next)
  BY <1>2
<1>. DEFINE r == [NoProc EXCEPT !.kind = cli[c].m.type, !.key = cli[c].key]
<1>4. /\ cli[c] \in Commands /\ p \in Pids /\ cli[c].pc = "start" /\ cli[c].key \in Keys
  BY <1>1 DEF TInv, TypeOK, FreePids, At, Shape, WellFormed, CreateSteps, DeleteSteps, EnvoySteps
<1>5. /\ r \in Procs /\ r.kind \in {"service", "db"} /\ r.addr = NoIp /\ r.key = cli[c].key
  BY <1>1, <1>4, NoProcTyped DEF NoProc, Procs
<1>6. procs' = [procs EXCEPT ![p] = r]
  BY <1>3 DEF StartWorkload
<1>. HIDE DEF r
<1>7. /\ Others(c) /\ cli'[c].pid = p /\ cli'[c].envoy = cli[c].envoy
      /\ cli'[c].key = cli[c].key /\ cli'[c].ip = cli[c].ip /\ cli'[c].pc = next
  BY <1>3, <1>4 DEF StartWorkload, TInv, TypeOK, Commands, Others
<1>. QED
  BY <1>4, <1>5, <1>6, <1>7 DEF Begins

LEMMA SpawnBegins ==
  ASSUME TInv, NEW c \in Cmds, SpawnEnvoy(c), procs' # procs
  PROVE  \E p \in Pids, r \in Procs :
            /\ Begins(p, r) /\ r.kind = "envoy" /\ r.key = Nil
            /\ Others(c) /\ cli'[c].envoy = p /\ cli'[c].pid = cli[c].pid
            /\ cli'[c].key = cli[c].key /\ cli'[c].ip = cli[c].ip
            /\ cli[c].pc = "spawn" /\ cli'[c].pc = "writepid"
<1>1. PICK p \in FreePids :
         /\ procs' = [procs EXCEPT ![p] =
                        [NoProc EXCEPT !.kind = "envoy",
                                       !.routes = IF Valid(rendered)
                                                  THEN rendered ELSE {}]]
         /\ cli' = [cli EXCEPT ![c].envoy = p, ![c].pc = "writepid"]
  BY DEF SpawnEnvoy
<1>. DEFINE r == [NoProc EXCEPT !.kind = "envoy",
                                !.routes = IF Valid(rendered) THEN rendered ELSE {}]
<1>2. r \in Procs /\ r.kind = "envoy" /\ r.key = Nil /\ r.addr = NoIp
  BY NoProcTyped DEF NoProc, Procs, TInv, TypeOK, Routes
<1>3. procs' = [procs EXCEPT ![p] = r] /\ p \in Pids /\ cli[c].pc = "spawn"
  BY <1>1 DEF FreePids, SpawnEnvoy, At
<1>. HIDE DEF r
<1>4. /\ Others(c) /\ cli'[c].envoy = p /\ cli'[c].pid = cli[c].pid
      /\ cli'[c].key = cli[c].key /\ cli'[c].ip = cli[c].ip /\ cli'[c].pc = "writepid"
  BY <1>1, <1>3 DEF TInv, TypeOK, Commands, Others
<1>. QED
  BY <1>1, <1>2, <1>3, <1>4 DEF Begins

\* A step that changes addresses only: what becomes of every process.
SameKinds ==
    \A q \in Pids : procs'[q].kind = procs[q].kind /\ procs'[q].key = procs[q].key

LEMMA ConnectKinds ==
  ASSUME TInv, NEW p, NEW a \in Addrs,
         procs' = (IF Live(p) THEN [procs EXCEPT ![p].addr = a] ELSE procs)
  PROVE  /\ SameKinds /\ \A q \in Pids \ {p} : procs'[q] = procs[q]
         /\ p \in Pids => procs'[p].addr = IF Live(p) THEN a ELSE procs[p].addr
  BY DEF TInv, TypeOK, Procs, SameKinds

LEMMA ConnectHolds ==
  ASSUME TInv, NEW c \in Cmds, ConnectWorkload(c) \/ ConnectEnvoy(c)
  PROVE  /\ Others(c) /\ SameHolds(c) /\ cli'[c].pc \notin Joining
         /\ cli[c] \in Commands /\ cli[c].pc \in {"link", "join"}
         /\ ConnectWorkload(c) => cli[c].pc = "link" /\ cli[c].pid \in Pids
<1>1. /\ cli[c].pc \in {"link", "join"} /\ cli[c] \in Commands
      /\ \E s \in {"register", "start", "unregister"} : Goto(c, s)
  BY DEF ConnectWorkload, ConnectEnvoy, At, AfterEnvoy, TInv, TypeOK
<1>2. ConnectWorkload(c) => cli[c].pc = "link" /\ cli[c].pid \in Pids
  BY <1>1 DEF ConnectWorkload, At, TInv, Shape, WellFormed, CreateSteps, DeleteSteps,
              EnvoySteps, Commands
<1>. QED
  BY <1>1, <1>2, GotoHolds DEF Steps, TInv, Joining

\* StartEnvoy gives up before it connects Envoy.
GivesUp(c) == ConnectEnvoy(c) /\ Fault /\ UNCHANGED procs

LEMMA ConnectCases ==
  ASSUME NEW c, ConnectEnvoy(c)
  PROVE  \/ procs' = (IF Live(cli[c].envoy)
                     THEN [procs EXCEPT ![cli[c].envoy].addr = EnvoyIp] ELSE procs)
         \/ GivesUp(c)
  BY DEF ConnectEnvoy, GivesUp

LEMMA GivingUpPasses ==
  ASSUME TInv, NEW c \in Cmds, GivesUp(c)
  PROVE  Passes(c)
<1>1. Others(c) /\ SameHolds(c) /\ cli'[c].pc \notin Joining
  BY ConnectHolds DEF GivesUp
<1>2. faults' > 0
  BY MaxFaultsAssumption DEF GivesUp, Fault, TInv, TypeOK
<1>. QED
  BY <1>1, <1>2 DEF Passes, GivesUp, Ends, Joining

LEMMA UnlinkEffect ==
  ASSUME TInv, NEW c \in Cmds, Unlink(c)
  PROVE  /\ Others(c) /\ (SameHolds(c) \/ HoldsNone(c)) /\ SameKinds
         /\ cli[c].pc = "unlink" /\ cli'[c].pc \in {"idle", "unlink"}
         /\ \A q \in Pids : procs'[q] = procs[q] \/ procs'[q].addr = NoIp
<1>1. PICK l \in cli[c].links :
         /\ procs' = IF procs[l[1]].key = l[2]
                     THEN [procs EXCEPT ![l[1]].addr = NoIp] ELSE procs
         /\ IF cli[c].links = {l}
            THEN Exit(c)
            ELSE cli' = [cli EXCEPT ![c].links = @ \ {l}]
  BY DEF Unlink
<1>2. SameKinds /\ \A q \in Pids : procs'[q] = procs[q] \/ procs'[q].addr = NoIp
  BY <1>1 DEF TInv, TypeOK, Procs, SameKinds
<1>3. cli[c].pc = "unlink" /\ TypeOK
  BY DEF Unlink, At, TInv
<1>4. CASE cli' = [cli EXCEPT ![c].links = @ \ {l}]
  BY <1>2, <1>3, <1>4 DEF TypeOK, Commands, Others, SameHolds
<1>. QED
  BY <1>1, <1>2, <1>3, <1>4, ExitHolds

-----------------------------------------------------------------------------
(* Whose process a pid is *)

\* A pid that a command holds is its own workload's or gateway's, or a dead one's.
OwnProcess(c) ==
    /\ cli[c].pid # Nil =>
          LET r == procs[cli[c].pid]
          IN  r.kind = "none" \/ (r.kind # "envoy" /\ r.key = cli[c].key)
    /\ cli[c].envoy # Nil => procs[cli[c].envoy].kind \in {"none", "envoy"}

\* No pid is held twice.
HeldOnce ==
    \A c, d \in Cmds :
        /\ cli[c].pid # Nil => cli[c].pid # cli[d].envoy
        /\ cli[c].pid # Nil /\ cli[d].pid = cli[c].pid => d = c
        /\ cli[c].envoy # Nil /\ cli[d].envoy = cli[c].envoy => d = c

\* What a command is about to connect has no address yet.
Unconnected(c) ==
    /\ cli[c].pc = "link" => procs[cli[c].pid].addr = NoIp
    /\ cli[c].pc \in {"writepid", "join"} =>
          cli[c].envoy \in Pids /\ procs[cli[c].envoy].addr = NoIp

\* The inductive invariant behind connections.
PInv == HeldOnce /\ \A c \in Cmds : OwnProcess(c) /\ Unconnected(c)

LEMMA InitOwn == Init => PInv
  BY DEF Init, PInv, HeldOnce, OwnProcess, Unconnected, Idle

\* One command keeps what it holds or lets go of it, and processes keep their kinds
\* or end.
LEMMA HoldStep ==
  ASSUME TInv, PInv, NEW c \in Cmds, Others(c), SameHolds(c) \/ HoldsNone(c),
         Ends \/ SameKinds
  PROVE  HeldOnce' /\ \A d \in Cmds : OwnProcess(d)'
<1>1. \A d \in Cmds : /\ cli'[d].pid \in {cli[d].pid, Nil}
                      /\ cli'[d].envoy \in {cli[d].envoy, Nil}
                      /\ cli'[d].pid # Nil => cli'[d].key = cli[d].key
                      /\ cli[d].pid \in Pids \cup {Nil} /\ cli[d].envoy \in Pids \cup {Nil}
  BY DEF Others, SameHolds, HoldsNone, TInv, TypeOK, Commands
<1>2. HeldOnce'
  BY <1>1 DEF PInv, HeldOnce
<1>3. \A q \in Pids : \/ procs'[q].kind = procs[q].kind /\ procs'[q].key = procs[q].key
                      \/ procs'[q].kind = "none"
  BY DEF Ends, SameKinds, NoProc
<1>4. \A d \in Cmds : OwnProcess(d)'
  BY <1>1, <1>3 DEF PInv, OwnProcess
<1>. QED
  BY <1>2, <1>4

LEMMA PassesOwn ==
  ASSUME TInv, PInv, NEW c \in Cmds, Passes(c)
  PROVE  PInv'
<1>1. HeldOnce' /\ \A d \in Cmds : OwnProcess(d)'
  BY HoldStep DEF Passes
<1>2. ASSUME NEW d \in Cmds PROVE Unconnected(d)'
  <2>1. cli[d].pid \in Pids \cup {Nil} /\ (cli[d].pc = "link" => cli[d].pid \in Pids)
    BY DEF TInv, TypeOK, Commands, Shape, WellFormed, CreateSteps, DeleteSteps, EnvoySteps
  <2>2. CASE d # c
    <3>1. cli'[d] = cli[d] /\ Unconnected(d)
      BY <2>2 DEF Passes, Others, PInv
    <3>. QED
      BY <2>1, <3>1 DEF Passes, Ends, Unconnected, NoProc
  <2>3. CASE d = c
    <3>1. cli'[c].pc \notin {"link", "writepid"}
      BY DEF Passes
    <3>2. cli'[c].pc = "join" =>
             /\ cli'[c].envoy = cli[c].envoy /\ cli[c].pc = "writepid"
             /\ cli[c].envoy \in Pids /\ procs[cli[c].envoy].addr = NoIp
      BY DEF Passes, SameHolds, PInv, Unconnected
    <3>. QED
      BY <2>3, <3>1, <3>2 DEF Unconnected, Passes, Ends, NoProc
  <2>. QED
    BY <2>2, <2>3
<1>. QED
  BY <1>1, <1>2 DEF PInv

\* A step in which no command moves.
LEMMA RestOwn ==
  ASSUME TInv, PInv, UNCHANGED cli, Ends
  PROVE  PInv'
<1>1. HeldOnce'
  BY DEF PInv, HeldOnce
<1>2. ASSUME NEW d \in Cmds PROVE OwnProcess(d)' /\ Unconnected(d)'
  <2>1. /\ cli[d].pid \in Pids \cup {Nil} /\ cli[d].envoy \in Pids \cup {Nil}
        /\ cli[d].pc = "link" => cli[d].pid \in Pids
        /\ OwnProcess(d) /\ Unconnected(d)
    BY DEF TInv, TypeOK, Commands, Shape, WellFormed, CreateSteps, DeleteSteps, EnvoySteps,
           PInv
  <2>. QED
    BY <2>1 DEF Ends, OwnProcess, Unconnected, NoProc
<1>. QED
  BY <1>1, <1>2 DEF PInv

\* A process that is started has a pid that nobody holds.
LEMMA BeginOwn ==
  ASSUME TInv, PInv, NEW c \in Cmds, NEW p \in Pids, NEW r \in Procs, Begins(p, r),
         Others(c), cli'[c].key = cli[c].key,
         \/ /\ cli'[c].pid = p /\ cli'[c].envoy = cli[c].envoy
            /\ r.kind # "envoy" /\ r.key = cli[c].key
            /\ cli'[c].pc \in {"link", "register"}
         \/ /\ cli'[c].envoy = p /\ cli'[c].pid = cli[c].pid
            /\ r.kind = "envoy" /\ cli'[c].pc = "writepid"
  PROVE  PInv'
<1>1. /\ p # Nil /\ procs'[p] = r /\ r.addr = NoIp
      /\ \A q \in Pids \ {p} : procs'[q] = procs[q]
      /\ \A d \in Cmds : cli[d].pid # p /\ cli[d].envoy # p
  BY NilAssumption DEF Begins, FreePids, Held, TInv, TypeOK
<1>2. \A d \in Cmds : /\ cli[d].pid \in Pids \cup {Nil} /\ cli[d].envoy \in Pids \cup {Nil}
                      /\ cli[d].pc = "link" => cli[d].pid \in Pids
  BY DEF TInv, TypeOK, Commands, Shape, WellFormed, CreateSteps, DeleteSteps, EnvoySteps
<1>3. HeldOnce'
  BY <1>1 DEF Others, PInv, HeldOnce
<1>4. ASSUME NEW d \in Cmds \ {c} PROVE OwnProcess(d)' /\ Unconnected(d)'
  <2>1. cli'[d] = cli[d] /\ OwnProcess(d) /\ Unconnected(d)
    BY DEF Others, PInv
  <2>. QED
    BY <1>1, <1>2, <2>1 DEF OwnProcess, Unconnected
<1>5. OwnProcess(c)' /\ Unconnected(c)'
  <2>1. OwnProcess(c)
    BY DEF PInv
  <2>. QED
    BY <1>1, <1>2, <2>1 DEF OwnProcess, Unconnected
<1>. QED
  BY <1>3, <1>4, <1>5 DEF PInv

\* Connecting a process is done with a pid that nobody else holds.
LEMMA ConnectOwn ==
  ASSUME TInv, PInv, NEW c \in Cmds, ConnectWorkload(c) \/ ConnectEnvoy(c)
  PROVE  PInv'
<1>1. /\ Others(c) /\ SameHolds(c) /\ cli'[c].pc \notin Joining /\ cli[c] \in Commands
  BY ConnectHolds
<1>. SUFFICES ASSUME ~GivesUp(c) PROVE PInv'
  BY GivingUpPasses, PassesOwn
<1>2. \E p \in {cli[c].pid, cli[c].envoy} :
         SameKinds /\ \A q \in Pids \ {p} : procs'[q] = procs[q]
  <2>1. ASSUME ConnectWorkload(c)
        PROVE  SameKinds /\ \A q \in Pids \ {cli[c].pid} : procs'[q] = procs[q]
    BY <1>1, <2>1, ConnectKinds DEF ConnectWorkload, Commands
  <2>2. ASSUME ConnectEnvoy(c)
        PROVE  SameKinds /\ \A q \in Pids \ {cli[c].envoy} : procs'[q] = procs[q]
    BY <2>2, ConnectCases, ConnectKinds, HostFacts
  <2>. QED
    BY <2>1, <2>2
<1>3. HeldOnce' /\ \A d \in Cmds : OwnProcess(d)'
  BY <1>1, <1>2, HoldStep
<1>4. ASSUME NEW d \in Cmds PROVE Unconnected(d)'
  <2>1. CASE d = c
    BY <1>1, <2>1 DEF Unconnected, Joining
  <2>2. CASE d # c
    <3>1. /\ cli'[d] = cli[d] /\ Unconnected(d)
          /\ cli[d].pc = "link" => cli[d].pid \in Pids
      BY <1>1, <2>2 DEF Others, PInv, TInv, TypeOK, Commands, Shape, WellFormed,
                        CreateSteps, DeleteSteps, EnvoySteps
    <3>2. /\ cli[d].pid \in Pids => cli[d].pid \notin {cli[c].pid, cli[c].envoy}
          /\ cli[d].envoy \in Pids => cli[d].envoy \notin {cli[c].pid, cli[c].envoy}
      BY <2>2, NilAssumption DEF PInv, HeldOnce
    <3>. QED
      BY <1>2, <3>1, <3>2 DEF Unconnected
  <2>. QED
    BY <2>1, <2>2
<1>. QED
  BY <1>3, <1>4 DEF PInv

LEMMA UnlinkOwn ==
  ASSUME TInv, PInv, NEW c \in Cmds, Unlink(c)
  PROVE  PInv'
<1>1. /\ Others(c) /\ (SameHolds(c) \/ HoldsNone(c)) /\ SameKinds
      /\ cli'[c].pc \in {"idle", "unlink"}
      /\ \A q \in Pids : procs'[q] = procs[q] \/ procs'[q].addr = NoIp
  BY UnlinkEffect
<1>2. HeldOnce' /\ \A d \in Cmds : OwnProcess(d)'
  BY <1>1, HoldStep
<1>3. ASSUME NEW d \in Cmds PROVE Unconnected(d)'
  <2>1. /\ Unconnected(d) /\ (cli[d].pc = "link" => cli[d].pid \in Pids)
    BY DEF PInv, TInv, TypeOK, Commands, Shape, WellFormed, CreateSteps, DeleteSteps,
           EnvoySteps
  <2>. QED
    BY <1>1, <2>1 DEF Others, Unconnected
<1>. QED
  BY <1>2, <1>3 DEF PInv

LEMMA OutsideEnds ==
  ASSUME TInv, Outside \/ UNCHANGED vars
  PROVE  UNCHANGED cli /\ Ends
<1>1. ASSUME NEW p \in Pids, Stops(p) \/ ProcessExits(p) PROVE UNCHANGED cli /\ Ends
  BY <1>1, KillEnds DEF Stops, ProcessExits, TInv
<1>2. CASE RedisDown \/ RedisBack \/ UNCHANGED vars
  BY <1>2 DEF RedisDown, RedisBack, vars, Ends
<1>. QED
  BY <1>1, <1>2 DEF Outside

\* The steps of the specification, by what they do to processes and to what
\* commands hold.
LEMMA HoldCases ==
  ASSUME TInv, [Next]_vars
  PROVE  \/ \E c \in Cmds : \/ Passes(c) \/ Unlink(c)
                            \/ ConnectWorkload(c) \/ ConnectEnvoy(c)
                            \/ ExecPythonService(c) \/ ExecPostgreSQL(c)
                            \/ SpawnEnvoy(c) /\ procs' # procs
         \/ UNCHANGED cli /\ Ends
  BY NextCases, BeginPasses, StepPasses, OutsideEnds

LEMMA NextOwn == TInv /\ PInv /\ [Next]_vars => PInv'
  BY HoldCases, PassesOwn, UnlinkOwn, ConnectOwn, ExecBegins, SpawnBegins, BeginOwn, RestOwn

-----------------------------------------------------------------------------
(* Paas implements Connection *)

\* What Connection lets happen to one process.
Change(p) == \/ Net!Start(p) \/ Net!Connect(p) \/ Net!End(p) \/ Net!Fail(p) \/ Net!Cut(p)
             \/ ConnectionOf'[p] = ConnectionOf[p]

LEMMA StatusDef ==
  ASSUME NEW p \in Pids
  PROVE  /\ ConnectionOf[p] = IF ~Live(p) THEN "none"
                              ELSE IF procs[p].addr # NoIp THEN "connected"
                              ELSE IF BeingConnected(p) THEN "connecting" ELSE "isolated"
         /\ ConnectionOf'[p] = IF ~Live(p)' THEN "none"
                               ELSE IF procs'[p].addr # NoIp THEN "connected"
                               ELSE IF BeingConnected(p)' THEN "connecting"
                                    ELSE "isolated"
  BY DEF ConnectionOf

LEMMA SameStatus ==
  ASSUME NEW p \in Pids, procs'[p].kind = procs[p].kind, procs'[p].addr = procs[p].addr,
         BeingConnected(p)' <=> BeingConnected(p)
  PROVE  Change(p)
  BY StatusDef DEF Change, Live

LEMMA EndStatus ==
  ASSUME NEW p \in Pids, procs'[p] = NoProc
  PROVE  Change(p)
<1>1. ConnectionOf'[p] = "none"
  BY StatusDef DEF Live, NoProc
<1>. QED
  BY <1>1 DEF Change, Net!End

\* The command that is about to connect p is one that moves, or stays.
LEMMA BeingKept ==
  ASSUME NEW c \in Cmds, Others(c), NEW p \in Pids,
         \/ cli[c].pid = p /\ cli[c].pc = "link" /\ cli[c].ip # NoIp
         \/ cli[c].envoy = p /\ cli[c].pc \in {"writepid", "join"}
         <=> \/ cli'[c].pid = p /\ cli'[c].pc = "link" /\ cli'[c].ip # NoIp
             \/ cli'[c].envoy = p /\ cli'[c].pc \in {"writepid", "join"}
  PROVE  BeingConnected(p)' <=> BeingConnected(p)
  BY DEF BeingConnected, Others, At

LEMMA PassesNet ==
  ASSUME TInv, NEW c \in Cmds, Passes(c), NEW p \in Pids
  PROVE  Change(p)
<1>1. CASE procs'[p] = NoProc
  BY <1>1, EndStatus
<1>2. CASE /\ procs'[p] = procs[p] /\ SameHolds(c) /\ cli[c].pc \notin {"link", "join"}
           /\ cli'[c].pc = "join" <=> cli[c].pc = "writepid"
  <2>1. \/ cli[c].pid = p /\ cli[c].pc = "link" /\ cli[c].ip # NoIp
        \/ cli[c].envoy = p /\ cli[c].pc \in {"writepid", "join"}
        <=> \/ cli'[c].pid = p /\ cli'[c].pc = "link" /\ cli'[c].ip # NoIp
            \/ cli'[c].envoy = p /\ cli'[c].pc \in {"writepid", "join"}
    BY <1>2 DEF Passes, SameHolds
  <2>. QED
    BY <1>2, <2>1, BeingKept, SameStatus DEF Passes
<1>3. CASE /\ procs'[p] = procs[p] /\ cli'[c].pc # "join"
           /\ cli[c].pc \in Joining => faults' > 0
  <2>1. cli'[c].pc \notin Joining
    BY <1>3 DEF Passes, Joining
  <2>2. CASE \/ cli[c].pid = p /\ cli[c].pc = "link" /\ cli[c].ip # NoIp
             \/ cli[c].envoy = p /\ cli[c].pc \in {"writepid", "join"}
    <3>1. faults' > 0
      BY <1>3, <2>2 DEF Joining
    <3>2. BeingConnected(p)
      BY <2>2 DEF BeingConnected, At
    <3>3. \/ ConnectionOf'[p] = ConnectionOf[p]
          \/ ConnectionOf[p] = "connecting" /\ ConnectionOf'[p] = "isolated"
      BY <1>3, <3>2, StatusDef DEF Live
    <3>. QED
      BY <3>1, <3>3 DEF Change, Net!Fail
  <2>3. CASE ~ \/ cli[c].pid = p /\ cli[c].pc = "link" /\ cli[c].ip # NoIp
               \/ cli[c].envoy = p /\ cli[c].pc \in {"writepid", "join"}
    BY <1>3, <2>1, <2>3, BeingKept, SameStatus DEF Passes, Joining
  <2>. QED
    BY <2>2, <2>3
<1>. QED
  BY <1>1, <1>2, <1>3 DEF Passes, Ends

LEMMA RestNet ==
  ASSUME UNCHANGED cli, Ends, NEW p \in Pids
  PROVE  Change(p)
<1>1. BeingConnected(p)' <=> BeingConnected(p)
  BY DEF BeingConnected, At
<1>. QED
  BY <1>1, EndStatus, SameStatus DEF Ends

LEMMA BeingUnconnected ==
  ASSUME PInv, NEW p \in Pids, BeingConnected(p)
  PROVE  procs[p].addr = NoIp
  BY DEF PInv, Unconnected, BeingConnected, At

LEMMA UnlinkNet ==
  ASSUME TInv, PInv, NEW c \in Cmds, Unlink(c), NEW p \in Pids
  PROVE  Change(p)
<1>1. /\ Others(c) /\ SameKinds /\ cli[c].pc = "unlink" /\ cli'[c].pc \in {"idle", "unlink"}
      /\ procs'[p] = procs[p] \/ procs'[p].addr = NoIp
  BY UnlinkEffect
<1>2. BeingConnected(p)' <=> BeingConnected(p)
  BY <1>1, BeingKept
<1>3. procs'[p].kind = procs[p].kind
  BY <1>1 DEF SameKinds
<1>4. CASE procs'[p].addr = procs[p].addr
  BY <1>2, <1>3, <1>4, SameStatus
<1>5. CASE procs'[p].addr = NoIp /\ procs[p].addr # NoIp
  <2>1. ~BeingConnected(p)
    BY <1>5, BeingUnconnected
  <2>2. \/ ConnectionOf'[p] = ConnectionOf[p]
        \/ ConnectionOf[p] = "connected" /\ ConnectionOf'[p] = "isolated"
    BY <1>2, <1>3, <1>5, <2>1, StatusDef DEF Live
  <2>. QED
    BY <1>1, <2>2 DEF Change, Net!Cut, At
<1>. QED
  BY <1>1, <1>4, <1>5

LEMMA ConnectNet ==
  ASSUME TInv, PInv, NEW c \in Cmds, ConnectWorkload(c) \/ ConnectEnvoy(c), NEW p \in Pids
  PROVE  Change(p)
<1>. DEFINE Mine == \/ cli[c].pid = p /\ cli[c].pc = "link" /\ cli[c].ip # NoIp
                    \/ cli[c].envoy = p /\ cli[c].pc \in {"writepid", "join"}
<1>1. /\ Others(c) /\ cli[c] \in Commands /\ cli'[c].pc \notin Joining
  BY ConnectHolds
<1>. SUFFICES ASSUME ~GivesUp(c) PROVE Change(p)
  BY GivingUpPasses, PassesNet
<1>2. \E a \in Addrs, q \in {cli[c].pid, cli[c].envoy} :
         /\ procs' = (IF Live(q) THEN [procs EXCEPT ![q].addr = a] ELSE procs)
         /\ Mine => q = p /\ a # NoIp
         /\ q = p /\ ~Mine => a = procs[p].addr
  <2>1. CASE ConnectWorkload(c)
    BY <1>1, <2>1 DEF ConnectWorkload, At, Commands, PInv, Unconnected
  <2>2. CASE ConnectEnvoy(c)
    BY <1>1, <2>2, ConnectCases, HostFacts DEF ConnectEnvoy, At, EnvoyIp, NoIp
  <2>. QED
    BY <2>1, <2>2
<1>3. PICK a \in Addrs, q \in {cli[c].pid, cli[c].envoy} :
         /\ procs' = (IF Live(q) THEN [procs EXCEPT ![q].addr = a] ELSE procs)
         /\ Mine => q = p /\ a # NoIp
         /\ q = p /\ ~Mine => a = procs[p].addr
  BY <1>2
<1>4. /\ SameKinds /\ \A x \in Pids \ {q} : procs'[x] = procs[x]
      /\ q \in Pids => procs'[q].addr = IF Live(q) THEN a ELSE procs[q].addr
  BY <1>3, ConnectKinds
<1>5. CASE ~Mine
  <2>1. BeingConnected(p)' <=> BeingConnected(p)
    BY <1>1, <1>5, BeingKept DEF Joining
  <2>2. procs'[p].kind = procs[p].kind /\ procs'[p].addr = procs[p].addr
    BY <1>3, <1>4, <1>5 DEF SameKinds
  <2>. QED
    BY <2>1, <2>2, SameStatus
<1>6. CASE Mine
  <2>1. BeingConnected(p)
    BY <1>6 DEF BeingConnected, At
  <2>2. procs[p].addr = NoIp /\ procs'[p].kind = procs[p].kind
        /\ (Live(p) => procs'[p].addr # NoIp)
    BY <1>3, <1>4, <1>6, <2>1, BeingUnconnected DEF SameKinds
  <2>3. \/ ConnectionOf'[p] = ConnectionOf[p]
        \/ ConnectionOf[p] = "connecting" /\ ConnectionOf'[p] = "connected"
    BY <2>1, <2>2, StatusDef DEF Live
  <2>. QED
    BY <2>3 DEF Change, Net!Connect
<1>. QED
  BY <1>5, <1>6

LEMMA BeginNet ==
  ASSUME TInv, NEW c \in Cmds, NEW q \in Pids, NEW r \in Procs, Begins(q, r), Others(c),
         cli[c].pc \notin Joining,
         \/ cli'[c].pid = q /\ cli'[c].pc \in {"link", "register"}
         \/ cli'[c].envoy = q /\ cli'[c].pc = "writepid",
         NEW p \in Pids
  PROVE  Change(p)
<1>1. /\ procs'[q] = r /\ r.kind # "none" /\ r.addr = NoIp /\ ~Live(q)
      /\ \A x \in Pids \ {q} : procs'[x] = procs[x]
  BY DEF Begins, FreePids, TInv, TypeOK
<1>2. CASE p = q
  <2>1. ConnectionOf[p] = "none" /\ ConnectionOf'[p] \in {"connecting", "isolated"}
    BY <1>1, <1>2, StatusDef DEF Live
  <2>. QED
    BY <2>1 DEF Change, Net!Start
<1>3. CASE p # q
  <2>1. BeingConnected(p)' <=> BeingConnected(p)
    BY <1>3, BeingKept DEF Joining
  <2>. QED
    BY <1>1, <1>3, <2>1, SameStatus
<1>. QED
  BY <1>2, <1>3

LEMMA FaultsKept ==
  ASSUME TInv, [Next]_vars
  PROVE  faults > 0 => faults' > 0
<1>1. faults \in Nat
  BY MaxFaultsAssumption DEF TInv, TypeOK
<1>2. faults' \in {faults, faults + 1}
  <2>1. ASSUME NEW c \in Cmds PROVE Crash(c) => faults' = faults + 1
    BY DEF Crash, Fault
  <2>2. ASSUME NEW c \in Cmds PROVE Step(c) => faults' \in {faults, faults + 1}
    BY DEF Step, WriteFragment, ReadFragments, CreateConfig, RenderConfig, StopExisting,
       SpawnEnvoy, WritePidFile, ConnectEnvoy, ExecPythonService, ExecPostgreSQL,
       StartWorkload, ConnectWorkload, Register, ReleaseIp, KillWorkload, StopEnvoy,
       RemovePidFile, RemoveFragment, Unregister, Unlink, Fault
  <2>3. ASSUME NEW c \in Cmds
        PROVE  /\ \A m \in Manifests : RunCreate(c, m) => faults' \in {faults, faults + 1}
               /\ \A k \in Keys : RunDelete(c, k) => faults' = faults
               /\ RunCleanup(c) => faults' = faults
    BY DEF RunCreate, GetIp, Fault, RunDelete, RunCleanup
  <2>4. \A p \in Pids : Stops(p) \/ ProcessExits(p) => faults' \in {faults, faults + 1}
    BY DEF Stops, ProcessExits, Fault
  <2>5. /\ RedisDown => faults' = faults + 1
        /\ RedisBack \/ UNCHANGED vars => faults' = faults
    BY DEF RedisDown, RedisBack, Fault, vars
  <2>. QED
    BY <2>1, <2>2, <2>3, <2>4, <2>5 DEF Next
<1>. QED
  BY <1>1, <1>2

\* Whatever commands run at the same time (cleanup, and several for one name,
\* included) and whatever fails, every process is connected by the command that
\* started it, once and for as long as it lives, unless the command is cut off or
\* cleanup disconnects it.  There are no assumptions.
THEOREM Connections == Spec => ProcessesConnected
<1>1. Init => TInv /\ PInv /\ Net!Init
  <2>1. ASSUME Init PROVE Net!Init
    <3>1. ASSUME NEW p \in Pids PROVE ~Live(p)
      BY <2>1 DEF Init, Live, NoProc
    <3>2. ConnectionOf = [p \in Pids |-> "none"]
      BY <3>1 DEF ConnectionOf
    <3>3. ~(faults > 0) /\ ~(\E c \in Cmds : At(c, "unlink"))
      BY <2>1 DEF Init, At, Idle
    <3>. QED
      BY <3>2, <3>3 DEF Net!Init
  <2>. QED
    BY <2>1, InitTyped, InitOwn
<1>2. TInv /\ PInv /\ [Next]_vars => TInv' /\ PInv'
  BY NextTyped, NextOwn
<1>3. TInv /\ PInv /\ [Next]_vars => Net!Next
  <2>. SUFFICES ASSUME TInv, PInv, [Next]_vars PROVE Net!Next
    OBVIOUS
  <2>1. ASSUME NEW p \in Pids PROVE Change(p)
    <3>1. ASSUME NEW c \in Cmds, ExecPythonService(c) \/ ExecPostgreSQL(c)
          PROVE  Change(p)
      BY <3>1, ExecBegins, BeginNet DEF Joining
    <3>2. ASSUME NEW c \in Cmds, SpawnEnvoy(c), procs' # procs
          PROVE  Change(p)
      BY <3>2, SpawnBegins, BeginNet DEF Joining
    <3>. QED
      BY <3>1, <3>2, HoldCases, PassesNet, RestNet, UnlinkNet, ConnectNet
  <2>. QED
    BY <2>1, FaultsKept DEF Net!Next, Change
<1>. QED
  BY <1>1, <1>2, <1>3, PTL DEF Spec, ProcessesConnected, Net!Spec

-----------------------------------------------------------------------------
(* Addresses of interfaces, without faults *)

\* Delete has given the address of process p back and is about to kill p.
Killed(c, p) == /\ cli[c].pc = "kill" /\ cli[c].key = procs[p].key
                /\ cli[c].entry.pid = p /\ cli[c].entry.ip = procs[p].addr

\* The address of an interface is its workload's, or just was.
Leased ==
    \A p \in Workloads : \/ procs[p].addr = NoIp
                         \/ procs[p].addr = AddressOf[procs[p].key]
                         \/ \E c \in Cmds : Killed(c, p)

\* A delete that is about to kill stays there, or its process is gone.
KillsKept ==
    \A c \in Cmds : cli[c].pc = "kill" =>
        \/ /\ cli'[c].pc = "kill" /\ cli'[c].key = cli[c].key
           /\ cli'[c].entry = cli[c].entry
        \/ procs'[cli[c].entry.pid].kind = "none"

\* No workload becomes connected.
NoneConnected ==
    \A q \in Pids : \/ procs'[q].kind \notin {"service", "db"}
                    \/ procs'[q].addr = NoIp
                    \/ procs'[q] = procs[q]

LEMMA InitLeases == Init => Leased
  BY DEF Init, Leased, Workloads, NoProc

LEMMA KillsKeptStep ==
  ASSUME NEW c \in Cmds, Others(c), cli[c].pc # "kill"
  PROVE  KillsKept
  BY DEF KillsKept, Others

LEMMA EndsConnectNone == Ends => NoneConnected
  BY DEF Ends, NoneConnected, NoProc

\* A step that moves no address and connects no workload.
LEMMA LeaseStep ==
  ASSUME Leased, AddressOf' = AddressOf, KillsKept, NoneConnected
  PROVE  Leased'
<1>. SUFFICES ASSUME NEW q \in Workloads', procs'[q].addr # NoIp
              PROVE  \/ procs'[q].addr = AddressOf'[procs'[q].key]
                     \/ \E c \in Cmds : Killed(c, q)'
  BY DEF Leased
<1>1. procs'[q] = procs[q] /\ q \in Workloads
  BY DEF Workloads, NoneConnected
<1>2. CASE procs[q].addr = AddressOf[procs[q].key]
  BY <1>1, <1>2
<1>3. ASSUME NEW c \in Cmds, Killed(c, q) PROVE Killed(c, q)'
  BY <1>1, <1>3 DEF Killed, KillsKept, Workloads
<1>. QED
  BY <1>1, <1>2, <1>3 DEF Leased

\* A workload's address is granted when it has none.
LEMMA GrantLeases ==
  ASSUME TInv, Keyed, Leased, KillsKept, UNCHANGED procs,
         NEW k \in Keys, NEW a \in Hosts, GrantMove(k, a)
  PROVE  Leased'
<1>1. AddressOf[k] = NoIp /\ \A j \in Keys \ {k} : AddressOf'[j] = AddressOf[j]
  BY HeldDef DEF GrantMove
<1>. SUFFICES ASSUME NEW q \in Workloads, procs[q].addr # NoIp
              PROVE  \/ procs[q].addr = AddressOf'[procs[q].key]
                     \/ \E c \in Cmds : Killed(c, q)'
  BY DEF Leased, Workloads
<1>2. procs[q].key \in Keys
  BY DEF TInv, TypeOK, Procs, Workloads, Keyed
<1>3. CASE procs[q].addr = AddressOf[procs[q].key]
  BY <1>1, <1>2, <1>3
<1>4. ASSUME NEW c \in Cmds, Killed(c, q) PROVE Killed(c, q)'
  BY <1>4 DEF Killed, KillsKept, Workloads
<1>. QED
  BY <1>3, <1>4 DEF Leased

\* What delete gives back is the address of the process it is about to kill.
LEMMA ReleaseLeases ==
  ASSUME MaxFaults = 0, TInv, DInv, AInv, HInv, Leased, NEW c \in Cmds, ReleaseIp(c)
  PROVE  Leased' /\ AddressOf[cli[c].key] = cli[c].entry.ip
<1>. DEFINE k == cli[c].key
            a == AddressOf[k]
<1>1. /\ cli[c].pc = "release" /\ cli[c].m = Nil /\ k \in Keys
      /\ cli[c].entry \in Entries /\ UNCHANGED procs /\ Goto(c, "kill") /\ "kill" \in Steps
  BY DEF ReleaseIp, At, TInv, Shape, WellFormed, CreateSteps, DeleteSteps, EnvoySteps, Steps
<1>2. /\ cli'[c].pc = "kill" /\ cli'[c].key = k /\ cli'[c].entry = cli[c].entry
      /\ Others(c)
  BY <1>1, GotoEffect DEF TInv, Keeps, Others
<1>3. AddressOf'[k] = NoIp /\ \A j \in Keys \ {k} : AddressOf'[j] = AddressOf[j]
  BY <1>1, HeldDef, ReleaseMoves DEF AInv, ReturnMove, LoseMove
<1>4. registry[k] = cli[c].entry /\ registry[k] # Nil /\ Alone(cli, c, k)
  BY <1>1, EntryAssumption, KeyAssumption DEF DInv, EntryHeld, OneCommand, Alone
<1>5. a = cli[c].entry.ip
  <2>1. HeldIn(cli, registry, k) = registry[k].ip
    BY <1>1, <1>4, HeldByDelete
  <2>. QED
    BY <1>1, <1>4, <2>1, HeldDef
<1>. HIDE DEF k, a
<1>6. Leased'
  <2>. SUFFICES ASSUME NEW q \in Workloads, procs[q].addr # NoIp
                PROVE  \/ procs[q].addr = AddressOf'[procs[q].key]
                       \/ \E d \in Cmds : Killed(d, q)'
    BY <1>1 DEF Leased, Workloads
  <2>1. procs[q].key \in Keys /\ procs[q].key # Nil /\ q \in Pids
    BY KeyAssumption DEF AInv, Keyed, TInv, TypeOK, Procs, Workloads
  <2>2. ASSUME NEW d \in Cmds, Killed(d, q) PROVE Killed(d, q)'
    BY <1>1, <1>2, <2>2 DEF Killed, Others
  <2>3. CASE procs[q].addr = AddressOf[procs[q].key] /\ procs[q].key # k
    BY <1>3, <2>1, <2>3
  <2>4. CASE procs[q].addr = AddressOf[procs[q].key] /\ procs[q].key = k
    <3>1. ~Started(q)
      BY <1>1, <1>4, <2>4 DEF Started, Alone
    <3>2. cli[c].entry.pid = q
      BY <1>4, <2>1, <2>4, <3>1 DEF AInv, Accounted, Recorded
    <3>3. Killed(c, q)'
      BY <1>1, <1>2, <1>5, <2>4, <3>2 DEF Killed, a
    <3>. QED
      BY <3>3
  <2>. QED
    BY <2>2, <2>3, <2>4 DEF Leased
<1>. QED
  BY <1>5, <1>6 DEF k, a

\* The workload that is connected gets the address that its create was given.
LEMMA ConnectLeases ==
  ASSUME TInv, DInv, PInv, Leased, AddressOf' = AddressOf, NEW c \in Cmds,
         ConnectWorkload(c) \/ ConnectEnvoy(c)
  PROVE  Leased'
<1>1. /\ Others(c) /\ cli[c].pc \in {"link", "join"} /\ cli[c] \in Commands
      /\ ConnectWorkload(c) => cli[c].pc = "link" /\ cli[c].pid \in Pids
  BY ConnectHolds
<1>2. KillsKept
  BY <1>1, KillsKeptStep
<1>3. CASE ConnectEnvoy(c)
  <2>1. cli[c].pc = "join"
    BY <1>3 DEF ConnectEnvoy, At
  <2>2. cli[c].envoy \in Pids /\ procs[cli[c].envoy].kind \in {"none", "envoy"}
    BY <2>1, NilAssumption DEF PInv, OwnProcess, Unconnected
  <2>3. SameKinds /\ \A q \in Pids \ {cli[c].envoy} : procs'[q] = procs[q]
    <3>1. UNCHANGED procs => SameKinds
      BY DEF SameKinds
    <3>. QED
      BY <1>3, <3>1, ConnectCases, ConnectKinds, HostFacts DEF GivesUp
  <2>4. NoneConnected
    BY <2>2, <2>3 DEF NoneConnected, SameKinds
  <2>. QED
    BY <1>2, <2>4, LeaseStep
<1>4. CASE ConnectWorkload(c) /\ ~Live(cli[c].pid)
  <2>1. NoneConnected
    BY <1>4 DEF ConnectWorkload, NoneConnected
  <2>. QED
    BY <1>2, <2>1, LeaseStep
<1>5. CASE ConnectWorkload(c) /\ Live(cli[c].pid)
  <2>. DEFINE p == cli[c].pid
              k == cli[c].key
  <2>1. cli[c].pc = "link" /\ p \in Pids /\ p # Nil
    BY <1>1, <1>5, NilAssumption
  <2>2. k \in Keys /\ cli[c].m # Nil
    BY <2>1, NilAssumption
       DEF TInv, Shape, WellFormed, CreateSteps, DeleteSteps, EnvoySteps
  <2>3. procs[p].key = k
    BY <1>5, <2>1 DEF PInv, OwnProcess, Live
  <2>4. AddressOf[k] = cli[c].ip
    <3>1. Alone(cli, c, k)
      BY <2>2, KeyAssumption DEF DInv, OneCommand, Alone
    <3>2. HeldIn(cli, registry, k) = cli[c].ip
      BY <2>2, <3>1, HeldByCreate
    <3>. QED
      BY <2>2, <3>2, HeldDef
  <2>5. SameKinds /\ procs'[p].addr = cli[c].ip /\ \A q \in Pids \ {p} : procs'[q] = procs[q]
    <3>1. /\ cli[c].ip \in Addrs /\ Live(p)
          /\ procs' = (IF Live(p) THEN [procs EXCEPT ![p].addr = cli[c].ip] ELSE procs)
      BY <1>1, <1>5 DEF ConnectWorkload, Commands
    <3>. HIDE DEF p
    <3>. QED
      BY <2>1, <3>1, ConnectKinds
  <2>. HIDE DEF p, k
  <2>. SUFFICES ASSUME NEW q \in Workloads', procs'[q].addr # NoIp
                PROVE  \/ procs'[q].addr = AddressOf'[procs'[q].key]
                       \/ \E d \in Cmds : Killed(d, q)'
    BY DEF Leased
  <2>6. CASE q = p
    BY <2>1, <2>3, <2>4, <2>5, <2>6 DEF SameKinds
  <2>7. CASE q # p
    <3>1. procs'[q] = procs[q] /\ q \in Workloads
      BY <2>5, <2>7 DEF Workloads
    <3>2. ASSUME NEW d \in Cmds, Killed(d, q) PROVE Killed(d, q)'
      BY <1>1, <3>1, <3>2 DEF Killed, Others
    <3>. QED
      BY <3>1, <3>2 DEF Leased
  <2>. QED
    BY <2>6, <2>7
<1>. QED
  BY <1>3, <1>4, <1>5

\* Any other step of a command that is not about to kill.
LEMMA OtherLeases ==
  ASSUME TInv, Leased, AddressOf' = AddressOf, NEW c \in Cmds, cli[c].pc # "kill",
         \/ Passes(c)
         \/ Unlink(c)
         \/ ExecPythonService(c) \/ ExecPostgreSQL(c)
         \/ SpawnEnvoy(c) /\ procs' # procs
  PROVE  Leased'
<1>1. ASSUME Others(c), NoneConnected PROVE Leased'
  BY <1>1, KillsKeptStep, LeaseStep
<1>2. CASE Passes(c)
  BY <1>1, <1>2, EndsConnectNone DEF Passes
<1>3. CASE Unlink(c)
  BY <1>1, <1>3, UnlinkEffect DEF NoneConnected
<1>4. ASSUME NEW p \in Pids, NEW r \in Procs, Begins(p, r), Others(c)
      PROVE  Leased'
  <2>1. NoneConnected
    BY <1>4 DEF Begins, NoneConnected, TInv, TypeOK
  <2>. QED
    BY <1>1, <1>4, <2>1
<1>. QED
  BY <1>2, <1>3, <1>4, ExecBegins, SpawnBegins

\* After the kill there is no process that has the address given back.
LEMMA KillLeases ==
  ASSUME TInv, DInv, HasPids, Leased, AddressOf' = AddressOf, NEW c \in Cmds, KillWorkload(c)
  PROVE  Leased'
<1>1. /\ cli[c].pc = "kill" /\ cli[c].entry \in Entries /\ cli[c].entry # Nil
      /\ registry[cli[c].key] = cli[c].entry /\ cli[c].key \in Keys
  BY EntryAssumption
     DEF KillWorkload, At, TInv, Shape, WellFormed, CreateSteps, DeleteSteps, EnvoySteps,
         DInv, EntryHeld
<1>2. cli[c].entry.pid # Nil /\ cli[c].entry.pid \in Pids
  BY <1>1 DEF HasPids, Entries
<1>3. Passes(c) /\ Kill(cli[c].entry.pid)
  BY <1>2, StepPasses DEF KillWorkload
<1>4. procs'[cli[c].entry.pid].kind = "none"
  BY <1>2, <1>3 DEF Kill, TInv, TypeOK, NoProc
<1>5. KillsKept
  BY <1>3, <1>4 DEF KillsKept, Passes, Others
<1>. QED
  BY <1>3, <1>5, EndsConnectNone, LeaseStep DEF Passes

LEMMA NextLeases ==
  ASSUME OnePerName, MaxFaults = 0, Implemented, TInv, DInv, AInv, HInv, PInv, Leased,
         [Next]_vars
  PROVE  Leased'
<1>0. redisUp /\ HasPids /\ Keyed
  BY DEF AInv, HInv
<1>1. CASE Outside \/ UNCHANGED vars
  <2>1. UNCHANGED <<registry, cli>> /\ Ends
    BY <1>1, OutsideEnds, OutsideTyped DEF vars
  <2>2. AddressOf' = AddressOf /\ KillsKept
    BY <2>1 DEF AddressOf, At, KillsKept
  <2>. QED
    BY <2>1, <2>2, EndsConnectNone, LeaseStep
<1>2. ASSUME NEW c \in Cmds, QuietStep(c) PROVE Leased'
  <2>1. cli[c].pc # "kill"
    BY <1>2 DEF QuietStep, At, WriteFragment, ReadFragments, CreateConfig, RenderConfig,
       StopExisting, SpawnEnvoy, WritePidFile, ConnectEnvoy, ConnectWorkload, ReleaseIp,
       StopEnvoy, RemovePidFile, RemoveFragment
  <2>2. ReleaseIp(c) \/ AddressOf' = AddressOf
    BY <1>0, <1>2, QuietMoves DEF NoMove
  <2>. QED
    BY <1>2, <2>1, <2>2, ReleaseLeases, ConnectLeases, StepPasses, OtherLeases
<1>3. ASSUME NEW c \in Cmds, NEW m \in Manifests, RunCreate(c, m) PROVE Leased'
  <2>1. Passes(c) /\ cli[c].pc # "kill" /\ UNCHANGED procs
    BY <1>3, BeginPasses DEF RunCreate, At
  <2>2. KillsKept
    BY <2>1, KillsKeptStep DEF Passes
  <2>. QED
    BY <1>0, <1>3, <2>1, <2>2, RunCreateMoves, GrantLeases, OtherLeases DEF NoMove
<1>4. ASSUME NEW c \in Cmds, NEW k \in Keys, RunDelete(c, k) PROVE Leased'
  <2>1. Passes(c) /\ cli[c].pc # "kill"
    BY <1>4, BeginPasses DEF RunDelete, At
  <2>. QED
    BY <1>0, <1>4, <2>1, RunDeleteMoves, OtherLeases DEF NoMove
<1>5. ASSUME NEW c \in Cmds, RunCleanup(c) \/ Unlink(c) PROVE Leased'
  <2>1. cli[c].pc # "kill" /\ (RunCleanup(c) => Passes(c))
    BY <1>5, BeginPasses DEF RunCleanup, Unlink, At
  <2>. QED
    BY <1>0, <1>5, <2>1, CleanupMoves, OtherLeases DEF NoMove
<1>6. ASSUME NEW c \in Cmds, ExecPythonService(c) \/ ExecPostgreSQL(c) PROVE Leased'
  <2>1. cli[c].pc # "kill"
    BY <1>6 DEF ExecPythonService, ExecPostgreSQL, At
  <2>. QED
    BY <1>0, <1>6, <2>1, ExecMoves, OtherLeases DEF NoMove
<1>7. ASSUME NEW c \in Cmds, KillWorkload(c) PROVE Leased'
  BY <1>0, <1>7, KillMoves, KillLeases DEF NoMove
<1>8. ASSUME NEW c \in Cmds, Register(c) \/ Unregister(c) PROVE Leased'
  <2>1. cli[c].pc # "kill" /\ Passes(c)
    BY <1>8, StepPasses DEF Register, Unregister, At
  <2>. QED
    BY <1>0, <1>8, <2>1, RegisterMoves, UnregisterMoves, OtherLeases DEF NoMove
<1>9. ASSUME NEW c \in Cmds, Crash(c) PROVE FALSE
  BY <1>9, CrashTyped
<1>. QED
  BY <1>1, <1>2, <1>3, <1>4, <1>5, <1>6, <1>7, <1>8, <1>9, NextCases

LEMMA LeaseInvariant ==
  ASSUME OnePerName, MaxFaults = 0, Implemented
  PROVE  Spec => [](TInv /\ DInv /\ AInv /\ HInv /\ PInv /\ Leased)
<1>1. Init => TInv /\ DInv /\ AInv /\ HInv /\ PInv /\ Leased
  BY InitTyped, InitDeletion, InitAccounting, InitAddresses, InitOwn, InitLeases
<1>2. TInv /\ DInv /\ AInv /\ HInv /\ PInv /\ Leased /\ [Next]_vars
        => TInv' /\ DInv' /\ AInv' /\ HInv' /\ PInv' /\ Leased'
  BY NextTyped, NextDeletion, NextAccounting, NextAddresses, NextOwn, NextLeases
<1>. QED
  BY <1>1, <1>2, PTL DEF Spec

\* A name has at most one running workload.
LEMMA OneProcessPerName ==
  ASSUME TInv, AInv, DInv, PInv, NEW p \in Workloads, NEW q \in Workloads, p # q
  PROVE  procs[p].key \in Keys /\ procs[q].key \in Keys /\ procs[p].key # procs[q].key
<1>1. /\ p \in Pids /\ procs[p].key \in Keys /\ procs[p].key # Nil
      /\ q \in Pids /\ procs[q].key \in Keys /\ procs[q].key # Nil
  BY KeyAssumption DEF Workloads, AInv, Keyed, TInv, TypeOK, Procs
<1>. SUFFICES ASSUME procs[p].key = procs[q].key PROVE FALSE
  BY <1>1
<1>2. (Recorded(p) \/ Started(p)) /\ (Recorded(q) \/ Started(q))
  BY <1>1 DEF AInv, Accounted
<1>3. ~(Recorded(p) /\ Recorded(q))
  BY DEF Recorded
<1>4. ~(Started(p) /\ Started(q))
  BY <1>1 DEF Started, DInv, OneCommand
<1>5. ~(Recorded(p) /\ Started(q)) /\ ~(Recorded(q) /\ Started(p))
  BY DEF Recorded, Started
<1>. QED
  BY <1>2, <1>3, <1>4, <1>5

\* However the commands for different names interleave, two workloads share an
\* address on the bridge only while a delete has given it back and is about to kill
\* the one that had it.
THEOREM SharedBriefly ==
  ASSUME OnePerName, MaxFaults = 0, Implemented
  PROVE  Spec => []SharedOnlyBeforeKill
<1>1. TInv /\ DInv /\ AInv /\ HInv /\ PInv /\ Leased => SharedOnlyBeforeKill
  <2>. SUFFICES ASSUME TInv, DInv, AInv, HInv, PInv, Leased,
                       NEW p \in Workloads, NEW q \in Workloads,
                       p # q, procs[p].addr = procs[q].addr, procs[p].addr # NoIp
                PROVE  \E c \in Cmds : At(c, "kill") /\ cli[c].entry.pid \in {p, q}
    BY DEF SharedOnlyBeforeKill
  <2>1. procs[p].key \in Keys /\ procs[q].key \in Keys /\ procs[p].key # procs[q].key
    BY OneProcessPerName
  <2>2. ~(/\ procs[p].addr = AddressOf[procs[p].key]
          /\ procs[q].addr = AddressOf[procs[q].key])
    BY <2>1 DEF HInv, Distinct
  <2>. QED
    BY <2>2 DEF Leased, Killed, At
<1>. QED
  BY <1>1, LeaseInvariant, PTL
-----------------------------------------------------------------------------
(* Entries of services, without faults *)

\* No manifest is a database: no signal but SIGKILL ends a workload.
NoDatabases == \A m \in Manifests : m.type # "db"

\* Only workloads have a key.
KeysOfWorkloads ==
    \A p \in Pids : procs[p].kind \notin {"service", "db"} => procs[p].key = Nil

OnlyServices == \A p \in Pids : procs[p].kind # "db"

\* What create has started runs when it connects and records it.
StartedRuns(c) ==
    cli[c].pc \in {"link", "register"} =>
        cli[c].pid \in Pids /\ procs[cli[c].pid].key = cli[c].key

\* An entry names a running process of its workload, until delete kills it.
Kept(c, k) == cli[c].key = k => cli[c].pc \in {"release", "kill"}
Runs(k) == registry[k].pid \in Pids /\ procs[registry[k].pid].key = k
EntriesKept == \A k \in Entered : (\A c \in Cmds : Kept(c, k)) => Runs(k)

\* The inductive invariant behind entries.
EInv == KeysOfWorkloads /\ OnlyServices /\ EntriesKept /\ \A c \in Cmds : StartedRuns(c)

\* A process that has a key keeps it.
KeysStay == \A q \in Pids : procs[q].key # Nil => procs'[q].key = procs[q].key

\* The processes after a step in which no workload ends.
NoneEnds == KeysStay /\ KeysOfWorkloads' /\ OnlyServices'

LEMMA InitRuns == Init => EInv
  BY DEF Init, EInv, KeysOfWorkloads, OnlyServices, EntriesKept, Entered, StartedRuns, Idle,
         NoProc

\* Only a gateway is ended by SIGTERM, or exits for its configuration.
LEMMA StopsKeep ==
  ASSUME TInv, EInv, (\E p \in Pids : Stops(p)) \/ UNCHANGED procs
  PROVE  NoneEnds
<1>1. CASE UNCHANGED procs
  BY <1>1 DEF NoneEnds, KeysStay, EInv, KeysOfWorkloads, OnlyServices
<1>2. ASSUME NEW p \in Pids, Stops(p) PROVE NoneEnds
  <2>1. procs[p].kind \in {"envoy", "db"} /\ Kill(p)
    BY <1>2 DEF Stops, Terminable, TInv, TypeOK
  <2>2. procs[p].key = Nil
    BY <2>1 DEF EInv, OnlyServices, KeysOfWorkloads
  <2>. QED
    BY <2>1, <2>2 DEF Kill, NoneEnds, KeysStay, EInv, KeysOfWorkloads, OnlyServices,
                      NoProc, TInv, TypeOK
<1>. QED
  BY <1>1, <1>2

LEMMA SameKindsKeep ==
  ASSUME EInv, SameKinds
  PROVE  NoneEnds
  BY DEF NoneEnds, KeysStay, EInv, KeysOfWorkloads, OnlyServices, SameKinds

LEMMA BeginKeeps ==
  ASSUME TInv, EInv, NEW p \in Pids, NEW r \in Procs, Begins(p, r),
         r.kind = "service" \/ (r.kind = "envoy" /\ r.key = Nil)
  PROVE  NoneEnds
<1>1. /\ procs'[p] = r /\ \A q \in Pids \ {p} : procs'[q] = procs[q]
      /\ procs[p].key = Nil
  BY DEF Begins, FreePids, Live, TInv, TypeOK, EInv, KeysOfWorkloads
<1>. QED
  BY <1>1 DEF NoneEnds, KeysStay, EInv, KeysOfWorkloads, OnlyServices

\* A step of one command that ends no workload and writes no entry.
LEMMA RunsStep ==
  ASSUME TInv, EInv, NoneEnds, UNCHANGED registry, NEW c \in Cmds, Others(c),
         cli'[c].pc \in {"link", "register"} =>
            cli'[c].pid \in Pids /\ procs'[cli'[c].pid].key = cli'[c].key,
         \A k \in Entered : (\A d \in Cmds : Kept(d, k)') => Kept(c, k)
  PROVE  EInv'
<1>1. EntriesKept'
  <2>. SUFFICES ASSUME NEW k \in Entered, \A d \in Cmds : Kept(d, k)'
                PROVE  Runs(k)'
    BY DEF EntriesKept, Entered
  <2>1. \A d \in Cmds : Kept(d, k)
    BY DEF Others, Kept
  <2>2. Runs(k) /\ k # Nil
    BY <2>1, KeyAssumption DEF EInv, EntriesKept, Entered
  <2>. QED
    BY <2>2 DEF Runs, NoneEnds, KeysStay
<1>2. ASSUME NEW d \in Cmds PROVE StartedRuns(d)'
  <2>1. CASE d = c
    BY <2>1 DEF StartedRuns
  <2>2. CASE d # c
    <3>1. cli'[d] = cli[d] /\ StartedRuns(d)
      BY <2>2 DEF Others, EInv
    <3>2. cli[d].pc \in {"link", "register"} => cli[d].key # Nil
      BY KeyAssumption DEF TInv, Shape, WellFormed, CreateSteps, DeleteSteps, EnvoySteps
    <3>. QED
      BY <3>1, <3>2 DEF StartedRuns, NoneEnds, KeysStay
  <2>. QED
    BY <2>1, <2>2
<1>. QED
  BY <1>1, <1>2 DEF EInv, NoneEnds

\* Only after ReleaseIp is a command about to kill.
LEMMA QuietNoKill ==
  ASSUME TInv, NEW c \in Cmds, QuietStep(c), ~ReleaseIp(c)
  PROVE  cli[c].pc # "kill" /\ cli'[c].pc # "kill"
<1>1. TypeOK /\ cli[c].pc # "kill"
  BY DEF TInv, QuietStep, At, WriteFragment, ReadFragments, CreateConfig, RenderConfig,
         StopExisting, SpawnEnvoy, WritePidFile, ConnectEnvoy, ConnectWorkload, StopEnvoy,
         RemovePidFile, RemoveFragment
<1>2. CASE \E t \in Steps \ {"kill"} : Goto(c, t)
  BY <1>1, <1>2, GotoEffect
<1>3. CASE WriteFragment(c) \/ CreateConfig(c) \/ RenderConfig(c) \/ StopExisting(c)
           \/ WritePidFile(c) \/ StopEnvoy(c) \/ RemovePidFile(c) \/ RemoveFragment(c)
           \/ ConnectEnvoy(c) \/ ConnectWorkload(c)
  BY <1>2, <1>3 DEF WriteFragment, CreateConfig, RenderConfig, StopExisting, WritePidFile,
     StopEnvoy, RemovePidFile, RemoveFragment, ConnectEnvoy, ConnectWorkload, AfterEnvoy,
     Steps
<1>4. CASE SpawnEnvoy(c)
  BY <1>1, <1>4, SpawnTyped DEF AfterEnvoy
<1>5. CASE ReadFragments(c)
  BY <1>1, <1>5 DEF ReadFragments, TypeOK, Commands
<1>. QED
  BY <1>1, <1>3, <1>4, <1>5 DEF QuietStep

LEMMA QuietKeeps ==
  ASSUME TInv, EInv, NEW c \in Cmds, QuietStep(c)
  PROVE  NoneEnds
<1>1. CASE UNCHANGED procs
  BY <1>1, StopsKeep
<1>2. CASE StopExisting(c) \/ StopEnvoy(c)
  BY <1>1, <1>2 DEF StopExisting, StopEnvoy, Terminate
<1>3. CASE SpawnEnvoy(c) /\ procs' # procs
  BY <1>3, SpawnBegins, BeginKeeps
<1>4. CASE ConnectEnvoy(c)
  BY <1>1, <1>4, ConnectCases, ConnectKinds, HostFacts, SameKindsKeep DEF GivesUp
<1>5. CASE ConnectWorkload(c)
  BY <1>5, ConnectKinds, ConnectHolds, SameKindsKeep DEF ConnectWorkload, Commands
<1>. QED
  BY <1>1, <1>2, <1>3, <1>4, <1>5 DEF QuietStep, WriteFragment, ReadFragments, CreateConfig,
     RenderConfig, WritePidFile, ReleaseIp, RemovePidFile, RemoveFragment, disk

LEMMA QuietRuns ==
  ASSUME TInv, EInv, NEW c \in Cmds, QuietStep(c)
  PROVE  EInv'
<1>1. /\ NoneEnds /\ UNCHANGED registry /\ Keeps(c) /\ Others(c)
      /\ cli'[c].pc # "release" /\ (cli'[c].pc = "register" => cli[c].pc = "link")
  BY QuietKeeps, QuietTyped, QuietDetails DEF QuietMove, Keeps, Others
<1>2. cli'[c].pc # "link"
  BY StepPasses, ConnectHolds, SpawnBegins DEF Passes, Joining
<1>3. cli'[c].pc \in {"link", "register"} =>
         cli'[c].pid \in Pids /\ procs'[cli'[c].pid].key = cli'[c].key
  <2>. SUFFICES ASSUME cli'[c].pc = "register"
                PROVE  cli'[c].pid \in Pids /\ procs'[cli'[c].pid].key = cli'[c].key
    BY <1>2
  <2>1. cli[c].pc = "link" /\ StartedRuns(c) /\ cli[c].key # Nil
    BY <1>1, KeyAssumption
       DEF EInv, TInv, Shape, WellFormed, CreateSteps, DeleteSteps, EnvoySteps
  <2>. QED
    BY <1>1, <2>1 DEF StartedRuns, Keeps, NoneEnds, KeysStay
<1>4. \A k \in Entered : (\A d \in Cmds : Kept(d, k)') => Kept(c, k)
  <2>1. cli'[c].pc = "kill" => cli[c].pc = "release"
    BY QuietNoKill DEF ReleaseIp, At
  <2>. QED
    BY <1>1, <2>1 DEF Kept, Keeps
<1>. QED
  BY <1>1, <1>3, <1>4, RunsStep

\* Create leads to a process, if the manifest can be carried out.
LEMMA CreateBegins ==
  ASSUME Implemented, TInv, NEW c \in Cmds, NEW m \in Manifests, RunCreate(c, m)
  PROVE  cli'[c].pc \in {"fragment", "start"} /\ cli'[c].key = KeyOf(m)
<1>1. m.type # "other" /\ m.supported
  BY DEF Implemented
<1>. DEFINE r(a) == [Idle EXCEPT
                       !.pc = IF ~m.supported THEN "register"
                              ELSE IF m.lb THEN "fragment" ELSE "start",
                       !.m = m, !.key = KeyOf(m), !.ip = a]
<1>2. \A a : r(a).pc \in {"fragment", "start"} /\ r(a).key = KeyOf(m)
  BY <1>1 DEF Idle
<1>3. \E a : cli' = [cli EXCEPT ![c] = r(a)]
  BY <1>1 DEF RunCreate
<1>. HIDE DEF r
<1>. QED
  BY <1>2, <1>3 DEF TInv, TypeOK

LEMMA DeleteBegins ==
  ASSUME TInv, NEW c \in Cmds, NEW k \in Keys, RunDelete(c, k)
  PROVE  cli'[c].pc = "release" /\ cli'[c].key = k
<1>. DEFINE r == [Idle EXCEPT !.pc = "release", !.key = k, !.entry = registry[k]]
<1>1. r.pc = "release" /\ r.key = k
  BY DEF Idle
<1>2. cli' = [cli EXCEPT ![c] = r]
  BY DEF RunDelete
<1>. HIDE DEF r
<1>. QED
  BY <1>1, <1>2 DEF TInv, TypeOK

LEMMA BeginRuns ==
  ASSUME OnePerName, Implemented, TInv, EInv, NEW c \in Cmds,
         \/ \E m \in Manifests : RunCreate(c, m)
         \/ \E k \in Keys : RunDelete(c, k)
         \/ RunCleanup(c)
         \/ Unlink(c)
  PROVE  EInv'
<1>1. Others(c) /\ UNCHANGED registry
  BY BeginPasses, UnlinkEffect DEF Passes, RunCreate, RunDelete, RunCleanup, Unlink
<1>2. NoneEnds
  <2>1. CASE Unlink(c)
    BY <2>1, UnlinkEffect, SameKindsKeep
  <2>2. CASE UNCHANGED procs
    BY <2>2, StopsKeep
  <2>. QED
    BY <2>1, <2>2 DEF RunCreate, RunDelete, RunCleanup
<1>3. cli[c].key = Nil
  BY DEF RunCreate, RunDelete, RunCleanup, Unlink, At, TInv, Shape, WellFormed, CreateSteps,
         DeleteSteps, EnvoySteps
<1>4. cli'[c].pc \in {"fragment", "start", "release", "idle", "unlink"}
  <2>1. CASE RunCleanup(c)
    BY <2>1 DEF RunCleanup, TInv, TypeOK, Commands
  <2>. QED
    BY <2>1, CreateBegins, DeleteBegins, UnlinkEffect
<1>5. \A k \in Entered : Kept(c, k)
  BY <1>3, KeyAssumption DEF Kept, Entered
<1>. QED
  BY <1>1, <1>2, <1>4, <1>5, RunsStep

LEMMA ExecRuns ==
  ASSUME NoDatabases, TInv, EInv, NEW c \in Cmds, ExecPythonService(c) \/ ExecPostgreSQL(c)
  PROVE  EInv'
<1>1. cli[c].m \in Manifests /\ cli[c].pc = "start" /\ cli[c].key # Nil /\ UNCHANGED registry
  BY KeyAssumption DEF ExecPythonService, ExecPostgreSQL, StartWorkload, At, TInv, Shape,
     WellFormed, CreateSteps, DeleteSteps, EnvoySteps
<1>2. ExecPythonService(c) /\ cli[c].m.type = "service"
  BY <1>1 DEF NoDatabases, ExecPythonService, ExecPostgreSQL
<1>3. PICK p \in Pids, r \in Procs :
         /\ Begins(p, r) /\ r.kind # "envoy" /\ r.key = cli[c].key
         /\ Others(c) /\ cli'[c].pid = p /\ cli'[c].envoy = cli[c].envoy
         /\ cli'[c].key = cli[c].key /\ cli'[c].ip = cli[c].ip
         /\ cli[c].pc = "start" /\ cli'[c].pc \in {"link", "register"}
  BY ExecBegins
<1>4. procs'[p] = r /\ r.kind = "service"
  <2>1. PICK q \in FreePids, next \in {"link", "register"} : StartWorkload(c, q, next)
    BY <1>2 DEF ExecPythonService
  <2>. DEFINE e == [NoProc EXCEPT !.kind = cli[c].m.type, !.key = cli[c].key]
  <2>2. e.kind = "service"
    BY <1>2 DEF NoProc
  <2>3. procs' = [procs EXCEPT ![q] = e] /\ q \in Pids /\ procs[p].kind = "none"
    BY <1>3, <2>1 DEF StartWorkload, FreePids, Begins, Live
  <2>. HIDE DEF e
  <2>4. procs'[p] = r /\ r.kind # "none"
    BY <1>3 DEF Begins, TInv, TypeOK
  <2>5. p = q
    BY <2>3, <2>4
  <2>. QED
    BY <2>2, <2>3, <2>4, <2>5 DEF TInv, TypeOK
<1>5. NoneEnds
  BY <1>3, <1>4, BeginKeeps
<1>6. \A k \in Entered : Kept(c, k)' => Kept(c, k)
  BY <1>3 DEF Kept
<1>. QED
  BY <1>1, <1>3, <1>4, <1>5, <1>6, RunsStep

\* Delete kills its own workload's process.
LEMMA KillRuns ==
  ASSUME TInv, DInv, HasPids, EInv, NEW c \in Cmds, KillWorkload(c)
  PROVE  EInv'
<1>. DEFINE p == cli[c].entry.pid
            k == cli[c].key
<1>1. /\ cli[c].pc = "kill" /\ cli[c].entry \in Entries /\ k \in Keys /\ k # Nil
      /\ registry[k] = cli[c].entry /\ registry[k] # Nil /\ UNCHANGED registry
  BY EntryAssumption, KeyAssumption
     DEF KillWorkload, At, TInv, Shape, WellFormed, CreateSteps, DeleteSteps, EnvoySteps,
         DInv, EntryHeld
<1>2. \A d \in Cmds : Kept(d, k)
  BY <1>1 DEF Kept, DInv, OneCommand
<1>3. p \in Pids /\ procs[p].key = k /\ registry[k].pid = p
  BY <1>1, <1>2 DEF EInv, EntriesKept, Entered, Runs
<1>4. /\ Others(c) /\ cli'[c].key = k /\ cli'[c].pc = "stop"
      /\ procs' = [procs EXCEPT ![p] = NoProc]
  <2>1. Goto(c, "stop") /\ Kill(p) /\ "stop" \in Steps
    BY <1>3, NilAssumption DEF KillWorkload, Steps
  <2>. QED
    BY <2>1, GotoHolds DEF Kill, TInv, SameHolds
<1>. HIDE DEF p, k
<1>5. /\ procs'[p].key = Nil /\ procs'[p].kind = "none"
      /\ \A q \in Pids \ {p} : procs'[q] = procs[q]
  BY <1>3, <1>4 DEF NoProc, TInv, TypeOK
<1>6. KeysOfWorkloads' /\ OnlyServices'
  BY <1>5 DEF EInv, KeysOfWorkloads, OnlyServices
<1>7. EntriesKept'
  <2>. SUFFICES ASSUME NEW j \in Entered, \A d \in Cmds : Kept(d, j)'
                PROVE  Runs(j)'
    BY <1>1 DEF EntriesKept, Entered
  <2>1. j # k
    BY <1>4 DEF Kept
  <2>2. \A d \in Cmds : Kept(d, j)
    BY <1>4, <2>1 DEF Others, Kept, k
  <2>3. Runs(j)
    BY <2>2 DEF EInv, EntriesKept
  <2>. QED
    BY <1>1, <1>3, <1>5, <2>1, <2>3 DEF Runs
<1>8. ASSUME NEW d \in Cmds PROVE StartedRuns(d)'
  <2>1. CASE d = c
    BY <1>4, <2>1 DEF StartedRuns
  <2>2. CASE d # c
    <3>1. cli'[d] = cli[d] /\ StartedRuns(d) /\ cli[d].key # k
      BY <1>1, <1>4, <2>2 DEF Others, EInv, DInv, OneCommand, k
    <3>. QED
      BY <1>3, <1>5, <3>1 DEF StartedRuns
  <2>. QED
    BY <2>1, <2>2
<1>. QED
  BY <1>6, <1>7, <1>8 DEF EInv

\* The end of a command: what it has registered runs, and what it has removed is no
\* entry any more.
LEMMA EndRuns ==
  ASSUME TInv, redisUp, EInv, NEW c \in Cmds, Register(c) \/ Unregister(c)
  PROVE  EInv'
<1>. DEFINE k == cli[c].key
<1>1. /\ Leaves(c) /\ UNCHANGED procs /\ k \in Keys
      /\ \A j \in Keys \ {k} : registry'[j] = registry[j]
      /\ \/ cli[c].pc = "register" /\ registry'[k].pid = cli[c].pid
         \/ registry'[k] = Nil
  BY RegisterTyped, UnregisterTyped DEF Unregister, TInv, TypeOK
<1>2. KeysOfWorkloads' /\ OnlyServices'
  BY <1>1 DEF EInv, KeysOfWorkloads, OnlyServices
<1>3. ASSUME NEW d \in Cmds PROVE StartedRuns(d)'
  BY <1>1 DEF EInv, StartedRuns, Leaves, Idle
<1>4. EntriesKept'
  <2>. SUFFICES ASSUME NEW j \in Keys, registry'[j] # Nil, \A d \in Cmds : Kept(d, j)'
                PROVE  Runs(j)'
    BY DEF EntriesKept, Entered
  <2>1. CASE j = k
    BY <1>1, <2>1 DEF EInv, StartedRuns, Runs
  <2>2. CASE j # k
    <3>1. \A d \in Cmds : Kept(d, j)
      BY <1>1, <2>2 DEF Leaves, Kept
    <3>2. Runs(j)
      BY <1>1, <2>2, <3>1 DEF EInv, EntriesKept, Entered
    <3>. QED
      BY <1>1, <2>2, <3>2 DEF Runs
  <2>. QED
    BY <2>1, <2>2
<1>. QED
  BY <1>2, <1>3, <1>4 DEF EInv

LEMMA NextRuns ==
  ASSUME OnePerName, MaxFaults = 0, Implemented, NoDatabases,
         TInv, DInv, AInv, HInv, EInv, [Next]_vars
  PROVE  EInv'
<1>0. redisUp /\ HasPids
  BY DEF AInv, HInv
<1>1. CASE Outside \/ UNCHANGED vars
  <2>1. UNCHANGED <<registry, cli>> /\ ((\E p \in Pids : Stops(p)) \/ UNCHANGED procs)
    BY <1>1, NoFault DEF Outside, Stops, ProcessExits, RedisDown, RedisBack, vars, TInv
  <2>2. NoneEnds
    BY <2>1, StopsKeep
  <2>3. EntriesKept'
    <3>. SUFFICES ASSUME NEW k \in Entered, \A d \in Cmds : Kept(d, k) PROVE Runs(k)'
      BY <2>1 DEF EntriesKept, Entered, Kept
    <3>1. Runs(k) /\ k # Nil
      BY KeyAssumption DEF EInv, EntriesKept, Entered
    <3>. QED
      BY <2>1, <2>2, <3>1 DEF Runs, NoneEnds, KeysStay
  <2>4. ASSUME NEW d \in Cmds PROVE StartedRuns(d)'
    <3>1. StartedRuns(d) /\ (cli[d].pc \in {"link", "register"} => cli[d].key # Nil)
      BY KeyAssumption
         DEF EInv, TInv, Shape, WellFormed, CreateSteps, DeleteSteps, EnvoySteps
    <3>. QED
      BY <2>1, <2>2, <3>1 DEF StartedRuns, NoneEnds, KeysStay
  <2>. QED
    BY <2>2, <2>3, <2>4 DEF EInv, NoneEnds
<1>2. ASSUME NEW c \in Cmds, Crash(c) PROVE FALSE
  BY <1>2, CrashTyped
<1>. QED
  BY <1>0, <1>1, <1>2, NextCases, QuietRuns, BeginRuns, ExecRuns, KillRuns, EndRuns

\* However the commands for different services interleave, with each other and with
\* cleanup, an entry that no command is at work on names a running process of its
\* service: no signal for the gateway, and no kill of another service, has hit it.
\* (With a database it is not so: when the gateway has exited, a database may be given
\* the pid that is in the pid file, and the next command sends it SIGTERM.)
THEOREM ServicesLive ==
  ASSUME OnePerName, MaxFaults = 0, Implemented, NoDatabases
  PROVE  Spec => []RecordsLive
<1>1. Init => TInv /\ DInv /\ AInv /\ HInv /\ EInv
  BY InitTyped, InitDeletion, InitAccounting, InitAddresses, InitRuns
<1>2. TInv /\ DInv /\ AInv /\ HInv /\ EInv /\ [Next]_vars
        => TInv' /\ DInv' /\ AInv' /\ HInv' /\ EInv'
  BY NextTyped, NextDeletion, NextAccounting, NextAddresses, NextRuns
<1>3. TInv /\ EInv => RecordsLive
  <2>. SUFFICES ASSUME TInv, EInv, NEW k \in Entered, Undisturbed(k)
                PROVE  /\ registry[k].pid # Nil /\ Live(registry[k].pid)
                       /\ registry[k].pid \notin stopping
                       /\ procs[registry[k].pid].key = k
    BY DEF RecordsLive
  <2>1. Runs(k) /\ k # Nil
    BY KeyAssumption DEF EInv, EntriesKept, Kept, Undisturbed, Entered
  <2>2. procs[registry[k].pid].kind = "service"
    BY <2>1 DEF EInv, Runs, KeysOfWorkloads, OnlyServices
  <2>. QED
    BY <2>1, <2>2, NilAssumption DEF Runs, Live, TInv, TypeOK, Terminable
<1>. QED
  BY <1>1, <1>2, <1>3, PTL DEF Spec
=============================================================================
