---------------------------- MODULE BridgeProofs ----------------------------
(***************************************************************************)
(* Theorems about Bridge, for any number of commands, processes, workloads *)
(* and disturbances.                                                       *)
(*                                                                         *)
(* The argument rests on names: while no two running processes share their *)
(* interface names, whatever a command deletes, creates or configures has  *)
(* the names of its own process (OwnNamesOnly, NamesApart).                *)
(***************************************************************************)
EXTENDS Bridge, TLAPS

-----------------------------------------------------------------------------
(* How a command moves on *)

Others(c) == \A o \in Cmds : o # c => cli'[o] = cli[o]

\* Goto changes the pc of one command.
LEMMA GotoMoves ==
    ASSUME cli \in [Cmds -> Commands], NEW c \in Cmds, NEW s \in Steps, Goto(c, s)
    PROVE  /\ cli' \in [Cmds -> Commands] /\ Others(c)
           /\ cli'[c].pc = s /\ cli'[c].w = cli[c].w /\ cli'[c].ip = cli[c].ip
           /\ cli'[c].pid = cli[c].pid /\ cli'[c].in = cli[c].in /\ cli'[c].out = cli[c].out
<1> DEFINE r == [cli[c] EXCEPT !.pc = s]
<1>1. cli' = [cli EXCEPT ![c] = r]
    BY DEF Goto
<1>2. /\ r \in Commands
      /\ r.pc = s /\ r.w = cli[c].w /\ r.ip = cli[c].ip
      /\ r.pid = cli[c].pid /\ r.in = cli[c].in /\ r.out = cli[c].out
    BY DEF Commands
<1> HIDE DEF r
<1> QED
    BY <1>1, <1>2 DEF Others

\* Setting the whole record of one command.
LEMMA SetMoves ==
    ASSUME cli \in [Cmds -> Commands], NEW c \in Cmds, NEW r \in Commands,
           cli' = [cli EXCEPT ![c] = r]
    PROVE  cli' \in [Cmds -> Commands] /\ Others(c) /\ cli'[c] = r
BY DEF Others

\* The record of a free slot.
LEMMA IdleTyped ==
    /\ Idle \in Commands /\ Idle.pc = "idle" /\ Idle.w = Nil /\ Idle.ip = FALSE
    /\ Idle.pid = Nil /\ Idle.in = Nil /\ Idle.out = Nil
BY DEF Idle, Commands, Steps

-----------------------------------------------------------------------------
(* Types *)

Connecting == {"clear", "add", "find", "attach", "move", "configure", "rules"}
Found      == {"attach", "move", "configure", "rules"}

\* What a command carries at each of its steps; the ends it has found have its names.
Shape(c) ==
    LET k == cli[c]
    IN  /\ k.pc \in {"idle", "unlink"} => k.w = Nil /\ k.pid = Nil
        /\ k.pc \notin {"idle", "unlink"} => k.w \in Workloads
        /\ k.pc = "start" => k.pid = Nil
        /\ k.pc \in Connecting => k.pid \in Pids
        /\ k.pc \in Found => /\ k.in \in Ids /\ Name(k.in) = Name(Own(c))
                             /\ k.out \in Ids /\ Name(k.out) = Name(Own(c))
        /\ k.w \in Unfiltered => k.ip
        /\ k.pid \in Pids => k.w \notin Unlinked

IInv == TypeOK /\ \A c \in Cmds : Shape(c)

\* What a step does to the pids and workloads of commands: nothing, ...
Moves(c) ==
    /\ Others(c) /\ procs' = procs
    /\ cli'[c].pid = cli[c].pid
    /\ cli[c].pid # Nil => cli'[c].w = cli[c].w /\ cli'[c].ip = cli[c].ip

\* ... it ends the command, ...
Leaves(c) == Others(c) /\ procs' = procs /\ cli'[c] = Idle

\* ... or it starts the process, and goes on with it, or ends there if the process is
\* a service that is not load balanced.
Starts(c, p) ==
    /\ Others(c) /\ cli[c].pid = Nil /\ cli[c].w \in Workloads
    /\ \/ cli'[c].pid = p /\ cli'[c].w = cli[c].w /\ cli'[c].ip = cli[c].ip
       \/ cli'[c] = Idle /\ cli[c].w \in Unlinked
    /\ procs[p] = Nil /\ ~Held(p) /\ (Collisions \/ Distinct(cli[c].w, p))
    /\ procs' = [procs EXCEPT ![p] = [w |-> cli[c].w, ip |-> cli[c].ip]]

\* The initial state.
LEMMA InitIInv == Init => IInv
<1> SUFFICES ASSUME Init PROVE IInv
    OBVIOUS
<1>1. cli \in [Cmds -> Commands] /\ \A c \in Cmds : cli[c] = Idle
    BY IdleTyped DEF Init
<1>2. TypeOK
    BY <1>1, MaxFaultsAssumption DEF Init, TypeOK
<1>3. \A c \in Cmds : Shape(c)
    BY <1>1, IdleTyped, WorkloadAssumption, NilAssumption DEF Shape, Connecting, Found
<1> QED
    BY <1>2, <1>3 DEF IInv

\* The record of one end of a link that is changed.
LEMMA LinkTyped ==
    ASSUME NEW l \in Link
    PROVE  /\ [l EXCEPT !.attached = TRUE] \in Link
           /\ [l EXCEPT !.addr = TRUE] \in Link
           /\ \A p \in Pids : [l EXCEPT !.inner = p] \in Link
           /\ [Fresh EXCEPT !.inner = "gone"] \in Link /\ Fresh \in Link
BY DEF Link, Fresh

LEMMA LinksTyped ==
    ASSUME links \in [Ids -> Link \cup {Nil}], NEW id \in Ids, NEW l \in Link,
           links' = [links EXCEPT ![id] = l]
    PROVE  links' \in [Ids -> Link \cup {Nil}]
OBVIOUS

\* A step of a command keeps types and shape, and is one of the three.
LEMMA CommandStep ==
    ASSUME IInv, NEW c \in Cmds,
           \/ Step(c) \/ Crash(c) \/ RunCleanup(c)
           \/ \E w \in Workloads, ip \in BOOLEAN : Begin(c, w, ip)
    PROVE  IInv' /\ (Moves(c) \/ Leaves(c) \/ \E p \in Pids : Starts(c, p))
<1> DEFINE Goal == IInv' /\ (Moves(c) \/ Leaves(c) \/ \E p \in Pids : Starts(c, p))
<1>0. /\ bridge \in {"none", "added", "ready"} /\ links \in [Ids -> Link \cup {Nil}]
      /\ procs \in [Pids -> Proc \cup {Nil}] /\ filtered \in SUBSET Pids
      /\ cli \in [Cmds -> Commands] /\ faults \in 0 .. MaxFaults /\ cli[c] \in Commands
    BY DEF IInv, TypeOK
<1>s. \A o \in Cmds : Shape(o)
    BY DEF IInv
\* It is enough to look at the command's own record.
<1>1. ASSUME cli' \in [Cmds -> Commands], Others(c), Shape(c)',
             bridge' \in {"none", "added", "ready"}, links' \in [Ids -> Link \cup {Nil}],
             procs' \in [Pids -> Proc \cup {Nil}], filtered' \in SUBSET Pids,
             faults' \in 0 .. MaxFaults
      PROVE  IInv'
    <2>1. \A o \in Cmds : Shape(o)'
        BY <1>1, <1>s DEF Shape, Others, Own
    <2> QED
        BY <1>1, <2>1 DEF IInv, TypeOK
<1>2. ASSUME Exit(c), UNCHANGED procs
      PROVE  cli' \in [Cmds -> Commands] /\ Others(c) /\ Shape(c)' /\ Leaves(c)
    <2>1. cli' \in [Cmds -> Commands] /\ Others(c) /\ cli'[c] = Idle
        BY <1>0, <1>2, SetMoves, IdleTyped DEF Exit
    <2>2. Shape(c)'
        BY <2>1, IdleTyped, WorkloadAssumption, NilAssumption DEF Shape, Connecting, Found
    <2> QED
        BY <1>2, <2>1, <2>2 DEF Leaves
<1>3. ASSUME NEW s \in Steps, Goto(c, s), UNCHANGED procs,
             cli[c].pc \notin {"idle", "unlink", "start"}, s \notin {"idle", "unlink"},
             s = "start" => cli[c].pid = Nil,
             s \in Connecting => cli[c].pid \in Pids,
             s \in Found => cli[c].pc \in Found
      PROVE  cli' \in [Cmds -> Commands] /\ Others(c) /\ Shape(c)' /\ Moves(c)
    <2>1. /\ cli' \in [Cmds -> Commands] /\ Others(c)
          /\ cli'[c].pc = s /\ cli'[c].w = cli[c].w /\ cli'[c].ip = cli[c].ip
          /\ cli'[c].pid = cli[c].pid /\ cli'[c].in = cli[c].in /\ cli'[c].out = cli[c].out
        BY <1>0, <1>3, GotoMoves
    <2>2. Own(c)' = Own(c)
        BY <2>1 DEF Own
    <2>3. Shape(c)'
        BY <1>s, <1>3, <2>1, <2>2 DEF Shape
    <2> QED
        BY <1>3, <2>1, <2>3 DEF Moves
\* The steps of ConnectProcessToBridge: one further, or out of it.
<1>a. ASSUME NEW s \in {"find", "move", "configure", "rules"}, cli[c].pid \in Pids,
             cli[c].pc \in Connecting, s # "find" => cli[c].pc \in Found,
             Goto(c, s) \/ Exit(c), UNCHANGED procs
      PROVE  /\ cli' \in [Cmds -> Commands] /\ Others(c) /\ Shape(c)'
             /\ Moves(c) \/ Leaves(c)
    <2>1. /\ s \in Steps /\ s \notin {"idle", "unlink", "start"}
          /\ cli[c].pc \notin {"idle", "unlink", "start"}
          /\ s \in Found => cli[c].pc \in Found
        BY <1>a DEF Steps, Connecting, Found
    <2>2. CASE Goto(c, s)
        BY <1>3, <1>a, <2>1, <2>2
    <2>3. CASE Exit(c)
        BY <1>2, <1>a, <2>3
    <2> QED
        BY <1>a, <2>2, <2>3
<1>4. ASSUME NEW w \in Workloads, NEW ip \in BOOLEAN, Begin(c, w, ip) PROVE Goal
    <2> DEFINE s == IF w \in BridgeFirst THEN "bridge" ELSE "start"
               r == [Idle EXCEPT !.pc = s, !.w = w, !.ip = ip]
    <2>1. /\ r \in Commands /\ r.pc = s /\ r.w = w /\ r.ip = ip
          /\ r.pid = Nil /\ r.in = Nil /\ r.out = Nil
        BY DEF Idle, Commands, Steps
    <2>2. cli' = [cli EXCEPT ![c] = r] /\ cli[c].pc = "idle" /\ (w \in Unfiltered => ip)
        BY <1>4 DEF Begin, At
    <2> HIDE DEF r
    <2>3. cli' \in [Cmds -> Commands] /\ Others(c) /\ cli'[c] = r
        BY <1>0, <2>1, <2>2, SetMoves
    <2>4. cli[c].pid = Nil
        BY <1>s, <2>2 DEF Shape
    <2>5. Shape(c)'
        BY PidAssumption, <2>1, <2>2, <2>3 DEF Shape, Connecting, Found
    <2>6. Moves(c)
        BY <1>4, <2>1, <2>3, <2>4 DEF Moves, Begin
    <2> QED
        BY <1>0, <1>1, <1>4, <2>3, <2>5, <2>6 DEF Begin
<1>5. CASE RunCleanup(c)
    <2> DEFINE found == {Name(id) : id \in {i \in Ids : Exists(i)}}
               r == [Idle EXCEPT !.pc = "unlink", !.todo = found]
    <2>1. found \in SUBSET Names
        BY DEF Names, Name
    <2>2. /\ r \in Commands /\ r.pc = "unlink" /\ r.w = Nil /\ r.ip = FALSE
          /\ r.pid = Nil /\ r.in = Nil /\ r.out = Nil
        <3> HIDE DEF found
        <3> QED
            BY <2>1 DEF Idle, Commands, Steps
    <2>3. cli' = [cli EXCEPT ![c] = r] /\ cli[c].pc = "idle"
        BY <1>5 DEF RunCleanup, At
    <2> HIDE DEF r
    <2>4. cli' \in [Cmds -> Commands] /\ Others(c) /\ cli'[c] = r
        BY <1>0, <2>2, <2>3, SetMoves
    <2>5. cli[c].pid = Nil
        BY <1>s, <2>3 DEF Shape
    <2>6. Shape(c)'
        BY <2>2, <2>4, WorkloadAssumption, NilAssumption DEF Shape, Connecting, Found
    <2>7. Moves(c)
        BY <1>5, <2>2, <2>4, <2>5 DEF Moves, RunCleanup
    <2>8. faults' \in 0 .. MaxFaults
        BY <1>0, <1>5, MaxFaultsAssumption DEF RunCleanup, Disturbance
    <2> QED
        BY <1>0, <1>1, <1>5, <2>4, <2>6, <2>7, <2>8 DEF RunCleanup
<1>6. CASE Crash(c)
    <2>1. faults' \in 0 .. MaxFaults
        BY <1>0, <1>6, MaxFaultsAssumption DEF Crash, Disturbance
    <2> QED
        BY <1>0, <1>1, <1>2, <1>6, <2>1 DEF Crash
<1>7. CASE FindBridge(c) \/ AddBridge(c) \/ UpBridge(c)
    <2>1. /\ cli[c].pc \in {"bridge", "addbr", "upbr"} /\ UNCHANGED <<links, procs, filtered, faults>>
          /\ bridge' \in {"none", "added", "ready"}
          /\ Goto(c, "addbr") \/ Goto(c, "upbr") \/ Goto(c, AfterBridge(c))
        BY <1>0, <1>7 DEF FindBridge, AddBridge, UpBridge, At
    <2>2. /\ "addbr" \in Steps /\ "upbr" \in Steps /\ AfterBridge(c) \in {"start", "clear"}
          /\ "start" \in Steps /\ "clear" \in Steps
          /\ AfterBridge(c) = "start" => cli[c].pid = Nil
          /\ AfterBridge(c) = "clear" => cli[c].pid \in Pids
        BY <1>0 DEF Steps, AfterBridge, Commands
    <2>3. PICK s \in {"addbr", "upbr", "start", "clear"} :
             /\ Goto(c, s) /\ (s = "start" => cli[c].pid = Nil)
             /\ s = "clear" => cli[c].pid \in Pids
        BY <2>1, <2>2
    <2>4. cli' \in [Cmds -> Commands] /\ Others(c) /\ Shape(c)' /\ Moves(c)
        BY <1>3, <2>1, <2>2, <2>3 DEF Connecting, Found
    <2> QED
        BY <1>0, <1>1, <2>1, <2>4
<1>8. CASE StartProcess(c)
    <2> DEFINE s == IF cli[c].w \in BridgeFirst THEN "clear" ELSE "bridge"
    <2>1. PICK p \in Pids :
             /\ procs[p] = Nil /\ ~Held(p) /\ (Collisions \/ Distinct(cli[c].w, p))
             /\ procs' = [procs EXCEPT ![p] = [w |-> cli[c].w, ip |-> cli[c].ip]]
             /\ IF cli[c].w \in Unlinked
                THEN Exit(c)
                ELSE cli' = [cli EXCEPT ![c] = [cli[c] EXCEPT !.pc = s, !.pid = p]]
        BY <1>8 DEF StartProcess
    <2>2. cli[c].pc = "start" /\ cli[c].w \in Workloads /\ cli[c].pid = Nil
          /\ (cli[c].w \in Unfiltered => cli[c].ip)
        BY <1>8, <1>s DEF StartProcess, At, Shape
    <2>3. [w |-> cli[c].w, ip |-> cli[c].ip] \in Proc
        BY <1>0, <2>2 DEF Proc, Commands
    <2>4. procs' \in [Pids -> Proc \cup {Nil}]
        BY <1>0, <2>1, <2>3
    <2>5. CASE cli[c].w \in Unlinked
        <3>1. cli' \in [Cmds -> Commands] /\ Others(c) /\ cli'[c] = Idle
            BY <1>0, <2>1, <2>5, SetMoves, IdleTyped DEF Exit
        <3>2. Shape(c)'
            BY <3>1, IdleTyped, WorkloadAssumption, NilAssumption DEF Shape, Connecting, Found
        <3>3. Starts(c, p)
            BY <2>1, <2>2, <2>5, <3>1 DEF Starts
        <3> QED
            BY <1>0, <1>1, <1>8, <2>4, <3>1, <3>2, <3>3 DEF StartProcess
    <2>6. CASE cli[c].w \notin Unlinked
        <3> DEFINE r == [cli[c] EXCEPT !.pc = s, !.pid = p]
        <3>1. /\ r \in Commands /\ r.pc = s /\ r.w = cli[c].w /\ r.ip = cli[c].ip /\ r.pid = p
            BY <1>0 DEF Commands, Steps
        <3>2. cli' = [cli EXCEPT ![c] = r]
            BY <2>1, <2>6
        <3> HIDE DEF r
        <3>3. cli' \in [Cmds -> Commands] /\ Others(c) /\ cli'[c] = r
            BY <1>0, <3>1, <3>2, SetMoves
        <3>4. Shape(c)'
            BY <2>6, <2>2, <3>1, <3>3 DEF Shape, Connecting, Found
        <3>5. Starts(c, p)
            BY <2>1, <2>2, <3>1, <3>3 DEF Starts
        <3> QED
            BY <1>0, <1>1, <1>8, <2>4, <3>3, <3>4, <3>5 DEF StartProcess
    <2> QED
        BY <2>5, <2>6
<1>9. ASSUME NEW S \in SUBSET Ids, LinkDel(S) PROVE links' \in [Ids -> Link \cup {Nil}]
    BY <1>0, <1>9 DEF LinkDel
<1>10. ASSUME NEW n PROVE Outside(n) \in SUBSET Ids /\ Inside(n) \in SUBSET Ids
    BY DEF Outside, Inside
<1>11. CASE ClearLinks(c)
    <2>1. links' \in [Ids -> Link \cup {Nil}]
        BY <1>9, <1>10, <1>11 DEF ClearLinks
    <2>2. cli' \in [Cmds -> Commands] /\ Others(c) /\ Shape(c)' /\ Moves(c)
        BY <1>3, <1>s, <1>11, "add" \in Steps DEF ClearLinks, At, Shape, Connecting, Found, Steps
    <2> QED
        BY <1>0, <1>1, <1>11, <2>1, <2>2 DEF ClearLinks
<1>12. CASE AddLink(c)
    <2>1. cli[c].pc = "add" /\ cli[c].pid \in Pids /\ Own(c) \in Ids
        BY <1>s, <1>12 DEF AddLink, At, Shape, Connecting, Own, Ids
    <2>2. links' \in [Ids -> Link \cup {Nil}]
        <3>1. CASE UNCHANGED links
            BY <1>0, <3>1
        <3>2. CASE links' = [links EXCEPT ![Own(c)] = Fresh]
            <4>1. Fresh \in Link
                BY DEF Fresh, Link
            <4> HIDE DEF Fresh
            <4> QED
                BY <1>0, <2>1, <3>2, <4>1
        <3> QED
            BY <1>12, <3>1, <3>2 DEF AddLink
    <2>3. /\ cli' \in [Cmds -> Commands] /\ Others(c) /\ Shape(c)'
          /\ Moves(c) \/ Leaves(c)
        <3>1. /\ Goto(c, "find") \/ Exit(c)
              /\ UNCHANGED procs /\ cli[c].pc \in Connecting
            BY <1>12, <2>1 DEF AddLink, Connecting, Found
        <3> QED
            BY <1>a, <2>1, <3>1
    <2> QED
        BY <1>0, <1>1, <1>12, <2>2, <2>3 DEF AddLink
<1>13. CASE FindEnds(c)
    <2>1. CASE Exit(c)
        BY <1>0, <1>1, <1>2, <1>13, <2>1 DEF FindEnds
    <2>2. ASSUME NEW i \in Inside(Name(Own(c))), NEW o \in Outside(Name(Own(c))),
                 cli' = [cli EXCEPT ![c] = [cli[c] EXCEPT !.pc = "attach", !.in = i, !.out = o]]
          PROVE  Goal
        <3> DEFINE r == [cli[c] EXCEPT !.pc = "attach", !.in = i, !.out = o]
        <3>1. i \in Ids /\ o \in Ids /\ Name(i) = Name(Own(c)) /\ Name(o) = Name(Own(c))
            BY DEF Inside, Outside
        <3>2. /\ r \in Commands /\ r.pc = "attach" /\ r.w = cli[c].w /\ r.ip = cli[c].ip
              /\ r.pid = cli[c].pid /\ r.in = i /\ r.out = o
            BY <1>0, <3>1 DEF Commands, Steps
        <3> HIDE DEF r
        <3>3. cli' \in [Cmds -> Commands] /\ Others(c) /\ cli'[c] = r
            BY <1>0, <2>2, <3>2, SetMoves DEF r
        <3>4. Own(c)' = Own(c) /\ cli[c].pc = "find"
            BY <1>13, <3>2, <3>3 DEF Own, FindEnds, At
        <3>5. Shape(c)'
            BY <1>s, <3>1, <3>2, <3>3, <3>4 DEF Shape, Connecting, Found
        <3>6. Moves(c)
            BY <1>13, <3>2, <3>3 DEF Moves, FindEnds
        <3> QED
            BY <1>0, <1>1, <1>13, <3>3, <3>5, <3>6 DEF FindEnds
    <2> QED
        BY <1>13, <2>1, <2>2 DEF FindEnds
<1>14. CASE Attach(c)
    <2>1. cli[c].pc = "attach" /\ cli[c].out \in Ids /\ cli[c].pid \in Pids
        BY <1>s, <1>14 DEF Attach, At, Shape, Found, Connecting
    <2>2. links' \in [Ids -> Link \cup {Nil}]
        <3>1. CASE UNCHANGED links
            BY <1>0, <3>1
        <3>2. CASE Exists(cli[c].out) /\ links' = [links EXCEPT ![cli[c].out].attached = TRUE]
            <4> DEFINE l == [links[cli[c].out] EXCEPT !.attached = TRUE]
            <4>1. links[cli[c].out] \in Link
                BY <1>0, <2>1, <3>2 DEF Exists
            <4>2. l \in Link
                BY <2>1, <4>1, LinkTyped
            <4>3. links' = [links EXCEPT ![cli[c].out] = l]
                BY <3>2
            <4> HIDE DEF l
            <4> QED
                BY <1>0, <2>1, <4>2, <4>3, LinksTyped
        <3> QED
            BY <1>14, <3>1, <3>2 DEF Attach
    <2>3. /\ cli' \in [Cmds -> Commands] /\ Others(c) /\ Shape(c)'
          /\ Moves(c) \/ Leaves(c)
        <3>1. /\ Goto(c, "move") \/ Exit(c)
              /\ UNCHANGED procs /\ cli[c].pc \in Connecting /\ cli[c].pc \in Found
            BY <1>14, <2>1 DEF Attach, Connecting, Found
        <3> QED
            BY <1>a, <2>1, <3>1
    <2> QED
        BY <1>0, <1>1, <1>14, <2>2, <2>3 DEF Attach
<1>15. CASE MoveLinkToPID(c)
    <2>1. cli[c].pc = "move" /\ cli[c].in \in Ids /\ cli[c].pid \in Pids
        BY <1>s, <1>15 DEF MoveLinkToPID, At, Shape, Found, Connecting
    <2>2. links' \in [Ids -> Link \cup {Nil}]
        <3>1. CASE UNCHANGED links
            BY <1>0, <3>1
        <3>2. CASE Exists(cli[c].in) /\ links' = [links EXCEPT ![cli[c].in].inner = cli[c].pid]
            <4> DEFINE l == [links[cli[c].in] EXCEPT !.inner = cli[c].pid]
            <4>1. links[cli[c].in] \in Link
                BY <1>0, <2>1, <3>2 DEF Exists
            <4>2. l \in Link
                BY <2>1, <4>1, LinkTyped
            <4>3. links' = [links EXCEPT ![cli[c].in] = l]
                BY <3>2
            <4> HIDE DEF l
            <4> QED
                BY <1>0, <2>1, <4>2, <4>3, LinksTyped
        <3> QED
            BY <1>15, <3>1, <3>2 DEF MoveLinkToPID
    <2>3. /\ cli' \in [Cmds -> Commands] /\ Others(c) /\ Shape(c)'
          /\ Moves(c) \/ Leaves(c)
        <3>1. /\ Goto(c, "configure") \/ Exit(c)
              /\ UNCHANGED procs /\ cli[c].pc \in Connecting /\ cli[c].pc \in Found
            BY <1>15, <2>1 DEF MoveLinkToPID, Connecting, Found
        <3> QED
            BY <1>a, <2>1, <3>1
    <2> QED
        BY <1>0, <1>1, <1>15, <2>2, <2>3 DEF MoveLinkToPID
<1>16. CASE Configure(c)
    <2>1. cli[c].pc = "configure" /\ cli[c].pid \in Pids
        BY <1>s, <1>16 DEF Configure, At, Shape, Connecting
    <2>2. \A id \in InNamespace(c) : id \in Ids /\ links[id] \in Link
        BY <1>0 DEF InNamespace, Outside, Exists
    <2>3. links' \in [Ids -> Link \cup {Nil}]
        <3>1. CASE UNCHANGED links
            BY <1>0, <3>1
        <3>2. ASSUME NEW id \in InNamespace(c), links' = [links EXCEPT ![id].addr = TRUE]
              PROVE  links' \in [Ids -> Link \cup {Nil}]
            <4> DEFINE l == [links[id] EXCEPT !.addr = TRUE]
            <4>1. l \in Link
                BY <2>2, LinkTyped
            <4>2. links' = [links EXCEPT ![id] = l]
                BY <3>2
            <4> HIDE DEF l
            <4> QED
                BY <1>0, <2>2, <4>1, <4>2, LinksTyped
        <3> QED
            BY <1>16, <3>1, <3>2 DEF Configure
    <2>4. /\ cli' \in [Cmds -> Commands] /\ Others(c) /\ Shape(c)'
          /\ Moves(c) \/ Leaves(c)
        <3>1. /\ Goto(c, "rules") \/ Exit(c)
              /\ UNCHANGED procs /\ cli[c].pc \in Connecting /\ cli[c].pc \in Found
            BY <1>16, <2>1 DEF Configure, Connecting, Found
        <3> QED
            BY <1>a, <2>1, <3>1
    <2> QED
        BY <1>0, <1>1, <1>16, <2>3, <2>4 DEF Configure
<1>17. CASE AddRules(c)
    <2>1. cli[c].pid \in Pids
        BY <1>s, <1>17 DEF AddRules, At, Shape, Connecting
    <2>2. filtered' \in SUBSET Pids
        BY <1>0, <1>17, <2>1 DEF AddRules
    <2> QED
        BY <1>0, <1>1, <1>2, <1>17, <2>2 DEF AddRules
<1>18. CASE Unlink(c)
    <2>1. PICK n \in cli[c].todo :
             /\ LinkDel(Outside(n))
             /\ Exit(c) \/ cli' = [cli EXCEPT ![c].todo = @ \ {n}]
        BY <1>18 DEF Unlink
    <2>2. links' \in [Ids -> Link \cup {Nil}]
        BY <1>9, <1>10, <2>1
    <2>3. CASE Exit(c)
        BY <1>0, <1>1, <1>2, <1>18, <2>2, <2>3 DEF Unlink
    <2>4. CASE cli' = [cli EXCEPT ![c].todo = @ \ {n}]
        <3> DEFINE r == [cli[c] EXCEPT !.todo = @ \ {n}]
        <3>1. /\ r \in Commands /\ r.pc = cli[c].pc /\ r.w = cli[c].w /\ r.ip = cli[c].ip
              /\ r.pid = cli[c].pid
            BY <1>0 DEF Commands
        <3>2. cli' = [cli EXCEPT ![c] = r]
            BY <2>4
        <3> HIDE DEF r
        <3>3. cli' \in [Cmds -> Commands] /\ Others(c) /\ cli'[c] = r
            BY <1>0, <3>1, <3>2, SetMoves
        <3>4. Shape(c)' /\ Moves(c)
            BY <1>s, <1>18, <3>1, <3>3 DEF Shape, Moves, Unlink, At, Connecting, Found
        <3> QED
            BY <1>0, <1>1, <1>18, <2>2, <3>3, <3>4 DEF Unlink
    <2> QED
        BY <2>1, <2>3, <2>4
<1> QED
    BY <1>4, <1>5, <1>6, <1>7, <1>8, <1>11, <1>12, <1>13, <1>14, <1>15, <1>16, <1>17, <1>18
    DEF Step

\* Processes end, and their interfaces go.
LEMMA EnvironmentStep ==
    ASSUME IInv, (\E p \in Pids : ProcessEnds(p)) \/ \E id \in Ids : NamespaceGone(id)
    PROVE  IInv' /\ cli' = cli /\ faults' = faults
<1>0. /\ bridge \in {"none", "added", "ready"} /\ links \in [Ids -> Link \cup {Nil}]
      /\ procs \in [Pids -> Proc \cup {Nil}] /\ filtered \in SUBSET Pids
      /\ cli \in [Cmds -> Commands] /\ faults \in 0 .. MaxFaults
    BY DEF IInv, TypeOK
<1>1. cli' = cli /\ bridge' = bridge /\ faults' = faults
    BY DEF ProcessEnds, NamespaceGone
<1>2. \A c \in Cmds : Shape(c)'
    BY <1>1 DEF IInv, Shape, Own
<1>3. CASE \E p \in Pids : ProcessEnds(p)
    <2>1. PICK p \in Pids : ProcessEnds(p)
        BY <1>3
    <2>2. procs' \in [Pids -> Proc \cup {Nil}] /\ filtered' \in SUBSET Pids
        BY <1>0, <2>1 DEF ProcessEnds
    <2>3. links' \in [Ids -> Link \cup {Nil}]
        <3> DEFINE gone == [Fresh EXCEPT !.inner = "gone"]
        <3>1. gone \in Link
            BY DEF Fresh, Link
        <3>2. links' = [id \in Ids |-> IF Exists(id) /\ links[id].inner = p
                                       THEN gone ELSE links[id]]
            BY <2>1 DEF ProcessEnds
        <3> HIDE DEF gone
        <3> QED
            BY <1>0, <3>1, <3>2
    <2> QED
        BY <1>0, <1>1, <1>2, <2>2, <2>3 DEF IInv, TypeOK
<1>4. CASE \E id \in Ids : NamespaceGone(id)
    <2>1. links' \in [Ids -> Link \cup {Nil}] /\ UNCHANGED <<procs, filtered>>
        BY <1>0, <1>4 DEF NamespaceGone, LinkDel
    <2> QED
        BY <1>0, <1>1, <1>2, <2>1 DEF IInv, TypeOK
<1> QED
    BY <1>1, <1>3, <1>4

LEMMA NextIInv == IInv /\ [Next]_vars => IInv'
<1> SUFFICES ASSUME IInv, [Next]_vars PROVE IInv'
    OBVIOUS
<1>1. CASE Next
    BY <1>1, CommandStep, EnvironmentStep DEF Next
<1>2. CASE UNCHANGED vars
    BY <1>2 DEF vars, IInv, TypeOK, Shape, Own
<1> QED
    BY <1>1, <1>2

LEMMA IInvInvariant == Spec => []IInv
BY InitIInv, NextIInv, PTL DEF Spec

\* The state of the host and of every command stays one the code can be in.
THEOREM TypeCorrect == Spec => []TypeOK
<1>1. IInv => TypeOK
    BY DEF IInv
<1> QED
    BY <1>1, IInvInvariant, PTL

-----------------------------------------------------------------------------
(* Names *)

\* Process p of workload w runs, or a command is at work on it.
Claims(w, p) == \/ procs[p] # Nil /\ procs[p].w = w
                \/ \E c \in Cmds : Own(c) = <<w, p>>

\* One command works on a process ...
OnePid == \A c, d \in Cmds : c # d /\ cli[c].pid \in Pids => cli[d].pid # cli[c].pid

\* ... and knows which workload it is.
SameProc == \A c \in Cmds :
               cli[c].pid \in Pids /\ procs[cli[c].pid] # Nil =>
                  /\ procs[cli[c].pid].w = cli[c].w
                  /\ procs[cli[c].pid].ip = cli[c].ip

\* No two processes share the names of their interfaces.
NamesApart == \A w, v \in Workloads, p, q \in Pids :
                 p # q /\ Claims(w, p) /\ Claims(v, q) => Name(<<w, p>>) # Name(<<v, q>>)

NInv == IInv /\ OnePid /\ SameProc /\ NamesApart

LEMMA InitNInv == Init => NInv
BY InitIInv, IdleTyped, PidAssumption
DEF Init, NInv, OnePid, SameProc, NamesApart, Claims, Own

\* When no process gets the names of another, neither does a command.
LEMMA NamesStep ==
    ASSUME ~Collisions, NInv, NEW c \in Cmds,
           Moves(c) \/ Leaves(c) \/ \E p \in Pids : Starts(c, p)
    PROVE  OnePid' /\ SameProc' /\ NamesApart'
<1>0. /\ procs \in [Pids -> Proc \cup {Nil}] /\ cli \in [Cmds -> Commands]
      /\ OnePid /\ SameProc /\ NamesApart /\ Nil \notin Pids
    BY PidAssumption DEF NInv, IInv, TypeOK
<1>1. CASE Moves(c) \/ Leaves(c)
    <2>1. \A o \in Cmds : cli'[o].pid \in Pids =>
             /\ cli'[o].pid = cli[o].pid /\ cli'[o].w = cli[o].w /\ cli'[o].ip = cli[o].ip
        BY <1>0, <1>1, IdleTyped DEF Moves, Leaves, Others
    <2>2. procs' = procs
        BY <1>1 DEF Moves, Leaves
    <2>3. OnePid'
        BY <1>0, <2>1, PidAssumption DEF OnePid, Commands
    <2>4. SameProc'
        BY <1>0, <2>1, <2>2 DEF SameProc
    <2>5. \A w \in Workloads, p \in Pids : Claims(w, p)' => Claims(w, p)
        BY <2>1, <2>2 DEF Claims, Own
    <2>6. NamesApart'
        BY <1>0, <2>5 DEF NamesApart, Name
    <2> QED
        BY <2>3, <2>4, <2>6
<1>2. ASSUME NEW p \in Pids, Starts(c, p) PROVE OnePid' /\ SameProc' /\ NamesApart'
    <2>1. /\ \A o \in Cmds : o # c => cli'[o] = cli[o] /\ cli[o].pid # p
          /\ \/ cli'[c].pid = p /\ cli'[c].w = cli[c].w /\ cli'[c].ip = cli[c].ip
             \/ cli'[c].pid = Nil
          /\ cli[c].pid = Nil /\ Nil \notin Pids
        BY <1>2, IdleTyped, PidAssumption DEF Starts, Others, Held
    <2>2. /\ procs'[p] = [w |-> cli[c].w, ip |-> cli[c].ip]
          /\ \A q \in Pids : q # p => procs'[q] = procs[q]
        BY <1>0, <1>2 DEF Starts
    <2>3. OnePid'
        BY <1>0, <2>1 DEF OnePid
    <2>4. SameProc'
        BY <1>0, <2>1, <2>2 DEF SameProc
    <2>5. \A w \in Workloads, q \in Pids : Claims(w, q)' /\ q # p => Claims(w, q)
        BY <2>1, <2>2 DEF Claims, Own
    <2>6. \A w \in Workloads : Claims(w, p)' => w = cli[c].w
        BY <1>0, <2>1, <2>2 DEF Claims, Own
    <2>7. \A v \in Workloads, q \in Pids :
             p # q /\ Claims(v, q) => Name(<<v, q>>) # Name(<<cli[c].w, p>>)
        <3>1. Distinct(cli[c].w, p)
            BY <1>2 DEF Starts
        <3> QED
            BY <3>1 DEF Distinct, Claims, Name
    <2>8. NamesApart'
        <3> SUFFICES ASSUME NEW w \in Workloads, NEW v \in Workloads,
                            NEW q \in Pids, NEW u \in Pids, q # u,
                            Claims(w, q)', Claims(v, u)'
                     PROVE  Name(<<w, q>>) # Name(<<v, u>>)
            BY DEF NamesApart, Name
        <3>1. CASE q = p
            BY <2>5, <2>6, <2>7, <3>1
        <3>2. CASE u = p
            BY <2>5, <2>6, <2>7, <3>2
        <3>3. CASE q # p /\ u # p
            BY <1>0, <2>5, <3>3 DEF NamesApart
        <3> QED
            BY <3>1, <3>2, <3>3
    <2> QED
        BY <2>3, <2>4, <2>8
<1> QED
    BY <1>1, <1>2

LEMMA NextNInv == ASSUME ~Collisions PROVE NInv /\ [Next]_vars => NInv'
<1> SUFFICES ASSUME NInv, [Next]_vars PROVE NInv'
    OBVIOUS
<1>0. IInv /\ IInv'
    BY NextIInv DEF NInv
<1>1. ASSUME NEW c \in Cmds,
             \/ Step(c) \/ Crash(c) \/ RunCleanup(c)
             \/ \E w \in Workloads, ip \in BOOLEAN : Begin(c, w, ip)
      PROVE  NInv'
    <2>1. Moves(c) \/ Leaves(c) \/ \E p \in Pids : Starts(c, p)
        BY <1>0, <1>1, CommandStep
    <2> QED
        BY <1>0, <2>1, NamesStep DEF NInv
<1>2. CASE (\E p \in Pids : ProcessEnds(p)) \/ \E id \in Ids : NamespaceGone(id)
    <2>1. cli' = cli
        BY <1>0, <1>2, EnvironmentStep
    <2>2. \A p \in Pids : procs'[p] = procs[p] \/ procs'[p] = Nil
        BY <1>0, <1>2 DEF ProcessEnds, NamespaceGone, IInv, TypeOK
    <2>3. OnePid' /\ SameProc'
        BY <2>1, <2>2 DEF NInv, OnePid, SameProc
    <2>4. \A w \in Workloads, p \in Pids : Claims(w, p)' => Claims(w, p)
        BY <2>1, <2>2 DEF Claims, Own
    <2>5. NamesApart'
        BY <2>4 DEF NInv, NamesApart, Name
    <2> QED
        BY <1>0, <2>3, <2>5 DEF NInv
<1>3. CASE UNCHANGED vars
    <2>1. cli' = cli /\ procs' = procs
        BY <1>3 DEF vars
    <2> QED
        BY <1>0, <2>1 DEF NInv, OnePid, SameProc, NamesApart, Claims, Own, Name
<1> QED
    BY <1>1, <1>2, <1>3 DEF Next

LEMMA NInvInvariant == ASSUME ~Collisions PROVE Spec => []NInv
<1>1. NInv /\ [Next]_vars => NInv'
    BY NextNInv
<1> QED
    BY <1>1, InitNInv, PTL DEF Spec

-----------------------------------------------------------------------------
(* Links *)

\* A step of ConnectProcessToBridge touches links of the names of its process only.
LEMMA OwnNamesOnly ==
    ASSUME IInv, NEW c \in Cmds, Step(c), cli[c].pc # "unlink", NEW id \in Ids
    PROVE  \/ links'[id] = links[id]
           \/ cli[c].pid \in Pids /\ cli[c].w \in Workloads /\ Name(id) = Name(Own(c))
<1>0. links \in [Ids -> Link \cup {Nil}] /\ Shape(c)
    BY DEF IInv, TypeOK
<1>1. CASE FindBridge(c) \/ AddBridge(c) \/ UpBridge(c) \/ StartProcess(c) \/ FindEnds(c)
           \/ AddRules(c)
    BY <1>1 DEF FindBridge, AddBridge, UpBridge, StartProcess, FindEnds, AddRules
<1>2. ASSUME cli[c].pc \in Connecting
      PROVE  cli[c].pid \in Pids /\ cli[c].w \in Workloads
    BY <1>0, <1>2 DEF Shape, Connecting
<1>3. CASE ClearLinks(c)
    <2>1. cli[c].pc \in Connecting /\ LinkDel(Outside(Name(Own(c))))
        BY <1>3 DEF ClearLinks, At, Connecting
    <2> QED
        BY <1>2, <2>1 DEF LinkDel, Outside
<1>4. CASE AddLink(c)
    <2>1. cli[c].pc \in Connecting
        BY <1>4 DEF AddLink, At, Connecting
    <2>2. links' = links \/ links' = [links EXCEPT ![Own(c)] = Fresh]
        BY <1>4 DEF AddLink
    <2> QED
        BY <1>0, <1>2, <2>1, <2>2
<1>5. CASE Attach(c)
    <2>1. cli[c].pc \in Connecting /\ Name(cli[c].out) = Name(Own(c))
        BY <1>0, <1>5 DEF Attach, At, Connecting, Shape, Found
    <2>2. links' = links \/ links' = [links EXCEPT ![cli[c].out].attached = TRUE]
        BY <1>5 DEF Attach
    <2> QED
        BY <1>0, <1>2, <2>1, <2>2
<1>6. CASE MoveLinkToPID(c)
    <2>1. cli[c].pc \in Connecting /\ Name(cli[c].in) = Name(Own(c))
        BY <1>0, <1>6 DEF MoveLinkToPID, At, Connecting, Shape, Found
    <2>2. links' = links \/ links' = [links EXCEPT ![cli[c].in].inner = cli[c].pid]
        BY <1>6 DEF MoveLinkToPID
    <2> QED
        BY <1>0, <1>2, <2>1, <2>2
<1>7. CASE Configure(c)
    <2>1. cli[c].pc \in Connecting
        BY <1>7 DEF Configure, At, Connecting
    <2>2. links' = links \/ \E i \in InNamespace(c) : links' = [links EXCEPT ![i].addr = TRUE]
        BY <1>7 DEF Configure
    <2>3. \A i \in InNamespace(c) : Name(i) = Name(Own(c))
        BY DEF InNamespace, Outside
    <2> QED
        BY <1>0, <1>2, <2>1, <2>2, <2>3
<1>8. ~Unlink(c)
    BY DEF Unlink, At
<1> QED
    BY <1>1, <1>3, <1>4, <1>5, <1>6, <1>7, <1>8 DEF Step

\* The commands that take no netlink step.
LEMMA OtherSteps ==
    ASSUME NEW c \in Cmds,
           \/ Crash(c) \/ RunCleanup(c)
           \/ \E w \in Workloads, ip \in BOOLEAN : Begin(c, w, ip)
    PROVE  links' = links
BY DEF Crash, RunCleanup, Begin

LEMMA LinkStep ==
    ASSUME NInv, [Next]_vars, NEW p \in Pids, Settled(p),
           Exists(<<procs[p].w, p>>), links[<<procs[p].w, p>>].inner = p
    PROVE  \/ links'[<<procs[p].w, p>>] = links[<<procs[p].w, p>>]
           \/ procs'[p] = Nil
           \/ \E c \in Cmds : At(c, "unlink") /\ cli'[c] # cli[c]
<1> DEFINE id == <<procs[p].w, p>>
<1>0. /\ links \in [Ids -> Link \cup {Nil}] /\ procs \in [Pids -> Proc \cup {Nil}]
      /\ cli \in [Cmds -> Commands] /\ IInv
    BY DEF NInv, IInv, TypeOK
<1>1. procs[p] # Nil /\ procs[p].w \in Workloads /\ id \in Ids /\ Claims(procs[p].w, p)
    BY <1>0 DEF Settled, Proc, Ids, Claims
<1>2. ASSUME NEW c \in Cmds, Step(c), cli[c].pc # "unlink" PROVE links'[id] = links[id]
    <2>1. CASE cli[c].pid \in Pids /\ cli[c].w \in Workloads
        <3>1. Claims(cli[c].w, cli[c].pid) /\ cli[c].pid # p
            BY DEF Claims, Own, Settled
        <3>2. Name(id) # Name(Own(c))
            BY <1>1, <2>1, <3>1 DEF NInv, NamesApart, Own
        <3> QED
            BY <1>0, <1>1, <1>2, <3>2, OwnNamesOnly
    <2>2. CASE ~(cli[c].pid \in Pids /\ cli[c].w \in Workloads)
        BY <1>0, <1>1, <1>2, <2>2, OwnNamesOnly
    <2> QED
        BY <2>1, <2>2
<1>3. ASSUME NEW c \in Cmds, Step(c), cli[c].pc = "unlink" PROVE cli'[c] # cli[c]
    <2>1. Unlink(c)
        BY <1>3 DEF Step, At, FindBridge, AddBridge, UpBridge, StartProcess, ClearLinks,
           AddLink, FindEnds, Attach, MoveLinkToPID, Configure, AddRules
    <2>2. CASE Exit(c)
        BY <1>0, <1>3, <2>2, IdleTyped DEF Exit
    <2>3. ASSUME NEW n \in cli[c].todo, cli' = [cli EXCEPT ![c].todo = @ \ {n}]
          PROVE  cli'[c] # cli[c]
        <3>1. cli'[c].todo = cli[c].todo \ {n}
            BY <1>0, <2>3 DEF Commands
        <3> QED
            BY <2>3, <3>1
    <2> QED
        BY <2>1, <2>2, <2>3 DEF Unlink
<1>4. ASSUME NEW q \in Pids, ProcessEnds(q)
      PROVE  links'[id] = links[id] \/ procs'[p] = Nil
    <2>1. CASE q = p
        BY <1>0, <1>4, <2>1 DEF ProcessEnds
    <2>2. CASE q # p
        BY <1>0, <1>1, <1>4, <2>2 DEF ProcessEnds
    <2> QED
        BY <2>1, <2>2
<1>5. ASSUME NEW i \in Ids, NamespaceGone(i) PROVE links'[id] = links[id]
    <2>1. i # id
        BY <1>5, PidAssumption DEF NamespaceGone
    <2> QED
        BY <1>0, <1>1, <1>5, <2>1 DEF NamespaceGone, LinkDel
<1>6. CASE UNCHANGED vars
    BY <1>6 DEF vars
<1> QED
    BY <1>2, <1>3, <1>4, <1>5, <1>6, OtherSteps DEF Next, At

\* network_manager.go:511: as long as no process gets the interface names of a
\* running one, no command touches the link of a process that another command has
\* connected; cleanup apart, it goes with its process only.
THEOREM LinksLeft == ASSUME ~Collisions PROVE Spec => LinksLeftAlone
<1>1. NInv /\ [Next]_vars =>
        [\A p \in Pids :
           LET id == <<procs[p].w, p>>
           IN  Settled(p) /\ Exists(id) /\ links[id].inner = p =>
                  \/ links'[id] = links[id]
                  \/ procs'[p] = Nil
                  \/ \E c \in Cmds : At(c, "unlink") /\ cli'[c] # cli[c]]_vars
    BY LinkStep
<1> QED
    BY <1>1, NInvInvariant, PTL DEF Spec, LinksLeftAlone

-----------------------------------------------------------------------------
(* Connections *)

\* What a command has done to the link of its process, while the process runs.
Progress(c) ==
    LET k == cli[c]
        l == links[Own(c)]
    IN  k.pid \in Pids /\ procs[k.pid] # Nil =>
          /\ k.pc = "add" => Outside(Name(Own(c))) = {}
          /\ k.pc \in {"find"} \cup Found => Outside(Name(Own(c))) = {Own(c)}
          /\ k.pc \in Found => k.in = Own(c) /\ k.out = Own(c)
          /\ k.pc \in {"find", "attach", "move"} => l.inner = "host"
          /\ k.pc \in {"move", "configure", "rules"} => l.attached
          /\ k.pc \in {"configure", "rules"} => l.inner = k.pid
          /\ k.pc \in {"find", "attach", "move", "configure"} => ~l.addr
          /\ k.pc = "rules" => l.addr /\ k.ip

\* The firewall is set up last.
FilteredLast == /\ \A p \in filtered : procs[p] # Nil
                /\ \A c \in Cmds : cli[c].pid \notin filtered

Connected(p) ==
    LET l == links[<<procs[p].w, p>>]
    IN  /\ l # Nil /\ l.inner = p /\ l.attached
        /\ procs[p].ip <=> l.addr
        /\ procs[p].ip <=> p \in filtered \/ procs[p].w \in Unfiltered

CInv ==
    /\ NInv /\ FilteredLast
    /\ faults = 0 => /\ \A c \in Cmds : cli[c].pc # "unlink" /\ Progress(c)
                     /\ \A p \in Pids :
                            Settled(p) /\ procs[p].w \notin Unlinked => Connected(p)

LEMMA InitCInv == Init => CInv
<1> SUFFICES ASSUME Init PROVE CInv
    OBVIOUS
<1>1. \A c \in Cmds : cli[c].pid = Nil /\ cli[c].pc = "idle"
    BY IdleTyped DEF Init
<1>2. \A p \in Pids : procs[p] = Nil
    BY DEF Init
<1>3. NInv /\ FilteredLast
    BY InitNInv DEF Init, FilteredLast
<1>4. \A c \in Cmds : Progress(c)
    BY <1>1, PidAssumption DEF Progress
<1> QED
    BY <1>1, <1>2, <1>3, <1>4 DEF CInv, Settled

\* A command not about to change its link loses nothing, ...
LEMMA ProgressFree ==
    ASSUME NEW c \in Cmds, cli'[c].pc \notin {"add", "find"} \cup Found
    PROVE  Progress(c)'
BY DEF Progress, Found

\* ... nor does one whose link is left alone.
LEMMA ProgressKept ==
    ASSUME NEW c \in Cmds, IInv, Progress(c), cli'[c] = cli[c],
           procs'[cli[c].pid] # Nil => procs[cli[c].pid] # Nil,
           links' \in [Ids -> Link \cup {Nil}],
           \A id \in Ids : Name(id) = Name(Own(c)) /\ links'[id] # Nil => links[id] # Nil,
           procs'[cli[c].pid] # Nil /\ Own(c) \in Ids /\ links[Own(c)] # Nil
             /\ links[Own(c)].inner \in {"host", cli[c].pid} => links'[Own(c)] = links[Own(c)]
    PROVE  Progress(c)'
<1>1. Own(c)' = Own(c) /\ Name(Own(c))' = Name(Own(c))
    BY DEF Own, Name
<1>2. Outside(Name(Own(c)))' \subseteq Outside(Name(Own(c)))
    BY <1>1 DEF Outside, Exists, Name
<1>3. CASE cli[c].pid \in Pids /\ procs'[cli[c].pid] # Nil /\ cli[c].pc \in {"find"} \cup Found
    <2>1. /\ Outside(Name(Own(c))) = {Own(c)}
          /\ links[Own(c)].inner \in {"host", cli[c].pid}
        BY <1>3 DEF Progress, Found
    <2>2. Own(c) \in Ids /\ links[Own(c)] # Nil
        BY <2>1 DEF Outside, Exists
    <2>3. links'[Own(c)] = links[Own(c)]
        BY <1>3, <2>1, <2>2
    <2>4. Outside(Name(Own(c)))' = {Own(c)}
        BY <1>1, <1>2, <2>1, <2>2, <2>3 DEF Outside, Exists, Name
    <2> QED
        BY <1>1, <1>3, <2>3, <2>4 DEF Progress, Found
<1>4. CASE cli[c].pid \in Pids /\ procs'[cli[c].pid] # Nil /\ cli[c].pc = "add"
    <2>1. Outside(Name(Own(c)))' = {}
        BY <1>2, <1>4 DEF Progress
    <2> QED
        BY <1>4, <2>1 DEF Progress, Found
<1> QED
    BY <1>3, <1>4 DEF Progress, Found

\* The link of a process that runs, once it has been made.
LEMMA OwnLink ==
    ASSUME IInv, NEW c \in Cmds, Progress(c), cli[c].pid \in Pids, procs[cli[c].pid] # Nil,
           cli[c].pc \in {"find"} \cup Found
    PROVE  /\ Own(c) \in Ids /\ Exists(Own(c)) /\ links[Own(c)] \in Link
           /\ Outside(Name(Own(c))) = {Own(c)}
           /\ links[Own(c)].inner = "host" => Inside(Name(Own(c))) = {Own(c)}
           /\ links[Own(c)].inner = cli[c].pid => InNamespace(c) = {Own(c)}
<1>1. Outside(Name(Own(c))) = {Own(c)}
    BY DEF Progress
<1>2. Own(c) \in Ids /\ Exists(Own(c))
    BY <1>1 DEF Outside
<1>3. links[Own(c)] \in Link
    BY <1>2 DEF IInv, TypeOK, Exists
<1> QED
    BY <1>1, <1>2, <1>3 DEF Inside, InNamespace

\* Changing a field of the command's own link.
LEMMA OwnLinkChanged ==
    ASSUME IInv, NEW c \in Cmds, Progress(c), cli[c].pid \in Pids, procs[cli[c].pid] # Nil,
           cli[c].pc \in {"find"} \cup Found, Own(c)' = Own(c), NEW l \in Link,
           links' = [links EXCEPT ![Own(c)] = l]
    PROVE  links'[Own(c)] = l /\ Outside(Name(Own(c)))' = {Own(c)}
<1>1. Own(c) \in Ids /\ Exists(Own(c)) /\ Outside(Name(Own(c))) = {Own(c)}
    BY OwnLink
<1>2. links'[Own(c)] = l /\ \A id \in Ids : id # Own(c) => links'[id] = links[id]
    BY <1>1 DEF IInv, TypeOK
<1>3. l # Nil
    BY NilAssumption
<1>4. \A id \in Ids : Exists(id)' <=> Exists(id)
    BY <1>1, <1>2, <1>3 DEF Exists
<1>5. Outside(Name(Own(c)))' = Outside(Name(Own(c)))
    BY <1>4 DEF Outside, Name
<1> QED
    BY <1>1, <1>2, <1>5

\* A command's own steps.
LEMMA OwnProgress ==
    ASSUME IInv, NEW c \in Cmds, Step(c), Progress(c), cli[c].pc # "unlink"
    PROVE  Progress(c)'
<1> DEFINE n == Name(Own(c))
<1>0. /\ links \in [Ids -> Link \cup {Nil}] /\ procs \in [Pids -> Proc \cup {Nil}]
      /\ cli \in [Cmds -> Commands] /\ cli[c] \in Commands /\ Shape(c)
    BY DEF IInv, TypeOK
<1>1. CASE Exit(c)
    BY <1>0, <1>1, ProgressFree, IdleTyped DEF Exit, Found
<1>2. ASSUME NEW s \in Steps, Goto(c, s)
      PROVE  /\ cli'[c].pc = s /\ cli'[c].pid = cli[c].pid /\ Own(c)' = Own(c)
             /\ cli'[c].in = cli[c].in /\ cli'[c].out = cli[c].out /\ cli'[c].ip = cli[c].ip
    BY <1>0, <1>2, GotoMoves DEF Own
<1>3. CASE FindBridge(c) \/ AddBridge(c) \/ UpBridge(c)
    <2>1. PICK s \in {"addbr", "upbr", "start", "clear"} : Goto(c, s)
        BY <1>3 DEF FindBridge, AddBridge, UpBridge, AfterBridge
    <2>2. s \in Steps /\ s \notin {"add", "find"} \cup Found
        BY DEF Steps, Found
    <2> QED
        BY <1>2, <2>1, <2>2, ProgressFree
<1>4. CASE StartProcess(c)
    <2>1. PICK s \in {"clear", "bridge"}, p \in Pids :
             Exit(c) \/ cli' = [cli EXCEPT ![c] = [cli[c] EXCEPT !.pc = s, !.pid = p]]
        BY <1>4 DEF StartProcess
    <2>2. Exit(c) \/ cli'[c].pc = s
        BY <1>0, <2>1 DEF Commands
    <2> QED
        BY <1>1, <2>2, ProgressFree DEF Found
<1>5. CASE ClearLinks(c)
    <2>1. cli'[c].pc = "add" /\ Own(c)' = Own(c) /\ n' = n
        BY <1>2, <1>5, "add" \in Steps DEF ClearLinks, Steps, Name
    <2>2. Outside(n)' = {}
        BY <1>0, <1>5, <2>1 DEF ClearLinks, LinkDel, Outside, Exists, Name
    <2> QED
        BY <2>1, <2>2 DEF Progress, Found
\* From here on the process runs, or there is nothing to show.
<1>6. ASSUME cli'[c].pid = cli[c].pid, procs' = procs,
             ~(cli[c].pid \in Pids /\ procs[cli[c].pid] # Nil)
      PROVE  Progress(c)'
    BY <1>6 DEF Progress
<1>7. CASE AddLink(c) /\ ~Exit(c)
    <2>1. /\ Outside(n) = {} /\ links' = [links EXCEPT ![Own(c)] = Fresh] /\ Goto(c, "find")
          /\ cli[c].pc = "add"
        BY <1>7 DEF AddLink, At
    <2>2. cli'[c].pc = "find" /\ Own(c)' = Own(c) /\ n' = n
        BY <1>2, <2>1, "find" \in Steps DEF Steps, Name
    <2>3. Own(c) \in Ids
        BY <1>0, <2>1 DEF Shape, Connecting, Own, Ids
    <2>4. /\ links'[Own(c)] = Fresh
          /\ \A id \in Ids : id # Own(c) => links'[id] = links[id]
        BY <1>0, <2>1, <2>3
    <2>5. Fresh # Nil
        <3>1. Fresh \in Link
            BY DEF Fresh, Link
        <3> QED
            BY <3>1, NilAssumption
    <2>6. \A id \in Ids : Name(id) = n => links[id] = Nil
        BY <2>1 DEF Outside, Exists
    <2>7. \A id \in Ids : Name(id) = n /\ links'[id] # Nil <=> id = Own(c)
        BY <2>3, <2>4, <2>5, <2>6
    <2>8. Outside(n)' = {id \in Ids : links'[id] # Nil /\ Name(id) = n}
        BY <2>2 DEF Outside, Exists, Name
    <2>9. Outside(n)' = {Own(c)}
        BY <2>3, <2>7, <2>8
    <2> QED
        BY <2>2, <2>4, <2>9 DEF Progress, Found, Fresh
<1>8. CASE FindEnds(c) /\ ~Exit(c)
    <2>1. PICK i \in Inside(n), o \in Outside(n) :
             cli' = [cli EXCEPT ![c] = [cli[c] EXCEPT !.pc = "attach", !.in = i, !.out = o]]
        BY <1>8 DEF FindEnds
    <2>2. /\ cli'[c].pc = "attach" /\ cli'[c].in = i /\ cli'[c].out = o
          /\ cli'[c].pid = cli[c].pid /\ cli'[c].w = cli[c].w
        BY <1>0, <2>1 DEF Commands
    <2>3. /\ Own(c)' = Own(c) /\ links' = links /\ procs' = procs /\ cli[c].pc = "find"
          /\ Outside(n)' = Outside(n)
        BY <1>8, <2>2 DEF Own, FindEnds, At, Outside, Exists, Name
    <2>4. CASE cli[c].pid \in Pids /\ procs[cli[c].pid] # Nil
        <3>1. i = Own(c) /\ o = Own(c)
            BY <2>3, <2>4, OwnLink DEF Progress, Inside
        <3> QED
            BY <2>2, <2>3, <2>4, <3>1 DEF Progress, Found
    <2> QED
        BY <1>6, <2>2, <2>3, <2>4
<1>9. CASE Attach(c) /\ ~Exit(c)
    <2>1. /\ links' = [links EXCEPT ![cli[c].out].attached = TRUE] /\ procs' = procs
          /\ Goto(c, "move") /\ cli[c].pc = "attach"
        BY <1>9 DEF Attach, At
    <2>2. /\ cli'[c].pc = "move" /\ cli'[c].pid = cli[c].pid /\ Own(c)' = Own(c)
          /\ cli'[c].in = cli[c].in /\ cli'[c].out = cli[c].out
        BY <1>2, <2>1, "move" \in Steps DEF Steps
    <2>3. CASE cli[c].pid \in Pids /\ procs[cli[c].pid] # Nil
        <3> DEFINE l == [links[Own(c)] EXCEPT !.attached = TRUE]
        <3>1. cli[c].out = Own(c) /\ cli[c].in = Own(c) /\ links[Own(c)].inner = "host"
              /\ ~links[Own(c)].addr
            BY <2>1, <2>3 DEF Progress, Found
        <3>2. links[Own(c)] \in Link
            BY <2>1, <2>3, OwnLink DEF Found
        <3>3. l \in Link /\ l.attached /\ l.inner = "host" /\ ~l.addr
            BY <3>1, <3>2 DEF Link
        <3>4. links' = [links EXCEPT ![Own(c)] = l]
            BY <2>1, <3>1
        <3> HIDE DEF l
        <3>5. links'[Own(c)] = l /\ Outside(n)' = {Own(c)}
            BY <2>1, <2>2, <2>3, <3>3, <3>4, OwnLinkChanged DEF Found
        <3> QED
            BY <2>2, <3>1, <3>3, <3>5 DEF Progress, Found
    <2> QED
        BY <1>6, <2>1, <2>2, <2>3
<1>10. CASE MoveLinkToPID(c) /\ ~Exit(c)
    <2>1. /\ links' = [links EXCEPT ![cli[c].in].inner = cli[c].pid] /\ procs' = procs
          /\ Goto(c, "configure") /\ cli[c].pc = "move"
        BY <1>10 DEF MoveLinkToPID, At
    <2>2. /\ cli'[c].pc = "configure" /\ cli'[c].pid = cli[c].pid /\ Own(c)' = Own(c)
          /\ cli'[c].in = cli[c].in /\ cli'[c].out = cli[c].out
        BY <1>2, <2>1, "configure" \in Steps DEF Steps
    <2>3. CASE cli[c].pid \in Pids /\ procs[cli[c].pid] # Nil
        <3> DEFINE l == [links[Own(c)] EXCEPT !.inner = cli[c].pid]
        <3>1. cli[c].out = Own(c) /\ cli[c].in = Own(c) /\ links[Own(c)].attached
              /\ ~links[Own(c)].addr
            BY <2>1, <2>3 DEF Progress, Found
        <3>2. links[Own(c)] \in Link
            BY <2>1, <2>3, OwnLink DEF Found
        <3>3. l \in Link /\ l.attached /\ l.inner = cli[c].pid /\ ~l.addr
            BY <2>3, <3>1, <3>2 DEF Link
        <3>4. links' = [links EXCEPT ![Own(c)] = l]
            BY <2>1, <3>1
        <3> HIDE DEF l
        <3>5. links'[Own(c)] = l /\ Outside(n)' = {Own(c)}
            BY <2>1, <2>2, <2>3, <3>3, <3>4, OwnLinkChanged DEF Found
        <3> QED
            BY <2>2, <3>1, <3>3, <3>5 DEF Progress, Found
    <2> QED
        BY <1>6, <2>1, <2>2, <2>3
<1>11. CASE Configure(c) /\ ~Exit(c)
    <2>1. PICK id \in InNamespace(c) : links' = [links EXCEPT ![id].addr = TRUE]
        BY <1>11 DEF Configure
    <2>2. cli[c].ip /\ procs' = procs /\ Goto(c, "rules") /\ cli[c].pc = "configure"
        BY <1>11 DEF Configure, At
    <2>3. /\ cli'[c].pc = "rules" /\ cli'[c].pid = cli[c].pid /\ Own(c)' = Own(c)
          /\ cli'[c].in = cli[c].in /\ cli'[c].out = cli[c].out /\ cli'[c].ip = cli[c].ip
        BY <1>2, <2>2, "rules" \in Steps DEF Steps
    <2>4. CASE cli[c].pid \in Pids /\ procs[cli[c].pid] # Nil
        <3> DEFINE l == [links[Own(c)] EXCEPT !.addr = TRUE]
        <3>1. /\ cli[c].out = Own(c) /\ cli[c].in = Own(c) /\ links[Own(c)].attached
              /\ links[Own(c)].inner = cli[c].pid
            BY <2>2, <2>4 DEF Progress, Found
        <3>2. links[Own(c)] \in Link /\ id = Own(c)
            BY <2>2, <2>4, <3>1, OwnLink DEF Found
        <3>3. l \in Link /\ l.attached /\ l.inner = cli[c].pid /\ l.addr
            BY <3>1, <3>2 DEF Link
        <3>4. links' = [links EXCEPT ![Own(c)] = l]
            BY <2>1, <3>2
        <3> HIDE DEF l
        <3>5. links'[Own(c)] = l /\ Outside(n)' = {Own(c)}
            BY <2>2, <2>3, <2>4, <3>3, <3>4, OwnLinkChanged DEF Found
        <3> QED
            BY <2>2, <2>3, <3>1, <3>3, <3>5 DEF Progress, Found
    <2> QED
        BY <1>6, <2>2, <2>3, <2>4
<1>12. CASE AddRules(c)
    BY <1>1, <1>12 DEF AddRules
<1>13. ~Unlink(c)
    BY DEF Unlink, At
<1> QED
    BY <1>1, <1>3, <1>4, <1>5, <1>7, <1>8, <1>9, <1>10, <1>11, <1>12, <1>13 DEF Step

\* No command touches a link of the names of another one.
LEMMA OthersLinksKept ==
    ASSUME NInv, NEW c \in Cmds, NEW d \in Cmds, d # c, Step(d), cli[d].pc # "unlink",
           cli[c].pid \in Pids, cli[c].w \in Workloads,
           NEW id \in Ids, Name(id) = Name(Own(c))
    PROVE  links'[id] = links[id]
<1> SUFFICES ASSUME links'[id] # links[id] PROVE FALSE
    OBVIOUS
<1>1. cli[d].pid \in Pids /\ cli[d].w \in Workloads /\ Name(id) = Name(Own(d))
    BY OwnNamesOnly DEF NInv
<1>2. Claims(cli[c].w, cli[c].pid) /\ Claims(cli[d].w, cli[d].pid)
    BY DEF Claims, Own
<1>3. cli[c].pid # cli[d].pid
    BY <1>1 DEF NInv, OnePid
<1> QED
    BY <1>1, <1>2, <1>3 DEF NInv, NamesApart, Own

\* The steps of other commands.
LEMMA ProgressOthers ==
    ASSUME NInv, IInv', NEW c \in Cmds, NEW d \in Cmds, d # c, Progress(c),
           Step(d), cli[d].pc # "unlink",
           Moves(d) \/ Leaves(d) \/ \E p \in Pids : Starts(d, p)
    PROVE  Progress(c)'
<1>0. /\ links' \in [Ids -> Link \cup {Nil}] /\ cli'[c] = cli[c] /\ IInv
      /\ procs \in [Pids -> Proc \cup {Nil}] /\ cli \in [Cmds -> Commands] /\ Shape(c)
    BY DEF Moves, Leaves, Starts, Others, NInv, IInv, TypeOK
<1>1. CASE ~(cli[c].pid \in Pids /\ cli[c].w \in Workloads)
    <2>1. cli[c].pid \notin Pids
        BY <1>0, <1>1, PidAssumption, WorkloadAssumption DEF Shape, Commands
    <2> QED
        BY <1>0, <2>1 DEF Progress
<1>2. CASE cli[c].pid \in Pids /\ cli[c].w \in Workloads
    <2>1. procs'[cli[c].pid] # Nil => procs[cli[c].pid] # Nil
        BY <1>0, <1>2 DEF Moves, Leaves, Starts, Held
    <2>2. \A id \in Ids : Name(id) = Name(Own(c)) => links'[id] = links[id]
        BY <1>2, OthersLinksKept
    <2> QED
        BY <1>0, <2>1, <2>2, ProgressKept
<1> QED
    BY <1>1, <1>2

\* The environment takes no link of a running process.
LEMMA ProgressEnvironment ==
    ASSUME IInv, NEW c \in Cmds, Progress(c),
           (\E p \in Pids : ProcessEnds(p)) \/ \E id \in Ids : NamespaceGone(id)
    PROVE  Progress(c)'
<1>0. /\ links \in [Ids -> Link \cup {Nil}] /\ procs \in [Pids -> Proc \cup {Nil}]
      /\ links' \in [Ids -> Link \cup {Nil}] /\ cli' = cli /\ cli \in [Cmds -> Commands]
    BY EnvironmentStep DEF IInv, TypeOK
<1>1. ASSUME NEW p \in Pids, ProcessEnds(p) PROVE Progress(c)'
    <2>1. /\ procs'[p] = Nil /\ \A q \in Pids : q # p => procs'[q] = procs[q]
          /\ \A id \in Ids : links[id].inner # p => links'[id] = links[id]
          /\ \A id \in Ids : links[id] = Nil => links'[id] = Nil
        BY <1>0, <1>1 DEF ProcessEnds, Exists
    <2>2. CASE cli[c].pid \in Pids /\ procs'[cli[c].pid] # Nil
        <3>1. p # cli[c].pid /\ p # "host" /\ procs[cli[c].pid] # Nil
            BY <2>1, <2>2, PidAssumption
        <3> QED
            BY <1>0, <2>1, <3>1, ProgressKept
    <2>3. CASE ~(cli[c].pid \in Pids /\ procs'[cli[c].pid] # Nil)
        BY <1>0, <2>3 DEF Progress
    <2> QED
        BY <2>2, <2>3
<1>2. ASSUME NEW i \in Ids, NamespaceGone(i) PROVE Progress(c)'
    <2>1. /\ procs' = procs /\ links[i].inner = "gone"
          /\ \A id \in Ids : id # i => links'[id] = links[id]
          /\ links'[i] = Nil
        BY <1>0, <1>2 DEF NamespaceGone, LinkDel
    <2>2. CASE cli[c].pid \in Pids
        <3>1. Own(c) \in Ids /\ links[Own(c)].inner \in {"host", cli[c].pid} => Own(c) # i
            BY <2>1, <2>2, PidAssumption
        <3> QED
            BY <1>0, <2>1, <3>1, ProgressKept
    <2>3. CASE cli[c].pid \notin Pids
        BY <1>0, <2>3 DEF Progress
    <2> QED
        BY <2>2, <2>3
<1> QED
    BY <1>1, <1>2

\* A command that leaves a running process leaves it connected.
LEMMA LeavesConnected ==
    ASSUME CInv, faults = 0, NEW c \in Cmds, Step(c),
           NEW p \in Pids, cli[c].pid = p, procs[p] # Nil, cli'[c].pid # p
    PROVE  Connected(p)'
<1>0. /\ IInv /\ Shape(c) /\ Progress(c) /\ cli[c].pc # "unlink"
      /\ cli \in [Cmds -> Commands] /\ links \in [Ids -> Link \cup {Nil}]
      /\ procs[p].w = cli[c].w /\ procs[p].ip = cli[c].ip /\ p \notin filtered
      /\ filtered \subseteq Pids
    BY DEF CInv, NInv, SameProc, IInv, TypeOK, FilteredLast
<1>1. ASSUME NEW s \in Steps, Goto(c, s) PROVE FALSE
    BY <1>0, <1>1, GotoMoves
<1>2. <<procs[p].w, p>> = Own(c)
    BY <1>0 DEF Own
<1>3. CASE FindBridge(c) \/ AddBridge(c) \/ UpBridge(c) \/ ClearLinks(c)
    <2>1. PICK s \in {"addbr", "upbr", "start", "clear", "add"} : Goto(c, s)
        BY <1>3 DEF FindBridge, AddBridge, UpBridge, AfterBridge, ClearLinks
    <2> QED
        BY <1>1, <2>1 DEF Steps
<1>4. CASE StartProcess(c)
    BY <1>0, <1>4, PidAssumption DEF StartProcess, At, Shape
<1>5. CASE AddLink(c)
    BY <1>0, <1>1, <1>5, "find" \in Steps DEF AddLink, At, Progress, Steps
<1>6. CASE FindEnds(c)
    <2>1. cli[c].pc = "find" /\ links[Own(c)].inner = "host"
        BY <1>0, <1>6 DEF FindEnds, At, Progress
    <2>2. Inside(Name(Own(c))) # {}
        BY <1>0, <2>1, OwnLink
    <2>3. PICK i \in Inside(Name(Own(c))), o \in Outside(Name(Own(c))) :
             cli' = [cli EXCEPT ![c] = [cli[c] EXCEPT !.pc = "attach", !.in = i, !.out = o]]
        BY <1>6, <2>2 DEF FindEnds
    <2> QED
        BY <1>0, <2>3 DEF Commands
<1>7. CASE Attach(c)
    <2>1. cli[c].pc = "attach" /\ cli[c].out = Own(c)
        BY <1>0, <1>7 DEF Attach, At, Progress, Found
    <2>2. Exists(cli[c].out)
        BY <1>0, <2>1, OwnLink DEF Found
    <2> QED
        BY <1>1, <1>7, <2>2, "move" \in Steps DEF Attach, Steps
<1>8. CASE MoveLinkToPID(c)
    <2>1. cli[c].pc = "move" /\ cli[c].in = Own(c) /\ links[Own(c)].inner = "host"
        BY <1>0, <1>8 DEF MoveLinkToPID, At, Progress, Found
    <2>2. Exists(cli[c].in)
        BY <1>0, <2>1, OwnLink DEF Found
    <2> QED
        BY <1>1, <1>8, <2>1, <2>2, "configure" \in Steps DEF MoveLinkToPID, Steps
<1>9. CASE Configure(c)
    <2>1. /\ cli[c].pc = "configure" /\ links[Own(c)].inner = p /\ links[Own(c)].attached
          /\ ~links[Own(c)].addr
        BY <1>0, <1>9 DEF Configure, At, Progress, Found
    <2>2. Own(c) \in Ids /\ links[Own(c)] # Nil /\ InNamespace(c) # {}
        BY <1>0, <2>1, OwnLink DEF Found, Exists
    <2>3. ~Goto(c, "rules")
        BY <1>1, "rules" \in Steps DEF Steps
    <2>4. ~cli[c].ip /\ links' = links /\ procs' = procs /\ filtered' = filtered
        BY <1>9, <2>2, <2>3 DEF Configure
    <2>5. procs[p].w \notin Unfiltered
        BY <1>0, <2>4 DEF Shape
    <2> QED
        BY <1>0, <1>2, <2>1, <2>2, <2>4, <2>5 DEF Connected
<1>10. CASE AddRules(c)
    <2>1. /\ cli[c].pc = "rules" /\ links[Own(c)].inner = p /\ links[Own(c)].attached
          /\ links[Own(c)].addr /\ cli[c].ip
        BY <1>0, <1>10 DEF AddRules, At, Progress, Found
    <2>2. links[Own(c)] # Nil
        BY <1>0, <2>1, OwnLink DEF Found, Exists
    <2>3. links' = links /\ procs' = procs /\ (p \in filtered' \/ cli[c].w \in Unfiltered)
        BY <1>10 DEF AddRules
    <2> QED
        BY <1>0, <1>2, <2>1, <2>2, <2>3 DEF Connected
<1>11. ~Unlink(c)
    BY <1>0 DEF Unlink, At
<1> QED
    BY <1>3, <1>4, <1>5, <1>6, <1>7, <1>8, <1>9, <1>10, <1>11 DEF Step

\* Only the last step of a command on a process changes its firewall.
LEMMA FilteredStep ==
    ASSUME NEW c \in Cmds, cli[c] \in Commands,
           \/ Step(c) \/ Crash(c) \/ RunCleanup(c)
           \/ \E w \in Workloads, ip \in BOOLEAN : Begin(c, w, ip)
    PROVE  \/ filtered' = filtered
           \/ /\ filtered' = filtered \cup {cli[c].pid} /\ Exit(c)
              /\ procs[cli[c].pid] # Nil /\ procs' = procs
<1>1. CASE AddRules(c)
    BY <1>1 DEF AddRules
<1>2. CASE ~AddRules(c)
    BY <1>2 DEF Step, FindBridge, AddBridge, UpBridge, StartProcess, ClearLinks, AddLink,
       FindEnds, Attach, MoveLinkToPID, Configure, Unlink, Crash, RunCleanup, Begin
<1> QED
    BY <1>1, <1>2

LEMMA FilteredLastKept ==
    ASSUME CInv, [Next]_vars
    PROVE  FilteredLast'
<1>0. /\ IInv /\ FilteredLast /\ cli \in [Cmds -> Commands] /\ OnePid
      /\ procs \in [Pids -> Proc \cup {Nil}] /\ filtered \subseteq Pids
    BY DEF CInv, NInv, IInv, TypeOK
<1>1. ASSUME NEW c \in Cmds,
             \/ Step(c) \/ Crash(c) \/ RunCleanup(c)
             \/ \E w \in Workloads, ip \in BOOLEAN : Begin(c, w, ip)
      PROVE  FilteredLast'
    <2>1. Moves(c) \/ Leaves(c) \/ \E p \in Pids : Starts(c, p)
        BY <1>0, <1>1, CommandStep
    <2>2. /\ \A p \in Pids : procs[p] # Nil => procs'[p] # Nil
          /\ \A o \in Cmds : \/ cli'[o].pid = cli[o].pid \/ cli'[o].pid = Nil
                             \/ procs[cli'[o].pid] = Nil
          /\ \A o \in Cmds : o # c => cli'[o] = cli[o]
        <3>1. CASE Moves(c) \/ Leaves(c)
            BY <1>0, <3>1, IdleTyped DEF Moves, Leaves, Others
        <3>2. ASSUME NEW p \in Pids, Starts(c, p)
              PROVE  /\ \A q \in Pids : procs[q] # Nil => procs'[q] # Nil
                     /\ \A o \in Cmds : \/ cli'[o].pid = cli[o].pid \/ cli'[o].pid = Nil
                                        \/ procs[cli'[o].pid] = Nil
                     /\ \A o \in Cmds : o # c => cli'[o] = cli[o]
            BY <1>0, <3>2, IdleTyped DEF Starts, Others
        <3> QED
            BY <2>1, <3>1, <3>2
    <2>3. CASE filtered' = filtered
        BY <1>0, <2>2, <2>3, PidAssumption DEF FilteredLast
    <2>4. CASE /\ filtered' = filtered \cup {cli[c].pid} /\ Exit(c)
               /\ procs[cli[c].pid] # Nil /\ procs' = procs
        <3>1. cli'[c].pid = Nil /\ Nil \notin Pids
            BY <1>0, <2>4, IdleTyped, PidAssumption DEF Exit
        <3>2. filtered' \subseteq Pids
            BY <1>0, <1>1, CommandStep DEF IInv, TypeOK
        <3> QED
            BY <1>0, <2>2, <2>4, <3>1, <3>2 DEF FilteredLast, OnePid
    <2> QED
        BY <1>0, <1>1, <2>3, <2>4, FilteredStep
<1>2. ASSUME NEW p \in Pids, ProcessEnds(p) PROVE FilteredLast'
    BY <1>0, <1>2 DEF ProcessEnds, FilteredLast
<1>3. ASSUME NEW id \in Ids, NamespaceGone(id) PROVE FilteredLast'
    BY <1>0, <1>3 DEF NamespaceGone, FilteredLast
<1>4. CASE UNCHANGED vars
    BY <1>0, <1>4 DEF vars, FilteredLast
<1> QED
    BY <1>1, <1>2, <1>3, <1>4 DEF Next

\* Commands of others, and the end of other processes, leave a connection alone.
LEMMA StaysConnected ==
    ASSUME CInv, faults = 0, NEW p \in Pids, Settled(p), procs'[p] # Nil, [Next]_vars,
           procs'[p].w \notin Unlinked
    PROVE  Connected(p)'
<1> DEFINE id == <<procs[p].w, p>>
<1>0. /\ NInv /\ IInv /\ procs[p] # Nil
      /\ cli \in [Cmds -> Commands] /\ procs \in [Pids -> Proc \cup {Nil}]
      /\ filtered \subseteq Pids
    BY DEF CInv, NInv, IInv, TypeOK, Settled
<1>1. procs'[p] = procs[p] /\ (p \in filtered' <=> p \in filtered)
    <2>1. ASSUME NEW c \in Cmds,
                 \/ Step(c) \/ Crash(c) \/ RunCleanup(c)
                 \/ \E w \in Workloads, ip \in BOOLEAN : Begin(c, w, ip)
          PROVE  procs'[p] = procs[p] /\ (p \in filtered' <=> p \in filtered)
        <3>1. Moves(c) \/ Leaves(c) \/ \E q \in Pids : Starts(c, q)
            BY <1>0, <2>1, CommandStep
        <3>2. procs'[p] = procs[p]
            BY <1>0, <3>1 DEF Moves, Leaves, Starts
        <3>3. cli[c].pid # p /\ cli[c] \in Commands
            BY <1>0 DEF Settled
        <3>4. filtered' = filtered \/ filtered' = filtered \cup {cli[c].pid}
            BY <2>1, <3>3, FilteredStep
        <3> QED
            BY <3>2, <3>3, <3>4
    <2>2. ASSUME NEW q \in Pids, ProcessEnds(q)
          PROVE  procs'[p] = procs[p] /\ (p \in filtered' <=> p \in filtered)
        <3>1. q # p
            BY <1>0, <2>2 DEF ProcessEnds
        <3> QED
            BY <1>0, <2>2, <3>1 DEF ProcessEnds
    <2>3. ASSUME NEW i \in Ids, NamespaceGone(i)
          PROVE  procs'[p] = procs[p] /\ (p \in filtered' <=> p \in filtered)
        BY <2>3 DEF NamespaceGone
    <2>4. CASE UNCHANGED vars
        BY <2>4 DEF vars
    <2> QED
        BY <2>1, <2>2, <2>3, <2>4 DEF Next
<1>2. Connected(p)
    BY <1>1 DEF CInv
<1>3. links'[id] = links[id]
    <2>1. Exists(id) /\ links[id].inner = p
        BY <1>0, <1>2 DEF Connected, Exists
    <2>2. \A c \in Cmds : ~At(c, "unlink")
        BY DEF CInv, At
    <2> QED
        BY <1>0, <2>1, <2>2, LinkStep
<1> QED
    BY <1>0, <1>1, <1>2, <1>3 DEF Connected

\* A process without a command of its own had one, or had none before either.
LEMMA BecomesConnected ==
    ASSUME CInv, faults = 0, faults' = 0, NEW p \in Pids, ~Settled(p), Settled(p)', Next,
           procs'[p].w \notin Unlinked
    PROVE  Connected(p)'
<1>0. /\ NInv /\ IInv /\ cli \in [Cmds -> Commands] /\ faults \in Nat
      /\ procs \in [Pids -> Proc \cup {Nil}] /\ procs'[p] # Nil
    BY DEF CInv, NInv, IInv, TypeOK, Settled
<1>1. ASSUME NEW c \in Cmds,
             \/ Step(c) \/ Crash(c) \/ RunCleanup(c)
             \/ \E w \in Workloads, ip \in BOOLEAN : Begin(c, w, ip)
      PROVE  Connected(p)'
    <2>1. \A o \in Cmds : o # c => cli'[o] = cli[o]
        BY <1>0, <1>1, CommandStep DEF Moves, Leaves, Starts, Others
    <2>2. procs[p] # Nil
        <3>1. \A q \in Pids : Starts(c, q) => q # p
            BY <1>0 DEF Starts, Settled
        <3> QED
            BY <1>0, <1>1, <3>1, CommandStep DEF Moves, Leaves, Starts
    <2>3. cli[c].pid = p /\ cli'[c].pid # p
        BY <2>1, <2>2 DEF Settled
    <2>4. Step(c)
        <3>1. ~Crash(c) /\ ~RunCleanup(c)
            BY <1>0 DEF Crash, RunCleanup, Disturbance
        <3>2. ASSUME NEW w \in Workloads, NEW ip \in BOOLEAN, Begin(c, w, ip) PROVE FALSE
            BY <1>0, <2>3, <3>2, PidAssumption DEF Begin, At, IInv, Shape
        <3> QED
            BY <1>1, <3>1, <3>2
    <2> QED
        BY <2>2, <2>3, <2>4, LeavesConnected
<1>2. CASE (\E q \in Pids : ProcessEnds(q)) \/ \E id \in Ids : NamespaceGone(id)
    <2>1. cli' = cli /\ procs[p] # Nil
        BY <1>0, <1>2 DEF ProcessEnds, NamespaceGone
    <2> QED
        BY <2>1 DEF Settled
<1> QED
    BY <1>1, <1>2 DEF Next

\* Only cleanup unlinks, and a command's own steps are no disturbances.
LEMMA StepKinds ==
    ASSUME IInv, NEW c \in Cmds, Step(c)
    PROVE  faults' = faults /\ (cli[c].pc # "unlink" => cli'[c].pc # "unlink")
<1>0. cli \in [Cmds -> Commands]
    BY DEF IInv, TypeOK
<1>1. faults' = faults
    BY DEF Step, FindBridge, AddBridge, UpBridge, StartProcess, ClearLinks, AddLink,
       FindEnds, Attach, MoveLinkToPID, Configure, AddRules, Unlink
<1>2. CASE Exit(c)
    BY <1>0, <1>1, <1>2, IdleTyped DEF Exit
<1>3. ASSUME NEW s \in Steps \ {"unlink"}, Goto(c, s) PROVE cli'[c].pc # "unlink"
    BY <1>0, <1>3, GotoMoves
<1>4. CASE FindBridge(c) \/ AddBridge(c) \/ UpBridge(c)
    <2>1. PICK s \in {"addbr", "upbr", "start", "clear"} : Goto(c, s)
        BY <1>4 DEF FindBridge, AddBridge, UpBridge, AfterBridge
    <2> QED
        BY <1>1, <1>3, <2>1 DEF Steps
<1>5. CASE /\ ClearLinks(c) \/ AddLink(c) \/ Attach(c) \/ MoveLinkToPID(c) \/ Configure(c)
           /\ ~Exit(c)
    <2>1. PICK s \in {"add", "find", "move", "configure", "rules"} : Goto(c, s)
        BY <1>5 DEF ClearLinks, AddLink, Attach, MoveLinkToPID, Configure
    <2> QED
        BY <1>1, <1>3, <2>1 DEF Steps
<1>6. CASE (StartProcess(c) \/ FindEnds(c)) /\ ~Exit(c)
    <2>1. PICK r \in Commands : cli' = [cli EXCEPT ![c] = r] /\ r.pc # "unlink"
        <3>1. CASE StartProcess(c)
            <4>1. PICK s \in {"clear", "bridge"}, p \in Pids :
                     cli' = [cli EXCEPT ![c] = [cli[c] EXCEPT !.pc = s, !.pid = p]]
                BY <1>6, <3>1 DEF StartProcess
            <4>2. [cli[c] EXCEPT !.pc = s, !.pid = p] \in Commands
                BY <1>0 DEF Commands, Steps
            <4> QED
                BY <1>0, <4>1, <4>2 DEF Commands
        <3>2. CASE FindEnds(c)
            <4>1. PICK i \in Ids, o \in Ids :
                     cli' = [cli EXCEPT ![c] = [cli[c] EXCEPT !.pc = "attach", !.in = i, !.out = o]]
                BY <1>6, <3>2 DEF FindEnds, Inside, Outside
            <4>2. [cli[c] EXCEPT !.pc = "attach", !.in = i, !.out = o] \in Commands
                BY <1>0 DEF Commands, Steps
            <4> QED
                BY <1>0, <4>1, <4>2 DEF Commands
        <3> QED
            BY <1>6, <3>1, <3>2
    <2> QED
        BY <1>0, <1>1, <2>1
<1>7. CASE AddRules(c)
    BY <1>2, <1>7 DEF AddRules
<1>8. CASE Unlink(c)
    BY <1>1, <1>8 DEF Unlink, At
<1> QED
    BY <1>2, <1>4, <1>5, <1>6, <1>7, <1>8 DEF Step

\* Disturbances are not forgotten.
LEMMA FaultsKept ==
    ASSUME IInv, [Next]_vars
    PROVE  faults > 0 => faults' > 0
<1>0. faults \in Nat
    BY DEF IInv, TypeOK
<1>1. faults' = faults \/ faults' = faults + 1
    BY DEF Next, vars, Step, FindBridge, AddBridge, UpBridge, StartProcess, ClearLinks, AddLink,
       FindEnds, Attach, MoveLinkToPID, Configure, AddRules, Unlink, Begin, RunCleanup, Crash,
       ProcessEnds, NamespaceGone, Disturbance
<1> QED
    BY <1>0, <1>1

LEMMA NextCInv == ASSUME ~Collisions PROVE CInv /\ [Next]_vars => CInv'
<1> SUFFICES ASSUME CInv, [Next]_vars PROVE CInv'
    OBVIOUS
<1>0. NInv /\ IInv /\ NInv' /\ IInv' /\ faults \in Nat
    BY NextNInv DEF CInv, NInv, IInv, TypeOK
<1>1. faults' = 0 => faults = 0
    BY <1>0, FaultsKept
<1>2. FilteredLast'
    BY FilteredLastKept
<1>3. ASSUME faults' = 0, NEW c \in Cmds PROVE cli'[c].pc # "unlink" /\ Progress(c)'
    <2>0. Progress(c) /\ \A o \in Cmds : cli[o].pc # "unlink"
        BY <1>1, <1>3 DEF CInv
    <2>1. ASSUME NEW d \in Cmds, Step(d) PROVE cli'[c].pc # "unlink" /\ Progress(c)'
        <3>1. Moves(d) \/ Leaves(d) \/ \E p \in Pids : Starts(d, p)
            BY <1>0, <2>1, CommandStep
        <3>2. Progress(c)'
            BY <1>0, <2>0, <2>1, <3>1, OwnProgress, ProgressOthers
        <3>3. CASE c # d
            BY <2>0, <3>1, <3>2, <3>3 DEF Moves, Leaves, Starts, Others
        <3> QED
            BY <1>0, <2>0, <2>1, <3>2, <3>3, StepKinds
    <2>2. ASSUME NEW d \in Cmds, NEW w \in Workloads, NEW ip \in BOOLEAN, Begin(d, w, ip)
          PROVE  cli'[c].pc # "unlink" /\ Progress(c)'
        <3>1. links' = links /\ procs' = procs /\ cli \in [Cmds -> Commands]
              /\ links \in [Ids -> Link \cup {Nil}]
            BY <1>0, <2>2 DEF Begin, IInv, TypeOK
        <3>2. CASE c = d
            <4>1. cli'[c].pc \in {"bridge", "start"}
                BY <2>2, <3>1, <3>2 DEF Begin, Idle
            <4> QED
                BY <4>1, ProgressFree DEF Found
        <3>3. CASE c # d
            <4>1. cli'[c] = cli[c]
                BY <2>2, <3>3 DEF Begin
            <4> QED
                BY <1>0, <2>0, <3>1, <4>1, ProgressKept
        <3> QED
            BY <3>2, <3>3
    <2>3. \A d \in Cmds : ~Crash(d) /\ ~RunCleanup(d)
        BY <1>0, <1>1, <1>3 DEF Crash, RunCleanup, Disturbance
    <2>4. CASE (\E p \in Pids : ProcessEnds(p)) \/ \E id \in Ids : NamespaceGone(id)
        BY <1>0, <2>0, <2>4, EnvironmentStep, ProgressEnvironment
    <2>5. CASE UNCHANGED vars
        <3>1. cli' = cli /\ procs' = procs /\ links' = links
              /\ links \in [Ids -> Link \cup {Nil}]
            BY <1>0, <2>5 DEF vars, IInv, TypeOK
        <3> QED
            BY <1>0, <2>0, <3>1, ProgressKept
    <2> QED
        BY <2>1, <2>2, <2>3, <2>4, <2>5 DEF Next
<1>4. ASSUME faults' = 0, NEW p \in Pids, Settled(p)', procs'[p].w \notin Unlinked
      PROVE  Connected(p)'
    <2>1. faults = 0 /\ procs'[p] # Nil
        BY <1>1, <1>4 DEF Settled
    <2>2. CASE Settled(p)
        BY <1>4, <2>1, <2>2, StaysConnected
    <2>3. CASE ~Settled(p)
        <3>1. ~UNCHANGED vars
            BY <1>4, <2>3 DEF Settled, vars
        <3> QED
            BY <1>4, <2>1, <2>3, <3>1, BecomesConnected
    <2> QED
        BY <2>2, <2>3
<1> QED
    BY <1>0, <1>2, <1>3, <1>4 DEF CInv

\* README.md:64-72, as far as it is true: as long as no process gets the interface
\* names of a running one, a database, the gateway or a load-balanced service that was
\* given an address, and whose command was not cut off, can be reached over the bridge,
\* whatever earlier processes have left behind and other commands do.
THEOREM WorkloadsConnected == ASSUME ~Collisions PROVE Spec => []ConnectedWhenDone
<1>1. CInv /\ [Next]_vars => CInv'
    BY NextCInv
<1>2. CInv => ConnectedWhenDone
    BY DEF CInv, ConnectedWhenDone, Connected, Reachable, Linked
<1> QED
    BY <1>1, <1>2, InitCInv, PTL DEF Spec

-----------------------------------------------------------------------------
(* Links under disturbances *)

\* The inner end of a link is in the namespace of the process it was made for, while
\* that runs; only there does it get an address, and only if there is one.
Belongs(id) ==
    Exists(id) =>
        /\ links[id].inner \in {"host", "gone", id[2]}
        /\ links[id].inner = id[2] => procs[id[2]] # Nil /\ procs[id[2]].w = id[1]
        /\ links[id].addr => links[id].inner = id[2] /\ procs[id[2]].ip

\* What is left of Progress when commands are cut off and cleanup takes links away.
Holds(c) ==
    LET k == cli[c]
    IN  k.pid \in Pids /\ procs[k.pid] # Nil =>
          /\ k.pc \in {"find"} \cup Found => Outside(Name(Own(c))) \subseteq {Own(c)}
          /\ k.pc \in Found => k.in = Own(c) /\ k.out = Own(c)
          /\ Exists(Own(c)) /\ links[Own(c)].addr => k.pc = "rules"

LInv == NInv /\ (\A id \in Ids : Belongs(id)) /\ (\A c \in Cmds : Holds(c))

LEMMA InitLInv == Init => LInv
<1> SUFFICES ASSUME Init PROVE LInv
    OBVIOUS
<1>1. \A c \in Cmds : cli[c].pid = Nil
    BY IdleTyped DEF Init
<1>2. \A id \in Ids : ~Exists(id)
    BY DEF Init, Exists
<1> QED
    BY <1>1, <1>2, InitNInv, PidAssumption DEF LInv, Belongs, Holds

\* What a step of a command can do to a link: delete it, make the one of its own
\* process, attach it, move it to that process, or give it the address there.
Made(c, id)       == id = Own(c) /\ links'[id] = Fresh /\ At(c, "add")
Attached(c, id)   == /\ Exists(id) /\ At(c, "attach")
                     /\ links'[id] = [links[id] EXCEPT !.attached = TRUE]
Moved(c, id)      == /\ id = Own(c) /\ Exists(id) /\ At(c, "move")
                     /\ procs[cli[c].pid] # Nil /\ links[id].inner = "host"
                     /\ links'[id] = [links[id] EXCEPT !.inner = cli[c].pid]
Configured(c, id) == /\ Exists(id) /\ At(c, "configure") /\ cli'[c].pc = "rules"
                     /\ links[id].inner = cli[c].pid /\ cli[c].ip
                     /\ links'[id] = [links[id] EXCEPT !.addr = TRUE]

LEMMA LinkChanges ==
    ASSUME LInv, NEW c \in Cmds, Step(c), NEW id \in Ids
    PROVE  \/ links'[id] \in {links[id], Nil}
           \/ Made(c, id)
           \/ Attached(c, id)
           \/ Moved(c, id)
           \/ Configured(c, id)
<1>0. /\ links \in [Ids -> Link \cup {Nil}] /\ cli \in [Cmds -> Commands]
      /\ Shape(c) /\ Holds(c)
    BY DEF LInv, NInv, IInv, TypeOK
<1>1. CASE links' = links
    BY <1>1
<1>2. CASE ClearLinks(c) \/ Unlink(c)
    BY <1>2 DEF ClearLinks, Unlink, LinkDel
<1>3. CASE AddLink(c) /\ links' # links
    <2>1. links' = [links EXCEPT ![Own(c)] = Fresh]
        BY <1>3 DEF AddLink
    <2> QED
        BY <1>0, <1>3, <2>1 DEF AddLink, Made
<1>4. CASE Attach(c) /\ links' # links
    <2>1. Exists(cli[c].out) /\ links' = [links EXCEPT ![cli[c].out].attached = TRUE]
        BY <1>4 DEF Attach
    <2>2. id # cli[c].out => links'[id] = links[id]
        BY <1>0, <2>1
    <2>3. id = cli[c].out => links'[id] = [links[id] EXCEPT !.attached = TRUE]
        BY <1>0, <2>1
    <2> QED
        BY <1>4, <2>1, <2>2, <2>3 DEF Attach, Attached
<1>5. CASE MoveLinkToPID(c) /\ links' # links
    <2>1. /\ procs[cli[c].pid] # Nil /\ Exists(cli[c].in) /\ links[cli[c].in].inner = "host"
          /\ links' = [links EXCEPT ![cli[c].in].inner = cli[c].pid] /\ At(c, "move")
        BY <1>5 DEF MoveLinkToPID
    <2>2. cli[c].in = Own(c)
        BY <1>0, <2>1 DEF Holds, Shape, At, Connecting, Found
    <2>3. id # Own(c) => links'[id] = links[id]
        BY <1>0, <2>1, <2>2
    <2>4. id = Own(c) => links'[id] = [links[id] EXCEPT !.inner = cli[c].pid]
        BY <1>0, <2>1, <2>2
    <2> QED
        BY <2>1, <2>2, <2>3, <2>4 DEF Moved
<1>6. CASE Configure(c) /\ links' # links
    <2>1. PICK i \in InNamespace(c) :
             cli[c].ip /\ links' = [links EXCEPT ![i].addr = TRUE] /\ Goto(c, "rules")
        BY <1>6 DEF Configure
    <2>2. cli'[c].pc = "rules"
        BY <1>0, <2>1, "rules" \in Steps, GotoMoves DEF Steps
    <2>3. id # i => links'[id] = links[id]
        BY <1>0, <2>1
    <2>4. id = i => links'[id] = [links[id] EXCEPT !.addr = TRUE]
        BY <1>0, <2>1
    <2>5. Exists(i) /\ links[i].inner = cli[c].pid
        BY DEF InNamespace, Outside
    <2> QED
        BY <1>6, <2>1, <2>2, <2>3, <2>4, <2>5 DEF Configure, Configured
<1> QED
    BY <1>1, <1>2, <1>3, <1>4, <1>5, <1>6
    DEF Step, FindBridge, AddBridge, UpBridge, StartProcess, FindEnds, AddRules

\* A step of a command leaves every link with its process.
LEMMA BelongsStep ==
    ASSUME LInv, NEW c \in Cmds, Step(c), NEW id \in Ids,
           Moves(c) \/ Leaves(c) \/ \E p \in Pids : Starts(c, p)
    PROVE  Belongs(id)'
<1>0. /\ links \in [Ids -> Link \cup {Nil}] /\ procs \in [Pids -> Proc \cup {Nil}]
      /\ Shape(c) /\ Belongs(id) /\ SameProc
      /\ id[1] \in Workloads /\ id[2] \in Pids
    BY DEF LInv, NInv, IInv, TypeOK, Ids
<1>1. procs[id[2]] # Nil => procs'[id[2]] = procs[id[2]]
    BY <1>0 DEF Moves, Leaves, Starts
<1>2. Exists(id) => links[id] \in Link
    BY <1>0 DEF Exists
<1>3. CASE links'[id] \in {links[id], Nil}
    BY <1>0, <1>1, <1>3 DEF Belongs, Exists
<1>4. CASE Made(c, id)
    BY <1>0, <1>4, PidAssumption DEF Made, Fresh, Belongs, Exists
<1>5. CASE Attached(c, id)
    <2>1. links'[id].inner = links[id].inner /\ links'[id].addr = links[id].addr
        BY <1>2, <1>5 DEF Attached, Link
    <2> QED
        BY <1>0, <1>1, <1>5, <2>1 DEF Attached, Belongs
<1>6. CASE Moved(c, id)
    <2>1. links'[id].inner = cli[c].pid /\ links'[id].addr = links[id].addr
        BY <1>2, <1>6 DEF Moved, Link
    <2>2. id[1] = cli[c].w /\ id[2] = cli[c].pid
        BY <1>6 DEF Moved, Own
    <2>3. procs[id[2]] # Nil /\ procs[id[2]].w = id[1]
        BY <1>0, <1>6, <2>2 DEF Moved, SameProc
    <2>4. ~links[id].addr
        BY <1>0, <1>6, PidAssumption DEF Moved, Belongs
    <2> QED
        BY <1>1, <2>1, <2>2, <2>3, <2>4 DEF Belongs
<1>7. CASE Configured(c, id)
    <2>1. links'[id].inner = links[id].inner
        BY <1>2, <1>7 DEF Configured, Link
    <2>2. cli[c].pid \in Pids
        BY <1>0, <1>7 DEF Configured, Shape, At, Connecting
    <2>3. cli[c].pid = id[2] /\ procs[id[2]] # Nil /\ procs[id[2]].w = id[1]
        BY <1>0, <1>7, <2>2, PidAssumption DEF Configured, Belongs
    <2>4. procs[id[2]].ip
        BY <1>0, <1>7, <2>2, <2>3 DEF Configured, SameProc
    <2> QED
        BY <1>0, <1>1, <1>7, <2>1, <2>3, <2>4 DEF Configured, Belongs
<1> QED
    BY <1>3, <1>4, <1>5, <1>6, <1>7, LinkChanges

\* A command keeps hold of its link unless somebody touches that; deleting it, or
\* taking its address, is all that anybody else does.
LEMMA HoldsKept ==
    ASSUME NEW c \in Cmds, Holds(c), cli'[c] = cli[c],
           procs'[cli[c].pid] # Nil => procs[cli[c].pid] # Nil,
           \A id \in Ids : Name(id) = Name(Own(c)) /\ links'[id] # Nil =>
               links[id] # Nil /\ (links'[id].addr => links[id].addr),
           cli[c].pid \in Pids => Own(c) \in Ids
    PROVE  Holds(c)'
<1>1. Own(c)' = Own(c) /\ Name(Own(c))' = Name(Own(c))
    BY DEF Own, Name
<1>2. Outside(Name(Own(c)))' \subseteq Outside(Name(Own(c)))
    BY <1>1 DEF Outside, Exists, Name
<1>3. cli[c].pid \in Pids /\ Exists(Own(c))' /\ links'[Own(c)].addr =>
         Exists(Own(c)) /\ links[Own(c)].addr
    BY <1>1 DEF Exists
<1> QED
    BY <1>1, <1>2, <1>3 DEF Holds

\* A link comes into being in one step only.
LEMMA NoneAppear ==
    ASSUME LInv, NEW c \in Cmds, Step(c), ~At(c, "add"), NEW id \in Ids, Exists(id)'
    PROVE  Exists(id)
BY LinkChanges DEF Made, Attached, Moved, Configured, Exists

\* Before its last step, the link of a command's process has no address.
LEMMA NoAddressYet ==
    ASSUME LInv, NEW c \in Cmds, Step(c), Own(c)' = Own(c), Own(c) \in Ids,
           procs[cli[c].pid] # Nil, cli[c].pc # "rules", cli'[c].pc # "rules",
           Exists(Own(c))'
    PROVE  ~links'[Own(c)].addr
<1> DEFINE id == Own(c)
<1>0. links \in [Ids -> Link \cup {Nil}] /\ Holds(c) /\ cli[c].pid \in Pids
    BY DEF LInv, NInv, IInv, TypeOK, Own, Ids
<1>1. Exists(id) => ~links[id].addr /\ links[id] \in Link
    BY <1>0 DEF Holds, Exists
<1>2. CASE links'[id] \in {links[id], Nil}
    BY <1>1, <1>2 DEF Exists
<1>3. CASE Made(c, id)
    BY <1>3 DEF Made, Fresh
<1>4. CASE Attached(c, id)
    BY <1>1, <1>4 DEF Attached, Link
<1>5. CASE Moved(c, id)
    BY <1>1, <1>5 DEF Moved, Link
<1> QED
    BY <1>2, <1>3, <1>4, <1>5, LinkChanges DEF Configured

\* A command keeps hold of its own link.
LEMMA HoldsOwn ==
    ASSUME LInv, NEW c \in Cmds, Step(c)
    PROVE  Holds(c)'
<1> DEFINE n == Name(Own(c))
<1>0. /\ links \in [Ids -> Link \cup {Nil}] /\ procs \in [Pids -> Proc \cup {Nil}]
      /\ cli \in [Cmds -> Commands] /\ cli[c] \in Commands /\ Shape(c)
      /\ Holds(c) /\ IInv
    BY DEF LInv, NInv, IInv, TypeOK
<1>1. CASE cli'[c].pid = Nil
    BY <1>1, PidAssumption DEF Holds
<1>2. CASE Exit(c)
    <2>1. cli'[c].pid = Nil
        BY <1>0, <1>2, IdleTyped DEF Exit
    <2> QED
        BY <1>1, <2>1
<1>3. ASSUME NEW s \in Steps, Goto(c, s)
      PROVE  /\ cli'[c].pc = s /\ cli'[c].pid = cli[c].pid /\ Own(c)' = Own(c) /\ n' = n
             /\ cli'[c].in = cli[c].in /\ cli'[c].out = cli[c].out
    BY <1>0, <1>3, GotoMoves DEF Own, Name
\* The process runs, or there is nothing to show.
<1>4. ASSUME Own(c)' = Own(c), procs' = procs, cli[c].pc # "rules",
             /\ cli'[c].pc \in {"find"} \cup Found => Outside(n)' \subseteq {Own(c)}
             /\ cli'[c].pc \in Found /\ cli[c].pid \in Pids /\ procs[cli[c].pid] # Nil
                  => cli'[c].in = Own(c) /\ cli'[c].out = Own(c)
      PROVE  Holds(c)'
    <2>1. cli'[c].pid = cli[c].pid
        BY <1>4 DEF Own
    <2>2. CASE cli[c].pid \in Pids /\ procs[cli[c].pid] # Nil
        <3>1. Own(c) \in Ids
            BY <1>0, <2>2 DEF Ids, Own, LInv, NInv, SameProc, Proc
        <3>2. Exists(Own(c))' /\ links'[Own(c)].addr => cli'[c].pc = "rules"
            BY <1>4, <2>2, <3>1, NoAddressYet
        <3>3. n' = Name(Own(c)')
            BY DEF Name
        <3> QED
            BY <1>4, <2>1, <2>2, <3>2, <3>3 DEF Holds
    <2>3. CASE ~(cli[c].pid \in Pids /\ procs[cli[c].pid] # Nil)
        BY <1>4, <2>1, <2>3 DEF Holds
    <2> QED
        BY <2>2, <2>3
<1>5. CASE FindBridge(c) \/ AddBridge(c) \/ UpBridge(c) \/ ClearLinks(c)
    <2>1. PICK s \in {"addbr", "upbr", "start", "clear", "add"} : Goto(c, s)
        BY <1>5 DEF FindBridge, AddBridge, UpBridge, AfterBridge, ClearLinks
    <2>2. s \in Steps /\ s \notin {"find"} \cup Found
        BY DEF Steps, Found
    <2>3. procs' = procs /\ cli[c].pc # "rules"
        BY <1>5 DEF FindBridge, AddBridge, UpBridge, ClearLinks, At
    <2>4. Own(c)' = Own(c) /\ cli'[c].pc = s
        BY <1>3, <2>1, <2>2
    <2> QED
        BY <1>4, <2>2, <2>3, <2>4
<1>6. CASE StartProcess(c) /\ ~Exit(c)
    <2>1. PICK p \in Pids, s \in {"clear", "bridge"} :
             /\ procs[p] = Nil /\ links' = links
             /\ cli' = [cli EXCEPT ![c] = [cli[c] EXCEPT !.pc = s, !.pid = p]]
        BY <1>6 DEF StartProcess
    <2>2. cli'[c].pc = s /\ cli'[c].pid = p /\ cli'[c].w = cli[c].w /\ cli[c].w \in Workloads
        BY <1>0, <1>6, <2>1 DEF Commands, StartProcess, At, Shape
    <2>3. Own(c)' = <<cli[c].w, p>> /\ <<cli[c].w, p>> \in Ids
        BY <2>2 DEF Own, Ids
    <2>4. Belongs(<<cli[c].w, p>>)
        BY <2>3 DEF LInv
    <2>5. ~(Exists(Own(c))' /\ links'[Own(c)'].addr)
        BY <2>1, <2>3, <2>4 DEF Belongs, Exists
    <2> QED
        BY <2>2, <2>5 DEF Holds, Found
<1>7. CASE AddLink(c) /\ ~Exit(c)
    <2>1. /\ Outside(n) = {} /\ links' = [links EXCEPT ![Own(c)] = Fresh] /\ Goto(c, "find")
          /\ cli[c].pc = "add" /\ procs' = procs
        BY <1>7 DEF AddLink, At
    <2>2. cli'[c].pc = "find" /\ Own(c)' = Own(c) /\ n' = n
        BY <1>3, <2>1, "find" \in Steps DEF Steps
    <2>3. \A id \in Ids : id # Own(c) => links'[id] = links[id]
        BY <1>0, <2>1
    <2>4. Outside(n)' \subseteq {Own(c)}
        BY <2>1, <2>2, <2>3 DEF Outside, Exists, Name
    <2> QED
        BY <1>4, <2>1, <2>2, <2>4 DEF Found
<1>8. CASE FindEnds(c) /\ ~Exit(c)
    <2>1. PICK i \in Inside(n), o \in Outside(n) :
             cli' = [cli EXCEPT ![c] = [cli[c] EXCEPT !.pc = "attach", !.in = i, !.out = o]]
        BY <1>8 DEF FindEnds
    <2>2. /\ cli'[c].pc = "attach" /\ cli'[c].in = i /\ cli'[c].out = o
          /\ cli'[c].pid = cli[c].pid /\ cli'[c].w = cli[c].w
        BY <1>0, <2>1 DEF Commands
    <2>3. /\ Own(c)' = Own(c) /\ links' = links /\ procs' = procs /\ cli[c].pc = "find"
          /\ Outside(n)' = Outside(n)
        BY <1>8, <2>2 DEF Own, FindEnds, At, Outside, Exists, Name
    <2>4. CASE cli[c].pid \in Pids /\ procs[cli[c].pid] # Nil
        <3>1. Outside(n) \subseteq {Own(c)} /\ i = Own(c) /\ o = Own(c)
            BY <1>0, <2>3, <2>4 DEF Holds, Inside
        <3> QED
            BY <1>4, <2>2, <2>3, <3>1
    <2>5. CASE ~(cli[c].pid \in Pids /\ procs[cli[c].pid] # Nil)
        BY <2>2, <2>3, <2>5 DEF Holds
    <2> QED
        BY <2>4, <2>5
<1>9. CASE (Attach(c) \/ MoveLinkToPID(c) \/ Configure(c)) /\ ~Exit(c)
    <2>1. /\ procs' = procs /\ cli[c].pc \in {"attach", "move", "configure"}
          /\ \E s \in {"move", "configure", "rules"} : Goto(c, s)
        BY <1>9 DEF Attach, MoveLinkToPID, Configure, At
    <2>2. PICK s \in {"move", "configure", "rules"} : Goto(c, s)
        BY <2>1
    <2>3. /\ cli'[c].pc = s /\ cli'[c].pid = cli[c].pid /\ Own(c)' = Own(c) /\ n' = n
          /\ cli'[c].in = cli[c].in /\ cli'[c].out = cli[c].out
        BY <1>3, <2>2, s \in Steps DEF Steps
    <2>4. Outside(n)' \subseteq Outside(n)
        <3>1. ~At(c, "add")
            BY <2>1 DEF At
        <3> QED
            BY <2>3, <3>1, NoneAppear DEF Outside, Name
    <2>5. CASE cli[c].pid \in Pids /\ procs[cli[c].pid] # Nil
        <3>1. /\ Outside(n) \subseteq {Own(c)} /\ cli[c].in = Own(c) /\ cli[c].out = Own(c)
            BY <1>0, <2>1, <2>5 DEF Holds, Found
        <3> QED
            BY <1>4, <2>1, <2>3, <2>4, <3>1
    <2>6. CASE ~(cli[c].pid \in Pids /\ procs[cli[c].pid] # Nil)
        BY <2>1, <2>3, <2>6 DEF Holds
    <2> QED
        BY <2>5, <2>6
<1>10. CASE AddRules(c)
    BY <1>2, <1>10 DEF AddRules
<1>11. CASE Unlink(c) /\ ~Exit(c)
    <2>1. PICK t \in SUBSET Names : cli' = [cli EXCEPT ![c] = [cli[c] EXCEPT !.todo = t]]
        <3>1. PICK m \in cli[c].todo : cli' = [cli EXCEPT ![c] = [cli[c] EXCEPT !.todo = @ \ {m}]]
            BY <1>11 DEF Unlink
        <3>2. cli[c].todo \ {m} \in SUBSET Names
            BY <1>0 DEF Commands
        <3> QED
            BY <3>1, <3>2
    <2>2. cli'[c].pid = cli[c].pid
        BY <1>0, <2>1 DEF Commands
    <2> QED
        BY <1>0, <1>1, <1>11, <2>2 DEF Unlink, At, Shape
<1> QED
    BY <1>2, <1>5, <1>6, <1>7, <1>8, <1>9, <1>10, <1>11 DEF Step

\* Neither another command nor the environment takes the hold of a command.
LEMMA HoldsOthers ==
    ASSUME LInv, NEW c \in Cmds, NEW d \in Cmds, d # c, Step(d)
    PROVE  Holds(c)'
<1>0. /\ NInv /\ IInv /\ Holds(c) /\ Shape(c) /\ Shape(d)
      /\ links \in [Ids -> Link \cup {Nil}] /\ procs \in [Pids -> Proc \cup {Nil}]
      /\ cli[c] \in Commands
    BY DEF LInv, NInv, IInv, TypeOK
<1>1. Moves(d) \/ Leaves(d) \/ \E p \in Pids : Starts(d, p)
    BY <1>0, CommandStep
<1>2. cli'[c] = cli[c]
    BY <1>1 DEF Moves, Leaves, Starts, Others
<1>3. CASE cli[c].pid \notin Pids
    BY <1>2, <1>3 DEF Holds
<1>4. CASE cli[c].pid \in Pids
    <2>1. cli[c].w \in Workloads
        BY <1>0, <1>4, PidAssumption, WorkloadAssumption DEF Shape, Commands
    <2>2. procs'[cli[c].pid] # Nil => procs[cli[c].pid] # Nil
        BY <1>0, <1>1, <1>4 DEF Moves, Leaves, Starts, Held
    <2>3. CASE cli[d].pc # "unlink"
        <3>1. \A id \in Ids : Name(id) = Name(Own(c)) => links'[id] = links[id]
            BY <1>0, <1>4, <2>1, <2>3, OthersLinksKept
        <3> QED
            BY <1>0, <1>2, <2>1, <2>2, <3>1, HoldsKept DEF Own, Ids
    <2>4. CASE cli[d].pc = "unlink"
        <3>1. \A id \in Ids : links'[id] \in {links[id], Nil}
            BY <2>4, LinkChanges, <1>0, PidAssumption
            DEF Made, Attached, Moved, Configured, At
        <3> QED
            BY <1>0, <1>2, <2>1, <2>2, <3>1, HoldsKept DEF Own, Ids
    <2> QED
        BY <2>3, <2>4
<1> QED
    BY <1>3, <1>4

\* What the environment does to links.
LEMMA EnvironmentLinks ==
    ASSUME IInv, NEW id \in Ids, Exists(id)',
           (\E p \in Pids : ProcessEnds(p)) \/ \E i \in Ids : NamespaceGone(i)
    PROVE  /\ Exists(id)
           /\ \/ links'[id] = links[id] /\ procs'[links[id].inner] = procs[links[id].inner]
              \/ links'[id].inner = "gone" /\ ~links'[id].addr
<1>0. links \in [Ids -> Link \cup {Nil}] /\ procs \in [Pids -> Proc \cup {Nil}]
    BY DEF IInv, TypeOK
<1>1. ASSUME NEW p \in Pids, ProcessEnds(p), links[id] # Nil, links[id].inner # p
      PROVE  links'[id] = links[id] /\ procs'[links[id].inner] = procs[links[id].inner]
    BY <1>0, <1>1 DEF ProcessEnds, Exists
<1>2. ASSUME NEW p \in Pids, ProcessEnds(p), links[id] # Nil, links[id].inner = p
      PROVE  links'[id].inner = "gone" /\ ~links'[id].addr
    BY <1>0, <1>2 DEF ProcessEnds, Exists, Fresh
<1>3. ASSUME NEW i \in Ids, NamespaceGone(i)
      PROVE  links'[id] = links[id] /\ procs' = procs
    BY <1>0, <1>3 DEF NamespaceGone, LinkDel, Exists
<1>4. links[id] # Nil
    BY <1>0, <1>3 DEF ProcessEnds, Exists
<1> QED
    BY <1>1, <1>2, <1>3, <1>4 DEF Exists

\* Whatever begins or cuts off a command leaves it without a process.
LEMMA WithoutProcess ==
    ASSUME cli \in [Cmds -> Commands], NEW c \in Cmds,
           \/ Crash(c) \/ RunCleanup(c)
           \/ \E w \in Workloads, ip \in BOOLEAN : Begin(c, w, ip)
    PROVE  cli'[c].pid = Nil /\ Others(c)
<1>1. CASE Crash(c)
    BY <1>1, IdleTyped DEF Crash, Exit, Others
<1>2. CASE RunCleanup(c)
    <2>1. PICK t : cli' = [cli EXCEPT ![c] = [Idle EXCEPT !.pc = "unlink", !.todo = t]]
        BY <1>2 DEF RunCleanup
    <2>2. cli'[c] = [Idle EXCEPT !.pc = "unlink", !.todo = t]
        BY <2>1
    <2>3. [Idle EXCEPT !.pc = "unlink", !.todo = t].pid = Nil
        BY DEF Idle
    <2> QED
        BY <2>1, <2>2, <2>3 DEF Others
<1>3. ASSUME NEW w \in Workloads, NEW ip \in BOOLEAN, Begin(c, w, ip)
      PROVE  cli'[c].pid = Nil /\ Others(c)
    <2>1. PICK s : cli' = [cli EXCEPT ![c] = [Idle EXCEPT !.pc = s, !.w = w, !.ip = ip]]
        BY <1>3 DEF Begin
    <2>2. cli'[c] = [Idle EXCEPT !.pc = s, !.w = w, !.ip = ip]
        BY <2>1
    <2>3. [Idle EXCEPT !.pc = s, !.w = w, !.ip = ip].pid = Nil
        BY DEF Idle
    <2> QED
        BY <2>1, <2>2, <2>3 DEF Others
<1> QED
    BY <1>1, <1>2, <1>3

LEMMA NextLInv == ASSUME ~Collisions PROVE LInv /\ [Next]_vars => LInv'
<1> SUFFICES ASSUME LInv, [Next]_vars PROVE LInv'
    OBVIOUS
<1>0. /\ NInv /\ IInv /\ NInv' /\ links \in [Ids -> Link \cup {Nil}]
      /\ procs \in [Pids -> Proc \cup {Nil}] /\ cli \in [Cmds -> Commands]
      /\ \A id \in Ids : Belongs(id) /\ id[1] \in Workloads /\ id[2] \in Pids
      /\ \A c \in Cmds : Holds(c) /\ Shape(c)
    BY NextNInv DEF LInv, NInv, IInv, TypeOK, Ids
\* Where the links stay as they are, or go, and commands keep theirs.
<1>1. ASSUME NEW c \in Cmds, links' = links, procs' = procs, cli'[c] = cli[c]
      PROVE  Holds(c)'
    BY <1>0, <1>1 DEF Holds, Exists, Own, Outside, Name
<1>2. CASE links' = links /\ procs' = procs
           /\ \A c \in Cmds : cli'[c] = cli[c] \/ cli'[c].pid = Nil
    <2>1. \A c \in Cmds : cli'[c].pid = Nil => Holds(c)'
        BY PidAssumption DEF Holds
    <2>2. \A id \in Ids : Belongs(id)'
        BY <1>0, <1>2 DEF Belongs, Exists
    <2> QED
        BY <1>0, <1>1, <1>2, <2>1, <2>2 DEF LInv
<1>3. ASSUME NEW c \in Cmds, Step(c) PROVE LInv'
    <2>1. Moves(c) \/ Leaves(c) \/ \E p \in Pids : Starts(c, p)
        BY <1>0, <1>3, CommandStep
    <2>2. \A id \in Ids : Belongs(id)'
        BY <1>3, <2>1, BelongsStep
    <2>3. \A d \in Cmds : Holds(d)'
        BY <1>3, HoldsOwn, HoldsOthers
    <2> QED
        BY <1>0, <2>2, <2>3 DEF LInv
<1>4. ASSUME NEW c \in Cmds,
             \/ Crash(c) \/ RunCleanup(c)
             \/ \E w \in Workloads, ip \in BOOLEAN : Begin(c, w, ip)
      PROVE  LInv'
    <2>1. links' = links /\ procs' = procs
        BY <1>4 DEF Crash, RunCleanup, Begin
    <2>2. cli'[c].pid = Nil /\ \A d \in Cmds : d # c => cli'[d] = cli[d]
        BY <1>0, <1>4, WithoutProcess DEF Others
    <2> QED
        BY <1>2, <2>1, <2>2
<1>5. CASE (\E p \in Pids : ProcessEnds(p)) \/ \E id \in Ids : NamespaceGone(id)
    <2>1. cli' = cli /\ \A p \in Pids : procs'[p] # Nil => procs[p] # Nil
        BY <1>0, <1>5, EnvironmentStep DEF ProcessEnds, NamespaceGone
    <2>2. \A c \in Cmds : Holds(c)'
        <3> SUFFICES ASSUME NEW c \in Cmds, cli[c].pid \in Pids PROVE Holds(c)'
            BY <2>1 DEF Holds
        <3>1. Own(c) \in Ids
            BY <1>0, PidAssumption, WorkloadAssumption DEF Own, Ids, Shape, Commands
        <3>2. \A id \in Ids : links'[id] # Nil =>
                  links[id] # Nil /\ (links'[id].addr => links[id].addr)
            BY <1>0, <1>5, EnvironmentLinks DEF Exists
        <3> QED
            BY <1>0, <2>1, <3>1, <3>2, HoldsKept
    <2>3. \A id \in Ids : Belongs(id)'
        <3> SUFFICES ASSUME NEW id \in Ids, Exists(id)' PROVE Belongs(id)'
            BY DEF Belongs
        <3>1. Exists(id) /\ Belongs(id) /\ id[2] \in Pids
            BY <1>0, <1>5, EnvironmentLinks
        <3>2. CASE links'[id] = links[id] /\ procs'[links[id].inner] = procs[links[id].inner]
            BY <3>1, <3>2 DEF Belongs, Exists
        <3>3. CASE links'[id].inner = "gone" /\ ~links'[id].addr
            BY <3>1, <3>3, PidAssumption DEF Belongs
        <3> QED
            BY <1>0, <1>5, <3>2, <3>3, EnvironmentLinks
    <2> QED
        BY <1>0, <2>2, <2>3 DEF LInv
<1>6. CASE UNCHANGED vars
    BY <1>2, <1>6 DEF vars
<1> QED
    BY <1>3, <1>4, <1>5, <1>6 DEF Next

-----------------------------------------------------------------------------
(* Bridge implements Connection *)

\* A running process changes by ending only.
LEMMA ProcessKept ==
    ASSUME IInv, [Next]_vars, NEW p \in Pids, procs[p] # Nil, procs'[p] # Nil
    PROVE  procs'[p] = procs[p]
<1>0. procs \in [Pids -> Proc \cup {Nil}]
    BY DEF IInv, TypeOK
<1>1. ASSUME NEW c \in Cmds,
             \/ Step(c) \/ Crash(c) \/ RunCleanup(c)
             \/ \E w \in Workloads, ip \in BOOLEAN : Begin(c, w, ip)
      PROVE  procs'[p] = procs[p]
    <2>1. Moves(c) \/ Leaves(c) \/ \E q \in Pids : Starts(c, q)
        BY <1>1, CommandStep
    <2> QED
        BY <1>0, <2>1 DEF Moves, Leaves, Starts
<1>2. CASE (\E q \in Pids : ProcessEnds(q)) \/ \E id \in Ids : NamespaceGone(id)
    BY <1>0, <1>2 DEF ProcessEnds, NamespaceGone
<1>3. CASE UNCHANGED vars
    BY <1>3 DEF vars
<1> QED
    BY <1>1, <1>2, <1>3 DEF Next

\* Who changes the link of a running process: its command, before the last step; a
\* cleanup, which deletes it; or the kernel, when its inner end is in a namespace that
\* goes or is gone.
LEMMA LinkChanged ==
    ASSUME LInv, [Next]_vars, NEW p \in Pids, procs[p] # Nil, procs'[p] # Nil,
           links'[<<procs[p].w, p>>] # links[<<procs[p].w, p>>]
    PROVE  LET id == <<procs[p].w, p>>
           IN  \/ \E c \in Cmds : cli[c].pid = p /\ cli[c].pc # "rules"
               \/ \E c \in Cmds : At(c, "unlink") /\ Step(c) /\ links'[id] = Nil
               \/ /\ links[id] # Nil => links[id].inner # p
                  /\ links'[id] # Nil => links'[id].inner = "gone"
<1> DEFINE id == <<procs[p].w, p>>
<1>0. /\ NInv /\ IInv /\ links \in [Ids -> Link \cup {Nil}]
      /\ procs \in [Pids -> Proc \cup {Nil}]
      /\ \A c \in Cmds : Shape(c)
    BY DEF LInv, NInv, IInv, TypeOK
<1>1. procs[p].w \in Workloads /\ id \in Ids /\ Claims(procs[p].w, p)
    BY <1>0 DEF Proc, Ids, Claims
<1>2. ASSUME NEW c \in Cmds, Step(c), cli[c].pc # "unlink"
      PROVE  cli[c].pid = p /\ cli[c].pc # "rules"
    <2>1. /\ cli[c].pid \in Pids /\ cli[c].w \in Workloads
          /\ Name(id) = Name(<<cli[c].w, cli[c].pid>>)
        BY <1>0, <1>1, <1>2, OwnNamesOnly DEF Own
    <2>2. Claims(cli[c].w, cli[c].pid)
        BY DEF Claims, Own
    <2>3. cli[c].pid = p
        BY <1>0, <1>1, <2>1, <2>2 DEF NInv, NamesApart
    <2>4. cli[c].pc # "rules"
        BY <1>2 DEF Step, FindBridge, AddBridge, UpBridge, StartProcess, ClearLinks, AddLink,
           FindEnds, Attach, MoveLinkToPID, Configure, AddRules, Unlink, At
    <2> QED
        BY <2>3, <2>4
<1>3. ASSUME NEW c \in Cmds, Step(c), cli[c].pc = "unlink" PROVE links'[id] = Nil
    BY <1>1, <1>3, LinkChanges, <1>0, PidAssumption DEF Made, Attached, Moved, Configured, At
<1>4. ASSUME NEW q \in Pids, ProcessEnds(q)
      PROVE  links[id] # Nil /\ links[id].inner # p /\ links'[id].inner = "gone"
    <2>1. q # p
        BY <1>0, <1>4 DEF ProcessEnds
    <2>2. Exists(id) /\ links[id].inner = q
        BY <1>0, <1>1, <1>4 DEF ProcessEnds
    <2>3. links'[id] = [Fresh EXCEPT !.inner = "gone"]
        BY <1>0, <1>1, <1>4, <2>2 DEF ProcessEnds
    <2> QED
        BY <2>1, <2>2, <2>3 DEF Exists, Fresh
<1>5. ASSUME NEW i \in Ids, NamespaceGone(i)
      PROVE  links[id].inner # p /\ links'[id] = Nil
    <2>1. i = id
        BY <1>0, <1>1, <1>5 DEF NamespaceGone, LinkDel
    <2> QED
        BY <1>0, <1>1, <1>5, <2>1, PidAssumption DEF NamespaceGone, LinkDel
<1>6. ~UNCHANGED vars
    BY DEF vars
<1> QED
    BY <1>2, <1>3, <1>4, <1>5, <1>6, OtherSteps DEF Next, At

\* The rules of a running process come with the last step of its command.
LEMMA FilteredChanged ==
    ASSUME IInv, [Next]_vars, NEW p \in Pids, procs[p] # Nil, procs'[p] # Nil
    PROVE  /\ p \in filtered => p \in filtered'
           /\ p \in filtered' /\ p \notin filtered =>
                 links' = links /\ \E c \in Cmds : cli[c].pid = p
<1>0. procs \in [Pids -> Proc \cup {Nil}] /\ cli \in [Cmds -> Commands]
    BY DEF IInv, TypeOK
<1>1. ASSUME NEW c \in Cmds, AddRules(c)
      PROVE  links' = links /\ (filtered' = filtered \/ filtered' = filtered \cup {cli[c].pid})
    BY <1>1 DEF AddRules
<1>2. ASSUME NEW c \in Cmds,
             \/ (Step(c) /\ ~AddRules(c)) \/ Crash(c) \/ RunCleanup(c)
             \/ \E w \in Workloads, ip \in BOOLEAN : Begin(c, w, ip)
      PROVE  filtered' = filtered
    BY <1>2 DEF Step, FindBridge, AddBridge, UpBridge, StartProcess, ClearLinks, AddLink,
       FindEnds, Attach, MoveLinkToPID, Configure, Unlink, Crash, RunCleanup, Begin
<1>3. ASSUME NEW q \in Pids, ProcessEnds(q) PROVE p \in filtered' <=> p \in filtered
    BY <1>0, <1>3 DEF ProcessEnds
<1>4. ASSUME NEW id \in Ids, NamespaceGone(id) PROVE filtered' = filtered
    BY <1>4 DEF NamespaceGone
<1>5. CASE UNCHANGED vars
    BY <1>5 DEF vars
<1> QED
    BY <1>1, <1>2, <1>3, <1>4, <1>5 DEF Next

\* A command at work on a running process was at work on it before, and is past its
\* last step only if that is done.
LEMMA CommandKept ==
    ASSUME IInv, [Next]_vars, NEW p \in Pids, procs[p] # Nil,
           NEW d \in Cmds, cli'[d].pid = p
    PROVE  cli[d].pid = p /\ (cli[d].pc = "rules" => cli'[d].pc = "rules")
<1>0. /\ procs \in [Pids -> Proc \cup {Nil}] /\ cli \in [Cmds -> Commands]
      /\ \A c \in Cmds : Shape(c)
    BY DEF IInv, TypeOK
<1>1. ASSUME NEW c \in Cmds, Step(c)
      PROVE  cli[d].pid = p /\ (cli[d].pc = "rules" => cli'[d].pc = "rules")
    <2>1. Moves(c) \/ Leaves(c) \/ \E q \in Pids : Starts(c, q)
        BY <1>1, CommandStep
    <2>2. cli[d].pid = p
        BY <1>0, <2>1, IdleTyped, PidAssumption DEF Moves, Leaves, Starts, Others
    <2>3. d # c => cli'[d] = cli[d]
        BY <2>1 DEF Moves, Leaves, Starts, Others
    <2>4. CASE d = c /\ cli[d].pc = "rules"
        <3>1. AddRules(c)
            BY <1>1, <2>4 DEF Step, FindBridge, AddBridge, UpBridge, StartProcess, ClearLinks,
               AddLink, FindEnds, Attach, MoveLinkToPID, Configure, Unlink, At
        <3>2. cli'[d].pid = Nil
            BY <1>0, <2>4, <3>1, IdleTyped DEF AddRules, Exit
        <3> QED
            BY <3>2, PidAssumption
    <2> QED
        BY <2>2, <2>3, <2>4
<1>2. ASSUME NEW c \in Cmds,
             \/ Crash(c) \/ RunCleanup(c)
             \/ \E w \in Workloads, ip \in BOOLEAN : Begin(c, w, ip)
      PROVE  cli'[d] = cli[d]
    <2>1. cli'[c].pid = Nil /\ Others(c)
        BY <1>0, <1>2, WithoutProcess
    <2> QED
        BY <2>1, PidAssumption DEF Others
<1>3. CASE (\E q \in Pids : ProcessEnds(q)) \/ (\E id \in Ids : NamespaceGone(id))
           \/ UNCHANGED vars
    BY <1>3 DEF ProcessEnds, NamespaceGone, vars
<1> QED
    BY <1>1, <1>2, <1>3 DEF Next

\* What a step does to the connection of a process: nothing, or an action of Connection.
Change(p) == \/ Net!Start(p) \/ Net!Connect(p) \/ Net!End(p) \/ Net!Fail(p) \/ Net!Cut(p)
             \/ ConnectionOf'[p] = ConnectionOf[p]

\* A link is completed by the command of its process.
LEMMA CompletedByCommand ==
    ASSUME LInv, LInv', [Next]_vars, NEW p \in Pids, procs[p] # Nil, procs'[p] = procs[p],
           ~Linked(p), Linked(p)'
    PROVE  BeingConnected(p)
<1> DEFINE id == <<procs[p].w, p>>
<1>1. id \in Ids /\ Belongs(id)'
    BY DEF LInv, NInv, IInv, TypeOK, Proc, Ids
<1>2. links'[id] # links[id] /\ links'[id] # Nil /\ links'[id].inner = p /\ links'[id].addr
    BY DEF Linked
<1>3. procs[p].ip
    BY <1>1, <1>2 DEF Belongs, Exists
<1>4. PICK c \in Cmds : cli[c].pid = p /\ cli[c].pc # "rules"
    BY <1>2, LinkChanged, PidAssumption
<1> QED
    BY <1>3, <1>4 DEF BeingConnected, At

\* Only a command can make its process reachable.
LEMMA ReachedByCommand ==
    ASSUME LInv, LInv', [Next]_vars, NEW p \in Pids, procs[p] # Nil, procs'[p] = procs[p],
           ~Reachable(p), Reachable(p)'
    PROVE  BeingConnected(p)
<1> DEFINE id == <<procs[p].w, p>>
<1>0. IInv /\ Linked(p)'
    BY DEF LInv, NInv, Reachable
<1>1. CASE ~Linked(p)
    BY <1>0, <1>1, CompletedByCommand
<1>2. CASE Linked(p)
    <2>1. p \in filtered' /\ p \notin filtered
        BY <1>2 DEF Reachable
    <2>2. PICK c \in Cmds : cli[c].pid = p
        BY <1>0, <2>1, FilteredChanged
    <2>3. id \in Ids /\ Belongs(id)
        BY DEF LInv, NInv, IInv, TypeOK, Proc, Ids
    <2>4. procs[p].ip
        BY <1>2, <2>3 DEF Linked, Belongs, Exists
    <2> QED
        BY <1>2, <2>2, <2>4 DEF BeingConnected
<1> QED
    BY <1>1, <1>2

\* A process that is being connected was being connected.
LEMMA NotResumed ==
    ASSUME LInv, LInv', [Next]_vars, NEW p \in Pids, procs[p] # Nil, procs'[p] = procs[p],
           BeingConnected(p)'
    PROVE  BeingConnected(p)
<1>1. PICK d \in Cmds : cli'[d].pid = p /\ (cli'[d].pc = "rules" => Linked(p)')
    BY DEF BeingConnected, At
<1>2. procs[p].ip
    BY DEF BeingConnected
<1>3. cli[d].pid = p /\ (cli[d].pc = "rules" => cli'[d].pc = "rules")
    BY <1>1, CommandKept DEF LInv, NInv
<1>4. CASE cli[d].pc # "rules" \/ Linked(p)
    BY <1>2, <1>3, <1>4 DEF BeingConnected, At
<1>5. CASE cli[d].pc = "rules" /\ ~Linked(p)
    BY <1>1, <1>3, <1>5, CompletedByCommand
<1> QED
    BY <1>4, <1>5

\* Only cleanup disconnects a process, and nothing connects it again.
LEMMA CutByCleanup ==
    ASSUME LInv, [Next]_vars, NEW p \in Pids, procs[p] # Nil, procs'[p] = procs[p],
           Reachable(p), ~Reachable(p)'
    PROVE  (\E c \in Cmds : At(c, "unlink")) /\ ~BeingConnected(p)'
<1> DEFINE id == <<procs[p].w, p>>
<1>0. /\ IInv /\ id \in Ids /\ cli \in [Cmds -> Commands]
      /\ \A c \in Cmds : Holds(c) /\ Shape(c) /\ (cli[c].pid = p => Own(c) = id)
    BY DEF LInv, NInv, IInv, TypeOK, Proc, Ids, SameProc, Own
<1>1. Linked(p) /\ ~Linked(p)'
    BY <1>0, FilteredChanged DEF Reachable
<1>2. links[id] # Nil /\ links[id].inner = p /\ links[id].addr /\ links'[id] # links[id]
    BY <1>1 DEF Linked
<1>3. ASSUME NEW d \in Cmds, cli[d].pid = p PROVE cli[d].pc = "rules"
    BY <1>0, <1>2, <1>3 DEF Holds, Exists
<1>4. \E c \in Cmds : At(c, "unlink")
    BY <1>2, <1>3, LinkChanged
<1>5. ASSUME NEW d \in Cmds, cli'[d].pid = p PROVE cli'[d].pc = "rules"
    BY <1>0, <1>3, <1>5, CommandKept
<1> QED
    BY <1>1, <1>4, <1>5 DEF BeingConnected, At

\* Without disturbances no command leaves its process unconnected.
LEMMA FailsDisturbed ==
    ASSUME CInv', NEW p \in Pids, procs'[p] # Nil, procs'[p].ip, procs'[p].w \notin Unlinked,
           ~Reachable(p)', ~BeingConnected(p)'
    PROVE  faults' # 0
<1> SUFFICES ASSUME faults' = 0 PROVE FALSE
    OBVIOUS
<1>1. CASE Settled(p)'
    BY <1>1 DEF CInv, Connected, Reachable, Linked
<1>2. CASE ~Settled(p)'
    <2>1. PICK d \in Cmds : cli'[d].pid = p
        BY <1>2 DEF Settled
    <2>2. cli'[d].pc = "rules" /\ ~Linked(p)'
        BY <2>1 DEF BeingConnected, At
    <2>3. Progress(d)' /\ Own(d)' = <<procs'[p].w, p>>
        BY <2>1 DEF CInv, NInv, SameProc, Own
    <2>4. /\ Outside(Name(Own(d)))' = {Own(d)'} /\ links'[Own(d)'].inner = p
          /\ links'[Own(d)'].attached /\ links'[Own(d)'].addr
        BY <2>1, <2>2, <2>3 DEF Progress, Found
    <2>5. links'[Own(d)'] # Nil
        BY <2>4 DEF Outside, Exists
    <2> QED
        BY <2>2, <2>3, <2>4, <2>5 DEF Linked
<1> QED
    BY <1>1, <1>2

\* A process starts without a link.
LEMMA StartsUnlinked ==
    ASSUME LInv, [Next]_vars, NEW p \in Pids, procs[p] = Nil, procs'[p] # Nil
    PROVE  ~Reachable(p)'
<1>0. procs \in [Pids -> Proc \cup {Nil}] /\ \A id \in Ids : Belongs(id)
    BY DEF LInv, NInv, IInv, TypeOK
<1>1. procs'[p] \in Proc
    BY NextIInv DEF LInv, NInv, IInv, TypeOK
<1>2. <<procs'[p].w, p>> \in Ids
    BY <1>1 DEF Proc, Ids
<1>3. links' = links
    BY <1>0 DEF Next, vars, Step, FindBridge, AddBridge, UpBridge, StartProcess, ClearLinks,
       AddLink, FindEnds, Attach, MoveLinkToPID, Configure, AddRules, Unlink, Begin, RunCleanup,
       Crash, ProcessEnds, NamespaceGone
<1>4. ~Linked(p)'
    BY <1>0, <1>2, <1>3 DEF Linked, Belongs, Exists
<1> QED
    BY <1>4 DEF Reachable

\* Every step changes every process as Connection says.
LEMMA StepNet ==
    ASSUME LInv, LInv', CInv', [Next]_vars, NEW p \in Pids
    PROVE  Change(p)
<1>0. faults' \in Nat /\ IInv
    BY DEF LInv, NInv, IInv, TypeOK
<1>1. ConnectionOf[p] = IF procs[p] = Nil THEN "none"
                        ELSE IF Reachable(p) THEN "connected"
                        ELSE IF BeingConnected(p) THEN "connecting" ELSE "isolated"
    BY DEF ConnectionOf
<1>2. ConnectionOf'[p] = IF procs'[p] = Nil THEN "none"
                         ELSE IF Reachable(p)' THEN "connected"
                         ELSE IF BeingConnected(p)' THEN "connecting" ELSE "isolated"
    BY DEF ConnectionOf
<1>3. CASE procs[p] = Nil
    <2>1. procs'[p] # Nil => ~Reachable(p)'
        BY <1>3, StartsUnlinked
    <2> QED
        BY <1>1, <1>2, <1>3, <2>1 DEF Change, Net!Start
<1>4. CASE procs[p] # Nil /\ procs'[p] = Nil
    BY <1>1, <1>2, <1>4 DEF Change, Net!End
<1>5. CASE procs[p] # Nil /\ procs'[p] # Nil
    <2>1. procs'[p] = procs[p]
        BY <1>0, <1>5, ProcessKept
    <2>2. CASE Reachable(p)
        BY <1>1, <1>2, <1>5, <2>1, <2>2, CutByCleanup DEF Change, Net!Cut
    <2>3. CASE ~Reachable(p) /\ BeingConnected(p)
        <3>1. procs'[p].ip /\ procs'[p].w \notin Unlinked
            BY <1>0, <1>5, <2>1, <2>3 DEF BeingConnected, IInv, Shape, LInv, NInv, SameProc
        <3>2. ~Reachable(p)' /\ ~BeingConnected(p)' => faults' > 0
            BY <1>0, <1>5, <3>1, FailsDisturbed
        <3> QED
            BY <1>1, <1>2, <1>5, <2>3, <3>2 DEF Change, Net!Connect, Net!Fail
    <2>4. CASE ~Reachable(p) /\ ~BeingConnected(p)
        <3>1. ~Reachable(p)' /\ ~BeingConnected(p)'
            BY <1>5, <2>1, <2>4, ReachedByCommand, NotResumed
        <3> QED
            BY <1>1, <1>2, <1>5, <2>4, <3>1 DEF Change
    <2> QED
        BY <2>2, <2>3, <2>4
<1> QED
    BY <1>3, <1>4, <1>5

\* As long as no process gets the interface names of a running one, the netlink calls
\* of ConnectProcessToBridge, of all commands together and with cleanup and crashes in
\* between, implement Connection: a process is connected by its command and once, stays
\* connected until it ends or cleanup comes, and is never connected later.
THEOREM Connections == ASSUME ~Collisions PROVE Spec => ProcessesConnected
<1>1. Init => Net!Init
    <2> SUFFICES ASSUME Init PROVE Net!Init
        OBVIOUS
    <2>1. ConnectionOf = [p \in Pids |-> "none"]
        BY DEF Init, ConnectionOf
    <2>2. ~(faults > 0) /\ ~(\E c \in Cmds : At(c, "unlink"))
        BY IdleTyped DEF Init, At
    <2> QED
        BY <2>1, <2>2 DEF Net!Init
<1>2. LInv /\ CInv /\ [Next]_vars => LInv' /\ CInv'
    BY NextLInv, NextCInv
<1>3. LInv /\ LInv' /\ CInv' /\ [Next]_vars => Net!Next
    <2> SUFFICES ASSUME LInv, LInv', CInv', [Next]_vars PROVE Net!Next
        OBVIOUS
    <2>1. IInv /\ \A p \in Pids : Change(p)
        BY StepNet DEF LInv, NInv
    <2> QED
        BY <2>1, FaultsKept DEF Net!Next, Change
<1> QED
    BY <1>1, <1>2, <1>3, InitLInv, InitCInv, PTL DEF Spec, ProcessesConnected, Net!Spec

-----------------------------------------------------------------------------
(* br0 *)

\* While br0 has no address, the command that will give it one is on its way.
BridgePending == faults = 0 /\ bridge = "added" => \E c \in Cmds : At(c, "upbr")

BInv == IInv /\ BridgePending

LEMMA NextBInv == BInv /\ [Next]_vars => BInv'
<1> SUFFICES ASSUME BInv, [Next]_vars, faults' = 0, bridge' = "added"
             PROVE  \E c \in Cmds : At(c, "upbr")'
    BY NextIInv DEF BInv, BridgePending
<1>0. IInv /\ cli \in [Cmds -> Commands] /\ faults \in 0 .. MaxFaults
    BY DEF BInv, IInv, TypeOK
<1>1. ASSUME NEW d \in Cmds,
             \/ Step(d) \/ Crash(d) \/ RunCleanup(d)
             \/ \E w \in Workloads, ip \in BOOLEAN : Begin(d, w, ip)
      PROVE  \E c \in Cmds : At(c, "upbr")'
    <2>1. CASE AddBridge(d)
        <3>1. cli'[d].pc = "upbr"
            BY <1>0, <2>1, GotoMoves, "upbr" \in Steps DEF AddBridge, Steps
        <3> QED
            BY <3>1 DEF At
    <2>2. CASE ~AddBridge(d)
        <3>0. ~Crash(d) /\ ~RunCleanup(d)
            BY <1>0, MaxFaultsAssumption DEF Crash, RunCleanup, Disturbance
        <3>1. faults' = faults
            BY <1>1, <2>2, <3>0 DEF Step, Begin, FindBridge,
               UpBridge, StartProcess, ClearLinks, AddLink, FindEnds, Attach, MoveLinkToPID,
               Configure, AddRules, Unlink
        <3>2. bridge = "added" /\ ~UpBridge(d)
            BY <1>1, <2>2, <3>0 DEF Step, Begin, FindBridge, UpBridge, StartProcess,
               ClearLinks, AddLink, FindEnds, Attach, MoveLinkToPID,
               Configure, AddRules, Unlink
        <3>3. PICK c \in Cmds : At(c, "upbr")
            BY <3>1, <3>2 DEF BInv, BridgePending
        <3>4. c # d
            BY <1>1, <2>2, <3>0, <3>2, <3>3
            DEF Step, Begin, FindBridge, StartProcess, ClearLinks, AddLink, FindEnds, Attach,
                MoveLinkToPID, Configure, AddRules, Unlink, At
        <3>5. Others(d)
            BY <1>0, <1>1, CommandStep DEF Moves, Leaves, Starts
        <3> QED
            BY <3>3, <3>4, <3>5 DEF Others, At
    <2> QED
        BY <2>1, <2>2
<1>2. CASE \/ \E p \in Pids : ProcessEnds(p)
           \/ \E id \in Ids : NamespaceGone(id)
           \/ UNCHANGED vars
    <2>1. cli' = cli /\ bridge' = bridge /\ faults' = faults
        BY <1>2 DEF ProcessEnds, NamespaceGone, vars
    <2> QED
        BY <2>1 DEF BInv, BridgePending, At
<1> QED
    BY <1>1, <1>2 DEF Next

\* CreateBridge of any number of concurrent commands: once all are done, br0 has its
\* address, if none of them was cut off.
THEOREM BridgeConfigured == Spec => []BridgeReady
<1>1. Init => BInv
    BY InitIInv DEF Init, BInv, BridgePending
<1>2. BInv => BridgeReady
    BY DEF BInv, IInv, TypeOK, BridgePending, BridgeReady, At
<1> QED
    BY <1>1, <1>2, NextBInv, PTL DEF Spec

-----------------------------------------------------------------------------
(* cleanup *)

\* Only cleanup has a list of names.
ListedByCleanup == \A c \in Cmds : cli[c].todo # {} => At(c, "unlink")

UInv == IInv /\ ListedByCleanup

\* A step other than those of cleanup leaves the command without a list.
LEMMA NoList ==
    ASSUME IInv, NEW c \in Cmds, cli[c].todo = {},
           \/ Step(c) /\ ~Unlink(c)
           \/ Crash(c)
           \/ \E w \in Workloads, ip \in BOOLEAN : Begin(c, w, ip)
    PROVE  cli'[c].todo = {}
<1>0. cli \in [Cmds -> Commands]
    BY DEF IInv, TypeOK
<1>1. ASSUME NEW s, Goto(c, s) PROVE cli'[c].todo = {}
    BY <1>0, <1>1 DEF Goto, Commands
<1>2. CASE Exit(c)
    BY <1>0, <1>2 DEF Exit, Idle
<1>3. CASE StartProcess(c)
    BY <1>0, <1>2, <1>3 DEF StartProcess, Commands
<1>4. ASSUME NEW w \in Workloads, NEW ip \in BOOLEAN, Begin(c, w, ip)
      PROVE  cli'[c].todo = {}
    BY <1>0, <1>4 DEF Begin, Idle
<1>5. CASE FindEnds(c)
    BY <1>0, <1>2, <1>5 DEF FindEnds, Commands
<1>6. CASE \/ FindBridge(c) \/ AddBridge(c) \/ UpBridge(c) \/ ClearLinks(c) \/ AddLink(c)
           \/ Attach(c) \/ MoveLinkToPID(c) \/ Configure(c) \/ AddRules(c) \/ Crash(c)
    BY <1>1, <1>2, <1>6
    DEF FindBridge, AddBridge, UpBridge, ClearLinks, AddLink, Attach, MoveLinkToPID,
        Configure, AddRules, Crash
<1> QED
    BY <1>3, <1>4, <1>5, <1>6 DEF Step

\* One step of cleanup deals with one name.
LEMMA OneName ==
    ASSUME IInv, NEW c \in Cmds, Unlink(c)
    PROVE  \E n \in cli[c].todo : /\ LinkDel(Outside(n))
                                  /\ cli'[c].todo = cli[c].todo \ {n}
                                  /\ cli'[c].todo # {} => cli'[c].pc = "unlink"
<1>0. cli \in [Cmds -> Commands] /\ cli[c] \in Commands
    BY DEF IInv, TypeOK
<1>1. PICK n \in cli[c].todo :
         /\ LinkDel(Outside(n))
         /\ IF cli[c].todo = {n} THEN Exit(c) ELSE cli' = [cli EXCEPT ![c].todo = @ \ {n}]
    BY DEF Unlink
<1>2. CASE cli[c].todo = {n}
    <2>1. cli'[c].todo = {}
        BY <1>0, <1>1, <1>2 DEF Exit, Idle
    <2> QED
        BY <1>1, <1>2, <2>1
<1>3. CASE cli[c].todo # {n}
    <2>1. cli'[c].todo = cli[c].todo \ {n} /\ cli'[c].pc = cli[c].pc
        BY <1>0, <1>1, <1>3 DEF Commands
    <2> QED
        BY <1>1, <2>1 DEF Unlink, At
<1> QED
    BY <1>2, <1>3

\* A command that is not in cleanup has no list, and begins cleanup with a pc of it.
LEMMA NextUInv == UInv /\ [Next]_vars => UInv'
<1> SUFFICES ASSUME UInv, [Next]_vars, NEW c \in Cmds, cli'[c].todo # {}
             PROVE  At(c, "unlink")'
    BY NextIInv DEF UInv, ListedByCleanup
<1>0. IInv /\ cli \in [Cmds -> Commands]
    BY DEF UInv, IInv, TypeOK
<1>1. CASE cli'[c] = cli[c]
    BY <1>1 DEF UInv, ListedByCleanup, At
<1>2. ASSUME NEW d \in Cmds, cli'[c] # cli[c],
             \/ Step(d) \/ Crash(d) \/ RunCleanup(d)
             \/ \E w \in Workloads, ip \in BOOLEAN : Begin(d, w, ip)
      PROVE  At(c, "unlink")'
    <2>1. d = c
        BY <1>0, <1>2, CommandStep DEF Moves, Leaves, Starts, Others
    <2>2. CASE RunCleanup(c)
        BY <1>0, <2>2 DEF RunCleanup, At, Idle
    <2>3. CASE Unlink(c)
        BY <1>0, <2>3, OneName DEF At
    <2>4. CASE ~RunCleanup(c) /\ ~Unlink(c)
        <3>1. cli[c].todo # {}
            BY <1>0, <1>2, <2>1, <2>4, NoList
        <3>2. At(c, "unlink")
            BY <3>1 DEF UInv, ListedByCleanup
        <3>3. Crash(c)
            BY <1>2, <2>1, <2>4, <3>2
            DEF Step, Begin, FindBridge, AddBridge, UpBridge, StartProcess, ClearLinks,
                AddLink, FindEnds, Attach, MoveLinkToPID, Configure, AddRules, At
        <3>4. cli'[c].todo = {}
            BY <1>0, <3>3 DEF Crash, Exit, Idle
        <3> QED
            BY <3>4
    <2> QED
        BY <2>2, <2>3, <2>4
<1>3. CASE \/ \E p \in Pids : ProcessEnds(p)
           \/ \E id \in Ids : NamespaceGone(id)
           \/ UNCHANGED vars
    BY <1>1, <1>3 DEF ProcessEnds, NamespaceGone, vars
<1> QED
    BY <1>1, <1>2, <1>3 DEF Next

\* cleanup.go:13: cleanup is done with a name only when no hanging link has it any
\* more, with any number of commands, crashes and colliding names.
THEOREM HangingRemoved == Spec => CleanupRemovesHanging
<1>1. Init => UInv
    BY InitIInv DEF Init, UInv, ListedByCleanup, Idle
<1>2. UInv /\ [Next]_vars =>
         [\A id \in Ids, c \in Cmds :
             /\ Hanging(id) /\ Name(id) \in cli[c].todo
             /\ Name(id) \notin cli'[c].todo /\ faults' = faults
             => ~Hanging(id)']_vars
    <2> SUFFICES ASSUME UInv, Next, NEW id \in Ids, NEW c \in Cmds, Exists(id),
                        Name(id) \in cli[c].todo, Name(id) \notin cli'[c].todo,
                        faults' = faults
                 PROVE  ~Hanging(id)'
        BY DEF Hanging
    <2>0. IInv /\ cli \in [Cmds -> Commands] /\ faults \in Nat /\ At(c, "unlink")
        BY MaxFaultsAssumption DEF UInv, IInv, TypeOK, ListedByCleanup
    <2>1. cli'[c] # cli[c]
        OBVIOUS
    <2>2. PICK d \in Cmds : \/ Step(d) \/ Crash(d) \/ RunCleanup(d)
                           \/ \E w \in Workloads, ip \in BOOLEAN : Begin(d, w, ip)
        BY <2>1 DEF Next, ProcessEnds, NamespaceGone
    <2>3. d = c
        BY <2>0, <2>1, <2>2, CommandStep DEF Moves, Leaves, Starts, Others
    <2>4. ~Crash(c) /\ ~RunCleanup(c)
        BY <2>0 DEF Crash, RunCleanup, Disturbance
    <2>5. Unlink(c)
        BY <2>0, <2>2, <2>3, <2>4
        DEF Step, Begin, FindBridge, AddBridge, UpBridge, StartProcess, ClearLinks, AddLink,
            FindEnds, Attach, MoveLinkToPID, Configure, AddRules, At
    <2>6. LinkDel(Outside(Name(id)))
        BY <2>0, <2>5, OneName
    <2>7. links'[id] = Nil
        BY <2>6 DEF LinkDel, Outside
    <2> QED
        BY <2>7 DEF Hanging, Exists
<1> QED
    BY <1>1, <1>2, NextUInv, PTL DEF Spec, CleanupRemovesHanging
=============================================================================
