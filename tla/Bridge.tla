------------------------------- MODULE Bridge -------------------------------
(***************************************************************************)
(* Connecting processes to the bridge: CreateBridge,                       *)
(* ConnectProcessToBridge and configureInterfaceInNamespace of             *)
(* network/network_manager.go, netlink call by netlink call, run by        *)
(* concurrent commands, while processes exit and cleanup deletes links.    *)
(*                                                                         *)
(* A link is a veth pair.  Its outer end stays in the host's namespace and *)
(* is attached to br0; its inner end is created in the host's namespace,   *)
(* too, and then moved into the namespace of the process.  Deleting one    *)
(* end deletes both.  Interfaces are created, looked up and cleaned up by  *)
(* names, which are made of nine characters of the workload's name and the *)
(* pid modulo 1000; once looked up they are used by their index.           *)
(***************************************************************************)
EXTENDS Integers, FiniteSets

CONSTANTS
    Cmds,        \* slots for commands that run at the same time
    Pids,        \* process ids
    Workloads,   \* names of workloads, and of the gateway
    BridgeFirst, \* those whose command creates br0 before the process: services
    Unlinked,    \* those of them that are not load balanced: never connected
    Unfiltered,  \* those whose name starts with envoy, the gateway first of all
    Prefix,      \* the first nine characters of "v-" and the name
    Residue,     \* pid modulo 1000
    Nil,         \* no process, no link
    Collisions,  \* whether a process may get the interface names of a running one
    MaxFaults    \* bound on disturbances: commands cut off, and runs of cleanup

ASSUME PidAssumption ==
    "host" \notin Pids /\ "gone" \notin Pids /\ Nil \notin Pids
ASSUME WorkloadAssumption == /\ BridgeFirst \subseteq Workloads
                             /\ Unlinked \subseteq BridgeFirst
                             /\ Unfiltered \subseteq Workloads
ASSUME CollisionsAssumption == Collisions \in BOOLEAN
ASSUME MaxFaultsAssumption == MaxFaults \in Nat

\* The link made for process p of workload w, and the names ends start with.
Ids   == Workloads \X Pids
Names == {<<Prefix[id[1]], Residue[id[2]]>> : id \in Ids}

\* Mutant of Name: the pid is left out.
NameWithoutPid(id) == <<Prefix[id[1]], Nil>>

\* safePrefix and the pid modulo 1000.
Name(id) == <<Prefix[id[1]], Residue[id[2]]>>

\* inner: the namespace of the inner end ("gone": of a process that has exited).
Link  == [inner : Pids \cup {"host", "gone"}, attached : BOOLEAN, addr : BOOLEAN]
Fresh == [inner |-> "host", attached |-> FALSE, addr |-> FALSE]
Proc  == [w : Workloads, ip : BOOLEAN]

ASSUME NilAssumption == Nil \notin Ids /\ Nil \notin Link /\ Nil \notin Proc
                        /\ Nil \notin Workloads

VARIABLES
    bridge,   \* br0: how far CreateBridge has got with it
    links,    \* the veth pairs of the host
    procs,    \* running processes: workload, and whether there is an address for it
    filtered, \* the processes whose namespace has the firewall rules
    cli,      \* the commands in progress
    faults    \* disturbances so far

vars == <<bridge, links, procs, filtered, cli, faults>>

Steps == {"idle",
          "bridge", "addbr", "upbr",                          \* CreateBridge
          "start",                                            \* exec...
          "clear", "add", "find", "attach", "move",           \* ConnectProcess-
          "configure", "rules",                               \* ToBridge
          "unlink"}                                           \* cleanup

Commands == [pc : Steps, w : Workloads \cup {Nil}, ip : BOOLEAN,
             pid : Pids \cup {Nil}, in : Ids \cup {Nil}, out : Ids \cup {Nil},
             todo : SUBSET Names]
Idle == [pc |-> "idle", w |-> Nil, ip |-> FALSE, pid |-> Nil, in |-> Nil,
         out |-> Nil, todo |-> {}]

TypeOK ==
    /\ bridge \in {"none", "added", "ready"}
    /\ links \in [Ids -> Link \cup {Nil}]
    /\ procs \in [Pids -> Proc \cup {Nil}]
    /\ filtered \in SUBSET Pids
    /\ cli \in [Cmds -> Commands]
    /\ faults \in 0 .. MaxFaults

Init ==
    /\ bridge = "none"
    /\ links = [id \in Ids |-> Nil]
    /\ procs = [p \in Pids |-> Nil]
    /\ filtered = {}
    /\ cli = [c \in Cmds |-> Idle]
    /\ faults = 0

-----------------------------------------------------------------------------
(* Helpers *)

At(c, step)   == cli[c].pc = step
Goto(c, step) == cli' = [cli EXCEPT ![c].pc = step]
Exit(c)       == cli' = [cli EXCEPT ![c] = Idle]
Disturbance   == faults < MaxFaults /\ faults' = faults + 1
Own(c)        == <<cli[c].w, cli[c].pid>>

Exists(id) == links[id] # Nil

\* netlink.LinkByName in the host's namespace, for the outer and the inner end.
Outside(n) == {id \in Ids : Exists(id) /\ Name(id) = n}
Inside(n)  == {id \in Outside(n) : links[id].inner = "host"}

LinkDel(S) == links' = [id \in Ids |-> IF id \in S THEN Nil ELSE links[id]]

\* A child that has exited keeps its pid until its command ends.  (A bound of the
\* model: a pid is not given out either while a command refers to a link made
\* for it; links have an index that is never used twice.)
Held(p) == \E c \in Cmds : \/ cli[c].pid = p
                           \/ \E w \in Workloads : <<w, p>> \in {cli[c].in, cli[c].out}

\* No process and no command has the interface names of process p of workload w.
Distinct(w, p) ==
    \A v \in Workloads, q \in Pids :
        /\ p # q
        /\ \/ procs[q] # Nil /\ procs[q].w = v
           \/ \E c \in Cmds : Own(c) = <<v, q>>
        => ~(Prefix[v] = Prefix[w] /\ Residue[q] = Residue[p])

-----------------------------------------------------------------------------
(* CreateBridge and the start of the process *)

\* A create, or StartEnvoy: with an address, or with the empty one that GetIp gives
\* when it fails.  (Of services that are not connected only the first case is
\* looked at; the address makes no difference to them.)
Begin(c, w, ip) ==
    /\ At(c, "idle")
    /\ w \in Unfiltered \cup Unlinked => ip
    /\ cli' = [cli EXCEPT ![c] =
                 [Idle EXCEPT !.pc = IF w \in BridgeFirst THEN "bridge" ELSE "start",
                              !.w = w, !.ip = ip]]
    /\ UNCHANGED <<bridge, links, procs, filtered, faults>>

AfterBridge(c) == IF cli[c].pid = Nil THEN "start" ELSE "clear"

\* "If bridge already exists, return it", in whatever state it is.
FindBridge(c) ==
    /\ At(c, "bridge")
    /\ Goto(c, IF bridge = "none" THEN "addbr" ELSE AfterBridge(c))
    /\ UNCHANGED <<bridge, links, procs, filtered, faults>>

\* LinkAdd fails, and is only logged, if another command was faster.
AddBridge(c) ==
    /\ At(c, "addbr")
    /\ bridge' = IF bridge = "none" THEN "added" ELSE bridge
    /\ Goto(c, "upbr")
    /\ UNCHANGED <<links, procs, filtered, faults>>

\* Mutant of UpBridge: without the address.
UpBridgeOnly(c) ==
    /\ At(c, "upbr")
    /\ Goto(c, AfterBridge(c))
    /\ UNCHANGED <<bridge, links, procs, filtered, faults>>

\* LinkSetUp and AddrAdd.
UpBridge(c) ==
    /\ At(c, "upbr")
    /\ bridge' = "ready"
    /\ Goto(c, AfterBridge(c))
    /\ UNCHANGED <<links, procs, filtered, faults>>

\* execPythonService, execPostgreSQL, StartEnvoy: a process in a network namespace
\* of its own.  "if s.Lb": a service that is not load balanced is left without a
\* link.  Databases and Envoy get the bridge afterwards.
StartProcess(c) ==
    /\ At(c, "start")
    /\ \E p \in Pids :
          /\ procs[p] = Nil /\ ~Held(p)
          /\ Collisions \/ Distinct(cli[c].w, p)
          /\ procs' = [procs EXCEPT ![p] = [w |-> cli[c].w, ip |-> cli[c].ip]]
          /\ IF cli[c].w \in Unlinked
             THEN Exit(c)
             ELSE cli' = [cli EXCEPT ![c] = [@ EXCEPT
                            !.pc = IF cli[c].w \in BridgeFirst THEN "clear" ELSE "bridge",
                            !.pid = p]]
    /\ UNCHANGED <<bridge, links, filtered, faults>>

-----------------------------------------------------------------------------
(* ConnectProcessToBridge: any error ends it, and is only logged *)

\* Mutant of ClearLinks: nothing is deleted.
ClearNothing(c) ==
    /\ At(c, "clear")
    /\ Goto(c, "add")
    /\ UNCHANGED <<bridge, links, procs, filtered, faults>>

\* Mutant of ClearLinks: the pid is not compared.
ClearSameName(c) ==
    /\ At(c, "clear")
    /\ LinkDel({id \in Ids : Exists(id) /\ Prefix[id[1]] = Prefix[cli[c].w]})
    /\ Goto(c, "add")
    /\ UNCHANGED <<bridge, procs, filtered, faults>>

\* "Cleanup existing interfaces if they exist", by name.  (The inner end is looked
\* up before the outer one; whoever has an end of that name there has both.)
ClearLinks(c) ==
    /\ At(c, "clear")
    /\ LinkDel(Outside(Name(Own(c))))
    /\ Goto(c, "add")
    /\ UNCHANGED <<bridge, procs, filtered, faults>>

\* LinkAdd fails if the name is taken.
AddLink(c) ==
    /\ At(c, "add")
    /\ IF Outside(Name(Own(c))) = {}
       THEN links' = [links EXCEPT ![Own(c)] = Fresh] /\ Goto(c, "find")
       ELSE UNCHANGED links /\ Exit(c)
    /\ UNCHANGED <<bridge, procs, filtered, faults>>

\* LinkByName for either end.
FindEnds(c) ==
    /\ At(c, "find")
    /\ \/ \E i \in Inside(Name(Own(c))), o \in Outside(Name(Own(c))) :
             cli' = [cli EXCEPT ![c] = [@ EXCEPT !.pc = "attach", !.in = i, !.out = o]]
       \/ Inside(Name(Own(c))) = {} /\ Exit(c)
    /\ UNCHANGED <<bridge, links, procs, filtered, faults>>

\* LinkSetMaster and LinkSetUp of the outer end.
Attach(c) ==
    /\ At(c, "attach")
    /\ IF Exists(cli[c].out)
       THEN links' = [links EXCEPT ![cli[c].out].attached = TRUE] /\ Goto(c, "move")
       ELSE UNCHANGED links /\ Exit(c)
    /\ UNCHANGED <<bridge, procs, filtered, faults>>

\* MoveLinkToPID: the process and the interface have to be there still.
MoveLinkToPID(c) ==
    /\ At(c, "move")
    /\ IF /\ procs[cli[c].pid] # Nil
          /\ Exists(cli[c].in) /\ links[cli[c].in].inner = "host"
       THEN links' = [links EXCEPT ![cli[c].in].inner = cli[c].pid] /\ Goto(c, "configure")
       ELSE UNCHANGED links /\ Exit(c)
    /\ UNCHANGED <<bridge, procs, filtered, faults>>

\* The interface of the command's name in the namespace of its process.
InNamespace(c) == {id \in Outside(Name(Own(c))) : links[id].inner = cli[c].pid}

\* configureInterfaceInNamespace: enter the namespace, find the interface there,
\* parse the address (the empty one is an error), add it and set the interface up.
Configure(c) ==
    /\ At(c, "configure")
    /\ \/ \E id \in InNamespace(c) :
             /\ cli[c].ip
             /\ links' = [links EXCEPT ![id].addr = TRUE]
             /\ Goto(c, "rules")
       \/ /\ InNamespace(c) = {} \/ ~cli[c].ip
          /\ Exit(c)
          /\ UNCHANGED links
    /\ UNCHANGED <<bridge, procs, filtered, faults>>

\* nsenter iptables: accept what comes from the subnet, drop the rest.  Not for
\* interfaces whose name starts with v-envoy.
AddRules(c) ==
    /\ At(c, "rules")
    /\ filtered' = IF procs[cli[c].pid] = Nil \/ cli[c].w \in Unfiltered
                   THEN filtered ELSE filtered \cup {cli[c].pid}
    /\ Exit(c)
    /\ UNCHANGED <<bridge, links, procs, faults>>

-----------------------------------------------------------------------------
(* cleanup *)

\* runCleanup lists the interfaces of the host's namespace that start with v- ...
RunCleanup(c) ==
    /\ At(c, "idle") /\ Disturbance
    /\ LET found == {Name(id) : id \in {i \in Ids : Exists(i)}}
       IN  /\ found # {}
           /\ cli' = [cli EXCEPT ![c] = [Idle EXCEPT !.pc = "unlink", !.todo = found]]
    /\ UNCHANGED <<bridge, links, procs, filtered>>

\* Mutant of Unlink: an interface that is gone ends the command.
UnlinkStrict(c) ==
    /\ At(c, "unlink")
    /\ \E n \in cli[c].todo :
          /\ LinkDel(Outside(n))
          /\ IF cli[c].todo = {n} \/ Outside(n) = {}
             THEN Exit(c)
             ELSE cli' = [cli EXCEPT ![c].todo = @ \ {n}]
    /\ UNCHANGED <<bridge, procs, filtered, faults>>

\* ... and deletes one after the other, by name; errors are only logged.
Unlink(c) ==
    /\ At(c, "unlink")
    /\ \E n \in cli[c].todo :
          /\ LinkDel(Outside(n))
          /\ IF cli[c].todo = {n}
             THEN Exit(c)
             ELSE cli' = [cli EXCEPT ![c].todo = @ \ {n}]
    /\ UNCHANGED <<bridge, procs, filtered, faults>>

-----------------------------------------------------------------------------
(* The environment *)

\* A process ends: delete kills it, StartEnvoy replaces it, or it exits.  Its
\* namespace goes with it ...
ProcessEnds(p) ==
    /\ procs[p] # Nil
    /\ procs' = [procs EXCEPT ![p] = Nil]
    /\ filtered' = filtered \ {p}
    /\ links' = [id \in Ids |-> IF Exists(id) /\ links[id].inner = p
                                THEN [Fresh EXCEPT !.inner = "gone"] ELSE links[id]]
    /\ UNCHANGED <<bridge, cli, faults>>

\* ... and some time later the kernel deletes the interfaces that were in it.
NamespaceGone(id) ==
    /\ Exists(id) /\ links[id].inner = "gone"
    /\ LinkDel({id})
    /\ UNCHANGED <<bridge, procs, filtered, cli, faults>>

\* The command is killed, or ends with log.Fatalf or panic, between two calls.
Crash(c) ==
    /\ ~At(c, "idle")
    /\ Disturbance
    /\ Exit(c)
    /\ UNCHANGED <<bridge, links, procs, filtered>>

-----------------------------------------------------------------------------
Step(c) ==
    \/ FindBridge(c) \/ AddBridge(c) \/ UpBridge(c)
    \/ StartProcess(c) \/ ClearLinks(c) \/ AddLink(c) \/ FindEnds(c) \/ Attach(c)
    \/ MoveLinkToPID(c) \/ Configure(c) \/ AddRules(c) \/ Unlink(c)

Next ==
    \/ \E c \in Cmds :
          \/ \E w \in Workloads, ip \in BOOLEAN : Begin(c, w, ip)
          \/ RunCleanup(c)
          \/ Step(c)
          \/ Crash(c)
    \/ \E p \in Pids : ProcessEnds(p)
    \/ \E id \in Ids : NamespaceGone(id)

\* A command that has been started goes on: each of its steps is a system call.
\* The kernel's worker gets to every namespace that is gone.
Fairness == /\ \A c \in Cmds : WF_vars(Step(c))
            /\ \A id \in Ids : WF_vars(NamespaceGone(id))

Spec == Init /\ [][Next]_vars /\ Fairness

-----------------------------------------------------------------------------
(* Properties *)

\* The process runs and no command is at work on it.
Settled(p) == procs[p] # Nil /\ \A c \in Cmds : cli[c].pid # p

\* network_manager.go:511, the names "ensure uniqueness": as long as no two running
\* processes share the nine characters and the pid modulo 1000, no command touches
\* the link of a process it did not start, from its creation to its use by index;
\* it goes with its process or by cleanup only.
LinksLeftAlone ==
    [][\A p \in Pids :
          LET id == <<procs[p].w, p>>
          IN  Settled(p) /\ Exists(id) /\ links[id].inner = p =>
                 \/ links'[id] = links[id]
                 \/ procs'[p] = Nil
                 \/ \E c \in Cmds : At(c, "unlink") /\ cli'[c] # cli[c]]_vars

\* cmd/cleanup.go:13, "remove any hanging interfaces": cleanup is done with the name
\* of a link whose inner end never left the host, and that no command is at work
\* on, only when the link is gone, whatever else it found gone.
Hanging(id) == /\ Exists(id) /\ links[id].inner = "host"
               /\ \A c \in Cmds : id \notin {cli[c].in, cli[c].out, Own(c)}
CleanupRemovesHanging ==
    [][\A id \in Ids, c \in Cmds :
          /\ Hanging(id) /\ Name(id) \in cli[c].todo
          /\ Name(id) \notin cli'[c].todo /\ faults' = faults
          => ~Hanging(id)']_vars

\* CreateBridge of concurrent commands: once they are all done, br0 is up and has
\* its address, if none of them was cut off.
BridgeReady ==
    faults = 0 /\ (\A c \in Cmds : At(c, "idle")) => bridge \in {"none", "ready"}

\* Others on the bridge can reach process p: its link is complete, and the
\* namespace lets in what comes from the subnet.
Linked(p) == LET l == links[<<procs[p].w, p>>]
             IN  l # Nil /\ l.inner = p /\ l.attached /\ l.addr
Reachable(p) == Linked(p) /\ (p \in filtered \/ procs[p].w \in Unfiltered)

\* README.md:64-72, "When a workload starts, ppass links it", as far as it is true:
\* a database, the gateway or a load-balanced service that was given an address and
\* whose command was not cut off has its link, attached, up and with the address,
\* and its firewall.  Neither the remains of earlier processes nor commands that
\* run at the same time keep it from that.
ConnectedWhenDone ==
    faults = 0 =>
        \A p \in Pids :
            Settled(p) /\ procs[p].w \notin Unlinked /\ procs[p].ip => Reachable(p)

\* Its command is still to make it so; at the last step with nothing missing but
\* the rules.
BeingConnected(p) ==
    procs[p].ip /\ \E c \in Cmds : cli[c].pid = p /\ (At(c, "rules") => Linked(p))

ConnectionOf ==
    [p \in Pids |-> IF procs[p] = Nil THEN "none"
                    ELSE IF Reachable(p) THEN "connected"
                    ELSE IF BeingConnected(p) THEN "connecting" ELSE "isolated"]

Net == INSTANCE Connection WITH
           Processes <- Pids, status <- ConnectionOf, disturbed <- faults > 0,
           cleaning <- \E c \in Cmds : At(c, "unlink")

\* The netlink calls of all commands together connect processes as in Connection,
\* in one step for each: no process is left half connected, or is connected or cut
\* off by a command that is not about it.
ProcessesConnected == Net!Spec
=============================================================================
