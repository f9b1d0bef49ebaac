-------------------------------- MODULE Paas --------------------------------
(***************************************************************************)
(* The life cycle of workloads: what the CLI commands create, delete and   *)
(* cleanup do to the host, and to each other when several run at once.     *)
(*                                                                         *)
(* A command is one short-lived process without locks.  Everything the     *)
(* commands share is outside of them: the registry and the address pool in *)
(* Redis, the processes of the host, the Envoy fragments in /etc/envoy,    *)
(* the rendered configuration and the pid file in /run.  Every access to   *)
(* one of these is a step of its own.  The address pool is used through    *)
(* GetIp and ReleaseIp as single steps, which is what module Ipam shows    *)
(* them to be: they succeed or give up, and giving up for the conflicts    *)
(* with other commands' updates is no fault.                               *)
(*                                                                         *)
(* What can go wrong outside of the program is bounded by MaxFaults: a     *)
(* command killed between two steps, Redis becoming unreachable, also in   *)
(* the middle of a call, a process of the host exiting on its own, Envoy   *)
(* failing to start.                                                       *)
(***************************************************************************)
EXTENDS Integers, FiniteSets

CONSTANTS
    Cmds,        \* slots for CLI commands that run at the same time
    Manifests,   \* the manifests create is called with
    Pids,        \* the process ids of the host
    Broadcast,   \* the last address of the subnet
    Nil,         \* no process, no entry, no fragment, no configured server
    OnePerName,  \* whether a workload's commands are run one after another, and
                 \* a name is created again only after it has been deleted
    Cleanups,    \* whether cleanup is run, too
    MaxFaults    \* bound on the faults of a behaviour

Subnet   == 0 .. Broadcast
Hosts    == 1 .. Broadcast - 1
EnvoyIp  == 1                   \* 10.0.0.1
BridgeIp == Broadcast - 1       \* 10.0.0.254
NoIp     == -1                  \* the empty string of IpamStruct{}
Addrs    == Hosts \cup {NoIp}

\* A manifest: its type, the workload's name, whether its technology is
\* implemented (python, postgresql), whether it is load balanced, and then its
\* upstream and the server it configures (Nil: the address it is given).
Types == {"service", "db", "other"}

ASSUME BroadcastAssumption == Broadcast \in Nat /\ Broadcast >= 3
ASSUME MaxFaultsAssumption == MaxFaults \in Nat
ASSUME OnePerNameAssumption == OnePerName \in BOOLEAN
ASSUME CleanupsAssumption == Cleanups \in BOOLEAN
ASSUME NilAssumption == Nil \notin Pids /\ Nil \notin Addrs /\ Nil \notin Manifests
ASSUME ManifestAssumption ==
    \A m \in Manifests : /\ m.type \in Types
                         /\ m.supported \in BOOLEAN /\ m.lb \in BOOLEAN
                         /\ m.lb => m.type = "service"
                         /\ m.server \in Hosts \cup {Nil}

Upstreams == {m.upstream : m \in Manifests}
KeyOf(m)  == <<IF m.type = "service" THEN "service" ELSE "database", m.name>>
Keys      == {KeyOf(m) : m \in {n \in Manifests : n.type # "other"}}

ASSUME KeyAssumption == Nil \notin Keys

Routes  == SUBSET (Upstreams \X Addrs)
Entries == [pid : Pids \cup {Nil}, ip : Addrs, conf : Upstreams \cup {Nil}]
Procs   == [kind : {"none", "service", "db", "envoy"}, key : Keys \cup {Nil},
            addr : Addrs, routes : Routes]
NoProc  == [kind |-> "none", key |-> Nil, addr |-> NoIp, routes |-> {}]

ASSUME EntryAssumption == Nil \notin Entries

VARIABLES
    registry,   \* Redis: the entry under service:<name> or database:<name>
    ips,        \* Redis: the allocated addresses of the prefix
    redisUp,    \* whether Redis answers
    procs,      \* the host's processes that belong to the platform
    stopping,   \* those of them that are about to exit, and serve nobody
    frags,      \* /etc/envoy/conf.d: the server of every upstream
    rendered,   \* /run/envoy-paas.yaml
    pidfile,    \* /run/envoy-paas.pid
    cli,        \* the commands in progress
    faults      \* faults so far

disk == <<frags, rendered, pidfile>>
vars == <<registry, ips, redisUp, procs, stopping, disk, cli, faults>>

Steps == {"idle",
          "fragment", "read", "truncate", "render",       \* UpdateLbConfig
          "find", "spawn", "writepid", "join",            \* StartEnvoy
          "start", "link", "register",                    \* create
          "release", "kill", "stop", "rmpid", "rmfrag",   \* delete
          "unregister",
          "unlink"}                                       \* cleanup

Commands == [pc : Steps, m : Manifests \cup {Nil}, key : Keys \cup {Nil},
             ip : Addrs, pid : Pids \cup {Nil}, envoy : Pids \cup {Nil},
             entry : Entries \cup {Nil}, seen : Routes,
             links : SUBSET (Pids \X (Keys \cup {Nil}))]
Idle == [pc |-> "idle", m |-> Nil, key |-> Nil, ip |-> NoIp, pid |-> Nil,
         envoy |-> Nil, entry |-> Nil, seen |-> {}, links |-> {}]

\* The processes that SIGTERM ends.  It does not end a service, which is the first
\* process of its pid namespace and installs no handler.
Terminable == {p \in Pids : procs[p].kind \in {"envoy", "db"}}

TypeOK ==
    /\ registry \in [Keys -> Entries \cup {Nil}]
    /\ ips \in SUBSET Hosts
    /\ redisUp \in BOOLEAN
    /\ procs \in [Pids -> Procs]
    /\ stopping \in SUBSET Terminable
    /\ frags \in Routes /\ rendered \in Routes
    /\ pidfile \in Pids \cup {Nil}
    /\ cli \in [Cmds -> Commands]
    /\ faults \in 0 .. MaxFaults

Init ==
    /\ registry = [k \in Keys |-> Nil]
    /\ ips = {BridgeIp}
    /\ redisUp = TRUE
    /\ procs = [p \in Pids |-> NoProc]
    /\ stopping = {}
    /\ frags = {} /\ rendered = {} /\ pidfile = Nil
    /\ cli = [c \in Cmds |-> Idle]
    /\ faults = 0

-----------------------------------------------------------------------------
(* Helpers *)

At(c, step)   == cli[c].pc = step
Goto(c, step) == cli' = [cli EXCEPT ![c].pc = step]
Exit(c)       == cli' = [cli EXCEPT ![c] = Idle]
Fault         == faults < MaxFaults /\ faults' = faults + 1

Live(p) == procs[p].kind # "none"

\* Mutant of FreePids: the pid of a child that died is given out again.
UnusedPids == {p \in Pids : ~Live(p)}

\* A child that died is a zombie, its pid taken, until its command has ended.
Held(p) == \E c \in Cmds : p \in {cli[c].pid, cli[c].envoy}
FreePids == {p \in Pids : ~Live(p) /\ ~Held(p)}

\* A bound of the model: a command is started only when there is a pid for every
\* process that it and the commands in progress may start.
Claims == {c \in Cmds : \/ cli[c].m # Nil /\ cli[c].pid = Nil
                        \/ cli[c].entry # Nil /\ cli[c].envoy = Nil}
          \cup {<<c>> : c \in {x \in Cmds : cli[x].m # Nil /\ cli[x].m.lb
                                            /\ cli[x].envoy = Nil}}
Room(n) == Cardinality(FreePids) >= Cardinality(Claims) + n

\* SIGKILL ends any process at once.  A process that gets SIGTERM shuts down; no
\* command waits until it is gone.
Kill(p) == /\ procs' = [procs EXCEPT ![p] = NoProc]
           /\ stopping' = stopping \ {p}
Terminate(p) == /\ stopping' = stopping \cup ({p} \cap Terminable)
                /\ UNCHANGED procs

\* FindPidForEnvoy: the pid in the pid file, if there is a process with that pid.
FindPidForEnvoy == IF pidfile # Nil /\ (Live(pidfile) \/ Held(pidfile))
                   THEN pidfile ELSE Nil

\* Mutant of LowestFree: the network address is handed out too.
LowestFreeFromZero == {a \in Subnet \ ips : \A b \in Subnet \ ips : a <= b}

\* The address ipam.AcquireIP takes (a set of one, or empty).
LowestFree == {a \in Hosts \ ips : \A b \in Hosts \ ips : a <= b}

\* Another command is in progress: an update of the prefix by c may conflict with
\* its updates until the library's attempts are used up.
Contended(c) == \E d \in Cmds \ {c} : ~At(d, "idle")

\* Envoy exits at once on a configuration with an empty address in it.
Valid(config) == \A r \in config : r[2] # NoIp

\* No other command is about k.
Undisturbed(k) == \A c \in Cmds : cli[c].key # k

-----------------------------------------------------------------------------
(* create *)

\* Mutant of GetIp: the address is not marked as allocated.
GetIpUnrecorded(c, a) ==
    /\ a \in LowestFree
    /\ UNCHANGED <<ips, faults>>

\* GetIp yields a: the lowest free address; 10.0.0.1, from the empty in-memory
\* prefix, when Redis does not answer; or the empty address, when there is no free
\* one, when the update conflicts too often, or when Redis goes away between the
\* probe and the answer, before or after the update.
GetIp(c, a) ==
    \/ redisUp /\ a \in LowestFree /\ ips' = ips \cup {a} /\ UNCHANGED faults
    \/ ~redisUp /\ a = EnvoyIp /\ UNCHANGED <<ips, faults>>
    \/ /\ redisUp /\ (LowestFree = {} \/ Contended(c))
       /\ a = NoIp /\ UNCHANGED <<ips, faults>>
    \/ redisUp /\ Fault /\ a = NoIp /\ ips' \in {ips, ips \cup LowestFree}

\* runCreate reads the manifest and takes an address before it looks at the
\* type.  A technology that is not implemented goes straight to the registry.
RunCreate(c, m) ==
    /\ At(c, "idle") /\ Room(IF m.lb THEN 2 ELSE 1)
    /\ OnePerName /\ m.type # "other" =>
          registry[KeyOf(m)] = Nil /\ Undisturbed(KeyOf(m))
    /\ \E a \in Subnet \cup {NoIp} :
          /\ GetIp(c, a)
          /\ IF m.type = "other"
             THEN UNCHANGED cli
             ELSE cli' = [cli EXCEPT ![c] = [Idle EXCEPT
                            !.pc = IF ~m.supported THEN "register"
                                   ELSE IF m.lb THEN "fragment" ELSE "start",
                            !.m = m, !.key = KeyOf(m), !.ip = a]]
    /\ UNCHANGED <<registry, redisUp, procs, stopping, disk>>

\* UpdateLbConfig: write the service's fragment, with the address the service was
\* given unless the manifest lists a server ...
WriteFragment(c) ==
    /\ At(c, "fragment")
    /\ LET m == cli[c].m
           server == IF m.server = Nil THEN cli[c].ip ELSE m.server
       IN  frags' = {f \in frags : f[1] # m.upstream} \cup {<<m.upstream, server>>}
    /\ Goto(c, "read")
    /\ UNCHANGED <<registry, ips, redisUp, procs, stopping, rendered, pidfile, faults>>

\* Mutant of ReadFragments: only the service's own fragment is read.
ReadOwnFragment(c) ==
    /\ At(c, "read")
    /\ cli' = [cli EXCEPT ![c].pc = "truncate",
                          ![c].seen = {f \in frags : f[1] = cli[c].m.upstream}]
    /\ UNCHANGED <<registry, ips, redisUp, procs, stopping, disk, faults>>

\* ... read all fragments ...
ReadFragments(c) ==
    /\ At(c, "read")
    /\ cli' = [cli EXCEPT ![c].pc = "truncate", ![c].seen = frags]
    /\ UNCHANGED <<registry, ips, redisUp, procs, stopping, disk, faults>>

\* ... create (and truncate) the configuration file ...
CreateConfig(c) ==
    /\ At(c, "truncate")
    /\ rendered' = {}
    /\ Goto(c, "render")
    /\ UNCHANGED <<registry, ips, redisUp, procs, stopping, frags, pidfile, faults>>

\* ... render what was read into it, and go on to StartEnvoy.
RenderConfig(c) ==
    /\ At(c, "render")
    /\ rendered' = cli[c].seen
    /\ Goto(c, "find")
    /\ UNCHANGED <<registry, ips, redisUp, procs, stopping, frags, pidfile, faults>>

\* A child process with process id p in namespaces of its own.  If it cannot be
\* started the command ends (log.Fatalf): see Crash.
StartWorkload(c, p, next) ==
    /\ procs' = [procs EXCEPT ![p] =
                   [NoProc EXCEPT !.kind = cli[c].m.type, !.key = cli[c].key]]
    /\ cli' = [cli EXCEPT ![c].pid = p, ![c].pc = next]
    /\ UNCHANGED <<registry, ips, redisUp, stopping, disk, faults>>

\* execPythonService: only a load-balanced service is connected to the bridge.
\* (cg, whose errors are only logged, sets limits that nothing here depends on.)
ExecPythonService(c) ==
    /\ At(c, "start") /\ cli[c].m.type = "service"
    /\ \E p \in FreePids :
          StartWorkload(c, p, IF cli[c].m.lb THEN "link" ELSE "register")

\* execPostgreSQL: a database is always connected to the bridge.
ExecPostgreSQL(c) ==
    /\ At(c, "start") /\ cli[c].m.type = "db"
    /\ \E p \in FreePids : StartWorkload(c, p, "link")

\* ConnectToLb, ConnectToBridge: ConnectProcessToBridge with the address from
\* GetIp.  It fails, and is only logged, if the process is gone or the address
\* is empty.
ConnectWorkload(c) ==
    /\ At(c, "link")
    /\ procs' = IF Live(cli[c].pid)
                THEN [procs EXCEPT ![cli[c].pid].addr = cli[c].ip] ELSE procs
    /\ Goto(c, "register")
    /\ UNCHANGED <<registry, ips, redisUp, stopping, disk, faults>>

\* Mutant of Register: the entry names the gateway's process.
RegisterGateway(c) ==
    /\ At(c, "register")
    /\ registry' = [registry EXCEPT ![cli[c].key] =
                      [pid |-> cli[c].envoy, ip |-> cli[c].ip, conf |-> Nil]]
    /\ Exit(c)
    /\ UNCHANGED <<ips, redisUp, procs, stopping, disk, faults>>

\* rdb.Set: the entry is written over an older one; the error is not looked at.
\* pid is 0 (here Nil) when nothing was started.
Register(c) ==
    /\ At(c, "register")
    /\ registry' =
         IF redisUp
         THEN [registry EXCEPT ![cli[c].key] =
                 [pid |-> cli[c].pid, ip |-> cli[c].ip,
                  conf |-> IF cli[c].m.lb THEN cli[c].m.upstream ELSE Nil]]
         ELSE registry
    /\ Exit(c)
    /\ UNCHANGED <<ips, redisUp, procs, stopping, disk, faults>>

-----------------------------------------------------------------------------
(* StartEnvoy, called by create and by delete *)

\* Where the command goes on after StartEnvoy.
AfterEnvoy(c) == IF cli[c].entry = Nil THEN "start" ELSE "unregister"

\* Mutant of StopExisting: the running gateway is left alone.
StopExistingSkipped(c) ==
    /\ At(c, "find")
    /\ Goto(c, "spawn")
    /\ UNCHANGED <<registry, ips, redisUp, procs, stopping, disk, faults>>

\* "Stop existing PaaS envoy if any": SIGTERM.  (The wait of 100ms that follows
\* lets it exit, and does not make sure of it.)
StopExisting(c) ==
    /\ At(c, "find")
    /\ IF FindPidForEnvoy # Nil THEN Terminate(FindPidForEnvoy)
                                ELSE UNCHANGED <<procs, stopping>>
    /\ Goto(c, "spawn")
    /\ UNCHANGED <<registry, ips, redisUp, disk, faults>>

\* Start Envoy in a network namespace of its own, with the configuration that is
\* in the file now.  The command survives a failure, and does not notice it if
\* Envoy exits later.
SpawnEnvoy(c) ==
    /\ At(c, "spawn")
    /\ \/ \E p \in FreePids :
             /\ procs' = [procs EXCEPT ![p] =
                            [NoProc EXCEPT !.kind = "envoy",
                                           !.routes = IF Valid(rendered)
                                                      THEN rendered ELSE {}]]
             /\ stopping' = IF Valid(rendered) THEN stopping ELSE stopping \cup {p}
             /\ cli' = [cli EXCEPT ![c].envoy = p, ![c].pc = "writepid"]
             /\ UNCHANGED faults
       \/ /\ Fault
          /\ Goto(c, AfterEnvoy(c))
          /\ UNCHANGED <<procs, stopping>>
    /\ UNCHANGED <<registry, ips, redisUp, disk>>

WritePidFile(c) ==
    /\ At(c, "writepid")
    /\ pidfile' = cli[c].envoy
    /\ Goto(c, "join")
    /\ UNCHANGED <<registry, ips, redisUp, procs, stopping, frags, rendered, faults>>

\* Mutant of ConnectEnvoy: that the address is allocated already is taken for an error.
ConnectEnvoyOnce(c) ==
    /\ At(c, "join")
    /\ ips' = IF redisUp THEN ips \cup {EnvoyIp} ELSE ips
    /\ procs' = IF Live(cli[c].envoy) /\ EnvoyIp \notin ips
                THEN [procs EXCEPT ![cli[c].envoy].addr = EnvoyIp] ELSE procs
    /\ Goto(c, AfterEnvoy(c))
    /\ UNCHANGED <<registry, redisUp, stopping, disk, faults>>

\* GetOrAcquireEnvoyIp, then ConnectProcessToBridge.  Whether 10.0.0.1 could be
\* allocated makes no difference, except that StartEnvoy gives up if Redis goes
\* away between GetIpam's probe and its look at the prefix.
ConnectEnvoy(c) ==
    /\ At(c, "join")
    /\ \/ /\ \/ redisUp /\ ips' = ips \cup {EnvoyIp} /\ UNCHANGED faults
             \/ (~redisUp \/ Contended(c)) /\ UNCHANGED <<ips, faults>>
             \/ redisUp /\ Fault /\ UNCHANGED ips
          /\ procs' = IF Live(cli[c].envoy)
                      THEN [procs EXCEPT ![cli[c].envoy].addr = EnvoyIp] ELSE procs
       \/ redisUp /\ Fault /\ UNCHANGED <<ips, procs>>
    /\ Goto(c, AfterEnvoy(c))
    /\ UNCHANGED <<registry, redisUp, stopping, disk>>

-----------------------------------------------------------------------------
(* delete *)

\* deleteProcess reads the entry, and does nothing if there is none.
RunDelete(c, k) ==
    /\ At(c, "idle") /\ Room(1)
    /\ OnePerName => Undisturbed(k)
    /\ redisUp /\ registry[k] # Nil
    /\ cli' = [cli EXCEPT ![c] = [Idle EXCEPT !.pc = "release", !.key = k,
                                              !.entry = registry[k]]]
    /\ UNCHANGED <<registry, ips, redisUp, procs, stopping, disk, faults>>

\* Mutant of ReleaseIp: the address stays allocated.
ReleaseIpForgotten(c) ==
    /\ At(c, "release")
    /\ Goto(c, "kill")
    /\ UNCHANGED <<registry, ips, redisUp, procs, stopping, disk, faults>>

\* Mutant of ReleaseIp: an error ends the kill, too.
ReleaseIpOrSkip(c) ==
    /\ At(c, "release")
    /\ ips' = IF redisUp THEN ips \ {cli[c].entry.ip} ELSE ips
    /\ Goto(c, IF redisUp THEN "kill" ELSE "stop")
    /\ UNCHANGED <<registry, redisUp, procs, stopping, disk, faults>>

\* Mutant of ReleaseIp: wait for Redis.
ReleaseIpWaits(c) ==
    /\ At(c, "release")
    /\ redisUp
    /\ ips' = ips \ {cli[c].entry.ip}
    /\ Goto(c, "kill")
    /\ UNCHANGED <<registry, redisUp, procs, stopping, disk, faults>>

\* ReleaseIp: an error is only logged, be it that Redis is gone before or during
\* the call, that the address is not allocated, or that the update conflicts too
\* often.
ReleaseIp(c) ==
    /\ At(c, "release")
    /\ \/ redisUp /\ ips' = ips \ {cli[c].entry.ip} /\ UNCHANGED faults
       \/ (~redisUp \/ Contended(c)) /\ UNCHANGED <<ips, faults>>
       \/ redisUp /\ Fault /\ UNCHANGED ips
    /\ Goto(c, "kill")
    /\ UNCHANGED <<registry, redisUp, procs, stopping, disk>>

\* Mutant of KillWorkload: SIGTERM instead of SIGKILL.
KillWorkloadPolitely(c) ==
    /\ At(c, "kill")
    /\ Terminate(cli[c].entry.pid)
    /\ Goto(c, "stop")
    /\ UNCHANGED <<registry, ips, redisUp, disk, faults>>

\* SIGKILL to the recorded pid, whoever has it now.  Pid 0 is the process group
\* of the command itself.
KillWorkload(c) ==
    /\ At(c, "kill")
    /\ IF cli[c].entry.pid = Nil
       THEN Exit(c) /\ UNCHANGED <<procs, stopping>>
       ELSE Kill(cli[c].entry.pid) /\ Goto(c, "stop")
    /\ UNCHANGED <<registry, ips, redisUp, disk, faults>>

\* StopEnvoy: SIGTERM, without waiting ...
StopEnvoy(c) ==
    /\ At(c, "stop")
    /\ IF FindPidForEnvoy # Nil
       THEN Terminate(FindPidForEnvoy) /\ Goto(c, "rmpid")
       ELSE UNCHANGED <<procs, stopping>> /\ Goto(c, "rmfrag")
    /\ UNCHANGED <<registry, ips, redisUp, disk, faults>>

\* ... and remove the pid file, so that StartEnvoy does not wait either.
RemovePidFile(c) ==
    /\ At(c, "rmpid")
    /\ pidfile' = Nil
    /\ Goto(c, "rmfrag")
    /\ UNCHANGED <<registry, ips, redisUp, procs, stopping, frags, rendered, faults>>

\* Remove the recorded fragment and go on to StartEnvoy.
RemoveFragment(c) ==
    /\ At(c, "rmfrag")
    /\ frags' = {f \in frags : f[1] # cli[c].entry.conf}
    /\ Goto(c, "find")
    /\ UNCHANGED <<registry, ips, redisUp, procs, stopping, rendered, pidfile, faults>>

\* Mutant of Unregister: the entry stays.
UnregisterForgotten(c) ==
    /\ At(c, "unregister")
    /\ Exit(c)
    /\ UNCHANGED <<registry, ips, redisUp, procs, stopping, disk, faults>>

\* rdb.Del: an error is only logged.
Unregister(c) ==
    /\ At(c, "unregister")
    /\ registry' = IF redisUp THEN [registry EXCEPT ![cli[c].key] = Nil]
                              ELSE registry
    /\ Exit(c)
    /\ UNCHANGED <<ips, redisUp, procs, stopping, disk, faults>>

-----------------------------------------------------------------------------
(* cleanup *)

\* runCleanup lists the host's interfaces whose name starts with v- ...
RunCleanup(c) ==
    /\ At(c, "idle") /\ Cleanups
    /\ LET links == {<<p, procs[p].key>> : p \in {q \in Pids : procs[q].addr # NoIp}}
       IN  /\ links # {}
           /\ cli' = [cli EXCEPT ![c].pc = "unlink", ![c].links = links]
    /\ UNCHANGED <<registry, ips, redisUp, procs, stopping, disk, faults>>

\* ... and deletes one after the other; the inner end goes with the outer one.
Unlink(c) ==
    /\ At(c, "unlink")
    /\ \E l \in cli[c].links :
          /\ procs' = IF procs[l[1]].key = l[2]
                      THEN [procs EXCEPT ![l[1]].addr = NoIp] ELSE procs
          /\ IF cli[c].links = {l}
             THEN Exit(c)
             ELSE cli' = [cli EXCEPT ![c].links = @ \ {l}]
    /\ UNCHANGED <<registry, ips, redisUp, stopping, disk, faults>>

-----------------------------------------------------------------------------
(* Exits and faults *)

\* The command is killed, or ends with log.Fatalf or panic, between two steps.
Crash(c) ==
    /\ ~At(c, "idle")
    /\ Fault
    /\ Exit(c)
    /\ UNCHANGED <<registry, ips, redisUp, procs, stopping, disk>>

\* A process that is shutting down, or an Envoy that was started on a
\* configuration it refuses, is gone at some time.
Stops(p) ==
    /\ p \in stopping
    /\ Kill(p)
    /\ UNCHANGED <<registry, ips, redisUp, disk, cli, faults>>

ProcessExits(p) ==
    /\ Live(p)
    /\ Fault
    /\ Kill(p)
    /\ UNCHANGED <<registry, ips, redisUp, disk, cli>>

RedisDown ==
    /\ redisUp
    /\ Fault
    /\ redisUp' = FALSE
    /\ UNCHANGED <<registry, ips, procs, stopping, disk, cli>>

RedisBack ==
    /\ ~redisUp
    /\ redisUp' = TRUE
    /\ UNCHANGED <<registry, ips, procs, stopping, disk, cli, faults>>

-----------------------------------------------------------------------------
Step(c) ==
    \/ WriteFragment(c) \/ ReadFragments(c) \/ CreateConfig(c) \/ RenderConfig(c)
    \/ StopExisting(c) \/ SpawnEnvoy(c) \/ WritePidFile(c) \/ ConnectEnvoy(c)
    \/ ExecPythonService(c) \/ ExecPostgreSQL(c) \/ ConnectWorkload(c) \/ Register(c)
    \/ ReleaseIp(c) \/ KillWorkload(c) \/ StopEnvoy(c) \/ RemovePidFile(c)
    \/ RemoveFragment(c) \/ Unregister(c)
    \/ Unlink(c)

Next ==
    \/ \E c \in Cmds :
          \/ \E m \in Manifests : RunCreate(c, m)
          \/ \E k \in Keys : RunDelete(c, k)
          \/ RunCleanup(c)
          \/ Step(c)
          \/ Crash(c)
    \/ \E p \in Pids : Stops(p) \/ ProcessExits(p)
    \/ RedisDown \/ RedisBack

\* A command that has been started is scheduled and none of its steps blocks:
\* calls to Redis time out and everything else is a system call.
Fairness == \A c \in Cmds : WF_vars(Step(c))

Spec == Init /\ [][Next]_vars /\ Fairness

-----------------------------------------------------------------------------
(* Properties *)

Workloads == {p \in Pids : procs[p].kind \in {"service", "db"}}
Gateways  == {p \in Pids : procs[p].kind = "envoy"}
Serving   == Gateways \ stopping
Quiet     == \A c \in Cmds : At(c, "idle")
Entered   == {k \in Keys : registry[k] # Nil}

\* No two running workloads have the same address on the bridge: README.md:14,
\* "persistent, conflict-free IP assignment across CLI invocations".  This is
\* about the interfaces of processes, not about what the address pool says.
WorkloadAddressesDistinct ==
    \A p, q \in Workloads :
        p # q /\ procs[p].addr = procs[q].addr => procs[p].addr = NoIp

\* Where that can fail: delete gives an address back before it kills the workload
\* (delete.go:33 and 40), and a create in between is given it.  In no other way do
\* two workloads ever share one, however commands interleave: README.md:14,
\* "conflict-free".
SharedOnlyBeforeKill ==
    \A p, q \in Workloads :
        p # q /\ procs[p].addr = procs[q].addr /\ procs[p].addr # NoIp =>
            \E c \in Cmds : At(c, "kill") /\ cli[c].entry.pid \in {p, q}

\* When no command is running, the pool has allocated exactly the addresses that
\* are recorded, besides the bridge's and the gateway's own: none leaks, and no
\* recorded one can be given away again, as long as commands are run one at a time
\* (see LostOnlyToConflict).
AddressesAccounted ==
    LET recorded == {registry[k].ip : k \in Entered} \ {NoIp}
    IN  Quiet => /\ recorded \subseteq ips
                 /\ ips \subseteq recorded \cup {BridgeIp, EnvoyIp}

\* README.md:103, "Active workloads are recorded in Redis": unless a command is
\* still at work on it, a running workload is the one its entry names, so that
\* delete can end it.
WorkloadsTracked ==
    \A p \in Workloads :
        LET k == procs[p].key
        IN  Undisturbed(k) => registry[k] # Nil /\ registry[k].pid = p

\* The converse: an entry names a running process of that workload, and none of
\* the signals sent to the gateway or to other workloads has hit it.
RecordsLive ==
    \A k \in Entered :
        Undisturbed(k) => /\ registry[k].pid # Nil
                          /\ Live(registry[k].pid)
                          /\ registry[k].pid \notin stopping
                          /\ procs[registry[k].pid].key = k

\* StartEnvoy: "Stop existing PaaS envoy if any".  Every gateway but one has been
\* told to stop, although nobody waits for the old one to exit; and between
\* commands the pid file names that one, so that the next command finds it.
GatewaySingle ==
    /\ \A p, q \in Serving : p = q
    /\ Quiet => \A p \in Serving : pidfile = p

\* README.md:98: the gateway is configured from all fragments.  Between commands
\* and unless a service without an address has made the configuration invalid,
\* there is a gateway with a route to every load-balanced workload at the address
\* that is recorded for it, whatever has been replaced, exited or exhausted before.
WorkloadsRouted ==
    Quiet /\ Valid(rendered) =>
        \A k \in Entered :
            registry[k].conf # Nil =>
                \E p \in Serving :
                    <<registry[k].conf, registry[k].ip>> \in procs[p].routes

\* README.md:95, Envoy "dynamically updates whenever services are created or
\* removed", and delete.go:58, "Restart Envoy to apply the changes": between
\* commands the gateway's routes are those of recorded workloads.
RoutesCurrent ==
    Quiet => \A p \in Serving : \A r \in procs[p].routes :
                \E k \in Entered : registry[k].conf = r[1]

\* An entry is removed only when its process is gone, wherever earlier attempts
\* were cut off and whether or not Redis answered in between: as long as the
\* workload runs, delete can be repeated.
DeleteNeverOrphans ==
    [][\A k \in Entered :
          LET p == registry[k].pid
          IN  registry'[k] = Nil /\ p # Nil => procs[p].key # k]_vars

\* delete.go:66, "5. Delete from Redis": a delete that has been started removes
\* the workload's entry, unless a fault keeps it from doing so.
DeleteCompletes ==
    \A k \in Keys :
        (\E c \in Cmds : At(c, "release") /\ cli[c].key = k)
            ~> registry[k] = Nil \/ faults > 0

\* Every command comes to an end, with Redis or Envoy failing in the middle of it.
CommandsEnd == \A c \in Cmds : ~At(c, "idle") ~> At(c, "idle")

\* The address a workload has: from its create's GetIp until its delete's
\* ReleaseIp, first in the command and then in the entry.
AddressOf ==
    [k \in Keys |->
        IF \E c \in Cmds : cli[c].key = k /\ cli[c].m # Nil
        THEN cli[CHOOSE c \in Cmds : cli[c].key = k /\ cli[c].m # Nil].ip
        ELSE IF registry[k] = Nil
                \/ \E c \in Cmds : cli[c].key = k /\ ~At(c, "release")
        THEN NoIp
        ELSE registry[k].ip]

Lease == INSTANCE AddressLease WITH Holders <- Keys, lease <- AddressOf

\* However commands for different workloads interleave, addresses behave as in
\* AddressLease: create obtains one nobody has, it stays the workload's own while
\* it moves from the command to the entry, and delete gives it back once.
WorkloadLeases == Lease!Spec

\* An address that a workload has is allocated, so that no other command is given
\* it, at every step of any number of commands.
LeasesAllocated == \A k \in Keys : AddressOf[k] \in ips \cup {NoIp}

\* The allocated addresses that belong to nobody.
Lost == ips \ ({AddressOf[k] : k \in Keys} \cup {BridgeIp, EnvoyIp})

\* Where an address is lost to the pool for good: in a delete that gives up the
\* release because of the conflicts with another command (delete.go:33-35).  On no
\* other way from the pool through commands and entries does one get lost.
LostOnlyToConflict ==
    [][\A a \in Lost' \ Lost :
          \E c \in Cmds : /\ At(c, "release") /\ cli[c].entry.ip = a
                          /\ Contended(c) /\ At(c, "kill")']_vars

\* The command that started process p is about to connect it, with an address.
BeingConnected(p) ==
    \E c \in Cmds : \/ cli[c].pid = p /\ At(c, "link") /\ cli[c].ip # NoIp
                    \/ cli[c].envoy = p /\ cli[c].pc \in {"writepid", "join"}

\* How far every process has got with its connection to the bridge.
ConnectionOf ==
    [p \in Pids |-> IF ~Live(p) THEN "none"
                    ELSE IF procs[p].addr # NoIp THEN "connected"
                    ELSE IF BeingConnected(p) THEN "connecting" ELSE "isolated"]

Net == INSTANCE Connection WITH
           Processes <- Pids, status <- ConnectionOf, disturbed <- faults > 0,
           cleaning <- \E c \in Cmds : At(c, "unlink")

\* Whatever commands run at the same time, and wherever one of them is cut off,
\* processes are connected as in Connection: each by its own command, and none
\* loses its connection, or gets one late, through what happens to others.
ProcessesConnected == Net!Spec
=============================================================================
