------------------------------ MODULE Database ------------------------------
(***************************************************************************)
(* How a database gets its server: execPostgreSQL of parser/db.go on a     *)
(* data directory that outlives the workload, with databases that are      *)
(* created again after a delete, or while they run, and with commands,     *)
(* initdb and servers cut off anywhere.                                    *)
(*                                                                         *)
(* PostgreSQL is not part of the repository.  Of initdb the model has that *)
(* it refuses a directory with anything in it, the order in which it makes *)
(* the files that the code looks at, that it removes what it has made when *)
(* it fails, and that it outlives the command; of the server, its lock     *)
(* file, the processes that survive its SIGKILL for a while, and that it   *)
(* reads pg_hba.conf when it starts.                                       *)
(***************************************************************************)
EXTENDS Naturals

CONSTANTS
    Cmds,      \* slots for create commands that run at the same time
    Dbs,       \* names of databases; every name has a data directory of its own
    Pids,      \* process ids of servers
    Orphan,    \* stands for a command that has died
    Nil,       \* nobody
    Overlaps,  \* whether a database is created while another create of the same name,
               \* its initdb or its server is still on its way
    MaxFaults  \* bound on commands, initdbs and starting servers cut off

ASSUME NilAssumption == /\ Nil \notin Cmds /\ Nil \notin Dbs /\ Nil \notin Pids
                        /\ Orphan \notin Cmds /\ Nil # Orphan
ASSUME OverlapsAssumption == Overlaps \in BOOLEAN
ASSUME MaxFaultsAssumption == MaxFaults \in Nat

VARIABLES
    data,      \* how complete the data directory of each database is
    rule,      \* whether its pg_hba.conf has the line for remote connections
    lock,      \* the pid in its postmaster.pid
    lingering, \* the databases with backends of a killed server
    initdb,    \* the command whose initdb is at work on it
    servers,   \* the running servers
    cli,       \* the creates in progress
    faults     \* processes cut off so far

vars == <<data, rule, lock, lingering, initdb, servers, cli, faults>>

\* "dirs": some subdirectories; "version": PG_VERSION, too; "config": pg_hba.conf,
\* too; "ready": complete.
Stages == {"empty", "dirs", "version", "config", "ready"}
Steps  == {"idle", "stat", "wait", "hba", "start", "ns", "cg"}

NoServer == [db |-> Nil, st |-> "none", rule |-> FALSE]
Servers  == [db : Dbs, st : {"starting", "serving"}, rule : BOOLEAN] \cup {NoServer}
Commands == [pc : Steps, db : Dbs \cup {Nil}, pid : Pids \cup {Nil}]
Idle     == [pc |-> "idle", db |-> Nil, pid |-> Nil]

TypeOK ==
    /\ data \in [Dbs -> Stages]
    /\ rule \in [Dbs -> BOOLEAN]
    /\ lock \in [Dbs -> Pids \cup {Nil}]
    /\ lingering \in SUBSET Dbs
    /\ initdb \in [Dbs -> Cmds \cup {Orphan, Nil}]
    /\ servers \in [Pids -> Servers]
    /\ cli \in [Cmds -> Commands]
    /\ faults \in 0 .. MaxFaults
    /\ \A d \in Dbs : /\ rule[d] => data[d] \in {"config", "ready"}
                      /\ initdb[d] # Nil => data[d] \in {"dirs", "version", "config"}
    /\ \A c \in Cmds : /\ cli[c].db = Nil <=> cli[c].pc = "idle"
                       /\ cli[c].pid # Nil <=> cli[c].pc \in {"ns", "cg"}

Init ==
    /\ data = [d \in Dbs |-> "empty"]
    /\ rule = [d \in Dbs |-> FALSE]
    /\ lock = [d \in Dbs |-> Nil]
    /\ lingering = {}
    /\ initdb = [d \in Dbs |-> Nil]
    /\ servers = [p \in Pids |-> NoServer]
    /\ cli = [c \in Cmds |-> Idle]
    /\ faults = 0

-----------------------------------------------------------------------------
At(c, step)   == cli[c].pc = step
Goto(c, step) == cli' = [cli EXCEPT ![c].pc = step]
Exit(c)       == cli' = [cli EXCEPT ![c] = Idle]
Fault         == faults < MaxFaults /\ faults' = faults + 1

Running(p)    == servers[p] # NoServer
Serving(p, d) == servers[p].db = d /\ servers[p].st = "serving"

\* A server that has exited keeps its pid until its create ends: nobody waits for it.
Alive(p) == Running(p) \/ \E c \in Cmds : cli[c].pid = p

-----------------------------------------------------------------------------
(* execPostgreSQL *)

Busy(d) == \/ initdb[d] # Nil \/ \E o \in Cmds : cli[o].db = d
           \/ \E p \in Pids : servers[p].db = d /\ servers[p].st = "starting"

\* The user runs create for a name that may have been in use, or be so still.
Begin(c, d) ==
    /\ At(c, "idle")
    /\ Overlaps \/ ~Busy(d)
    /\ \E p \in Pids : ~Alive(p)
    /\ cli' = [cli EXCEPT ![c] = [pc |-> "stat", db |-> d, pid |-> Nil]]
    /\ UNCHANGED <<data, rule, lock, lingering, initdb, servers, faults>>

\* Mutant of RunInitdb: an old directory is emptied and initialised again.
RunInitdbAfresh(c) ==
    /\ At(c, "stat")
    /\ data' = [data EXCEPT ![cli[c].db] = "dirs"]
    /\ rule' = [rule EXCEPT ![cli[c].db] = FALSE]
    /\ initdb' = [initdb EXCEPT ![cli[c].db] = c]
    /\ Goto(c, "wait")
    /\ UNCHANGED <<lock, lingering, servers, faults>>

\* Mutant of RunInitdb: nobody waits for initdb.
RunInitdbInBackground(c) ==
    /\ At(c, "stat")
    /\ IF data[cli[c].db] = "empty"
       THEN /\ data' = [data EXCEPT ![cli[c].db] = "dirs"]
            /\ initdb' = [initdb EXCEPT ![cli[c].db] = c]
       ELSE UNCHANGED <<data, initdb>>
    /\ Goto(c, "hba")
    /\ UNCHANGED <<rule, lock, lingering, servers, faults>>

\* "Initialize data directory with initdb if it doesn't exist yet": if there is no
\* PG_VERSION.  initdb refuses a directory that is not empty; its error is logged.
RunInitdb(c) ==
    /\ At(c, "stat")
    /\ IF data[cli[c].db] = "empty"
       THEN /\ data' = [data EXCEPT ![cli[c].db] = "dirs"]
            /\ initdb' = [initdb EXCEPT ![cli[c].db] = c]
            /\ Goto(c, "wait")
       ELSE UNCHANGED <<data, initdb>> /\ Goto(c, "hba")
    /\ UNCHANGED <<rule, lock, lingering, servers, faults>>

\* CombinedOutput returns when initdb has ended, in whatever way.
InitdbReturns(c) ==
    /\ At(c, "wait") /\ initdb[cli[c].db] # c
    /\ Goto(c, "hba")
    /\ UNCHANGED <<data, rule, lock, lingering, initdb, servers, faults>>

\* Mutant of AddRule: pg_hba.conf is left as it is.
AddNoRule(c) ==
    /\ At(c, "hba")
    /\ Goto(c, "start")
    /\ UNCHANGED <<data, rule, lock, lingering, initdb, servers, faults>>

\* Mutant of AddRule: a missing file is created.
AddRuleCreating(c) ==
    /\ At(c, "hba")
    /\ rule' = [rule EXCEPT ![cli[c].db] = TRUE]
    /\ Goto(c, "start")
    /\ UNCHANGED <<data, lock, lingering, initdb, servers, faults>>

\* The line is appended, if it is not there; nothing is done about a missing file.
AddRule(c) ==
    /\ At(c, "hba")
    /\ rule' = IF data[cli[c].db] \in {"config", "ready"}
               THEN [rule EXCEPT ![cli[c].db] = TRUE] ELSE rule
    /\ Goto(c, "start")
    /\ UNCHANGED <<data, lock, lingering, initdb, servers, faults>>

\* Mutant of StartServer: the lock file of an earlier server is removed.
StartServerUnlocked(c) ==
    /\ At(c, "start")
    /\ lock' = [lock EXCEPT ![cli[c].db] = Nil]
    /\ \E p \in Pids :
          /\ ~Alive(p)
          /\ servers' = [servers EXCEPT ![p] =
                           [db |-> cli[c].db, st |-> "starting", rule |-> FALSE]]
          /\ cli' = [cli EXCEPT ![c] = [pc |-> "ns", db |-> cli[c].db, pid |-> p]]
    /\ UNCHANGED <<data, rule, lingering, initdb, faults>>

\* The server is started whatever has become of initdb.
StartServer(c) ==
    /\ At(c, "start")
    /\ \E p \in Pids :
          /\ ~Alive(p)
          /\ servers' = [servers EXCEPT ![p] =
                           [db |-> cli[c].db, st |-> "starting", rule |-> FALSE]]
          /\ cli' = [cli EXCEPT ![c] = [pc |-> "ns", db |-> cli[c].db, pid |-> p]]
    /\ UNCHANGED <<data, rule, lock, lingering, initdb, faults>>

\* The network namespace of a process that has exited is not found: log.Fatalf.
WaitForNs(c) ==
    /\ At(c, "ns")
    /\ IF Running(cli[c].pid) THEN Goto(c, "cg") ELSE Exit(c)
    /\ UNCHANGED <<data, rule, lock, lingering, initdb, servers, faults>>

\* cg: the server joins its cgroup, or log.Fatalf.  ConnectToBridge and the entry in
\* the registry follow.
JoinCgroup(c) ==
    /\ At(c, "cg")
    /\ Exit(c)
    /\ UNCHANGED <<data, rule, lock, lingering, initdb, servers, faults>>

-----------------------------------------------------------------------------
(* initdb *)

After(stage) == [dirs |-> "version", version |-> "config", config |-> "ready"][stage]

InitdbStep(d) ==
    /\ initdb[d] # Nil
    /\ data' = [data EXCEPT ![d] = After(@)]
    /\ initdb' = [initdb EXCEPT ![d] = IF data[d] = "config" THEN Nil ELSE @]
    /\ UNCHANGED <<rule, lock, lingering, servers, cli, faults>>

\* An error or a signal: what has been made is removed.
InitdbFails(d) ==
    /\ initdb[d] # Nil /\ Fault
    /\ data' = [data EXCEPT ![d] = "empty"]
    /\ rule' = [rule EXCEPT ![d] = FALSE]
    /\ initdb' = [initdb EXCEPT ![d] = Nil]
    /\ UNCHANGED <<lock, lingering, servers, cli>>

\* SIGKILL, or the host goes down: what has been made stays.
InitdbKilled(d) ==
    /\ initdb[d] # Nil /\ Fault
    /\ initdb' = [initdb EXCEPT ![d] = Nil]
    /\ UNCHANGED <<data, rule, lock, lingering, servers, cli>>

-----------------------------------------------------------------------------
(* The server *)

\* postmaster.pid names a live process other than p, or backends of a killed server
\* are still attached to its shared memory.
InUse(d, p) == \/ \E q \in Pids \ {p} : lock[d] = q /\ Alive(q)
               \/ d \in lingering

\* The server takes the lock and reads pg_hba.conf, or exits.
ServerUp(p) ==
    /\ servers[p].st = "starting"
    /\ LET d == servers[p].db
       IN  IF data[d] = "ready" /\ ~InUse(d, p)
           THEN /\ lock' = [lock EXCEPT ![d] = p]
                /\ servers' = [servers EXCEPT ![p] = [db |-> d, st |-> "serving", rule |-> rule[d]]]
           ELSE /\ servers' = [servers EXCEPT ![p] = NoServer]
                /\ UNCHANGED lock
    /\ UNCHANGED <<data, rule, lingering, initdb, cli, faults>>

\* delete sends SIGKILL: the lock file stays, and perhaps some backends.
ServerKilled(p) ==
    /\ servers[p].st = "serving"
    /\ servers' = [servers EXCEPT ![p] = NoServer]
    /\ lingering' \in {lingering, lingering \cup {servers[p].db}}
    /\ UNCHANGED <<data, rule, lock, initdb, cli, faults>>

\* A server that does not get as far as that.
StartCutOff(p) ==
    /\ servers[p].st = "starting" /\ Fault
    /\ servers' = [servers EXCEPT ![p] = NoServer]
    /\ UNCHANGED <<data, rule, lock, lingering, initdb, cli>>

\* SIGTERM, or the host is shut down: an orderly end.
ServerStops(p) ==
    /\ servers[p].st = "serving"
    /\ servers' = [servers EXCEPT ![p] = NoServer]
    /\ lock' = [lock EXCEPT ![servers[p].db] = Nil]
    /\ UNCHANGED <<data, rule, lingering, initdb, cli, faults>>

BackendsEnd(d) ==
    /\ d \in lingering
    /\ lingering' = lingering \ {d}
    /\ UNCHANGED <<data, rule, lock, initdb, servers, cli, faults>>

\* The command dies; its initdb and its server go on.
Crash(c) ==
    /\ ~At(c, "idle") /\ Fault
    /\ Exit(c)
    /\ initdb' = [d \in Dbs |-> IF initdb[d] = c THEN Orphan ELSE initdb[d]]
    /\ UNCHANGED <<data, rule, lock, lingering, servers>>

-----------------------------------------------------------------------------
Step(c) == \/ RunInitdb(c) \/ InitdbReturns(c) \/ AddRule(c) \/ StartServer(c)
           \/ WaitForNs(c) \/ JoinCgroup(c)

Next ==
    \/ \E c \in Cmds : \/ \E d \in Dbs : Begin(c, d)
                       \/ Step(c)
                       \/ Crash(c)
    \/ \E d \in Dbs : InitdbStep(d) \/ InitdbFails(d) \/ InitdbKilled(d) \/ BackendsEnd(d)
    \/ \E p \in Pids : ServerUp(p) \/ ServerKilled(p) \/ StartCutOff(p) \/ ServerStops(p)

\* Commands, initdb and starting servers go on; nobody has to create or to delete.
Fairness == /\ \A c \in Cmds : WF_vars(Step(c))
            /\ \A d \in Dbs : WF_vars(InitdbStep(d)) /\ WF_vars(BackendsEnd(d))
            /\ \A p \in Pids : WF_vars(ServerUp(p))

Spec == Init /\ [][Next]_vars /\ Fairness

-----------------------------------------------------------------------------
(* Properties *)

\* db.go:82, "if it doesn't exist yet": a complete data directory is never emptied or
\* initialised again, however often the database is created and wherever a create
\* or an initdb was cut off before.
DataKept == [][\A d \in Dbs : data[d] = "ready" => data'[d] = "ready"]_vars

\* Creating a database that runs already, or twice at a time, never has two servers
\* write to one data directory: delete leaves the lock file behind with a pid that
\* others may have by then, and create leaves it where it is.
OneServer == \A d \in Dbs, p, q \in Pids : Serving(p, d) /\ Serving(q, d) => p = q

\* Who serves a database.
ServerOf(d) == IF \E p \in Pids : Serving(p, d) THEN CHOOSE p \in Pids : Serving(p, d) ELSE Nil

Dir == INSTANCE DataDirectory WITH
           Databases <- Dbs, Processes <- Pids, Nobody <- Nil,
           complete <- [d \in Dbs |-> data[d] = "ready"], server <- [d \in Dbs |-> ServerOf(d)]

\* initdb and the server of a database, which neither wait for each other nor know of
\* other creates, keep to DataDirectory: no server gets at a directory before it is
\* complete, a second one never gets at it, and initdb never works on one in use.
DirectoriesKept == Dir!Spec

\* db.go:105, "Ensure pg_hba.conf allows connections from the bridge subnet": every
\* server that serves has read the line, whichever create has made the directory,
\* and wherever that was cut off.
RemoteAccess == \A p \in Pids, d \in Dbs : Serving(p, d) => servers[p].rule

\* A database that is created on whatever directory earlier ones have left gets a
\* server, unless something is cut off, backends of the last server have not ended,
\* or its lock file has a pid that belongs to another process by now.
CreateServes ==
    \A d \in Dbs, c \in Cmds :
        At(c, "stat") /\ cli[c].db = d ~>
            \/ \E p \in Pids : Serving(p, d)
            \/ faults > 0 \/ d \in lingering \/ \E q \in Pids : lock[d] = q /\ Alive(q)
=============================================================================
