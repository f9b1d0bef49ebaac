--------------------------- MODULE DatabaseProofs ---------------------------
(***************************************************************************)
(* Theorems about Database, for any number of databases, commands, process *)
(* ids and faults.                                                         *)
(***************************************************************************)
EXTENDS Database, TLAPS

-----------------------------------------------------------------------------
(* How a command moves on *)

\* Goto changes the pc of one command.
LEMMA GotoMoves ==
    ASSUME cli \in [Cmds -> Commands], NEW c \in Cmds, NEW s \in Steps, Goto(c, s)
    PROVE  /\ cli' \in [Cmds -> Commands]
           /\ cli'[c].pc = s /\ cli'[c].db = cli[c].db /\ cli'[c].pid = cli[c].pid
           /\ \A o \in Cmds : o # c => cli'[o] = cli[o]
<1> DEFINE r == [cli[c] EXCEPT !.pc = s]
<1>1. cli' = [cli EXCEPT ![c] = r]
    BY DEF Goto
<1>2. r \in Commands /\ r.pc = s /\ r.db = cli[c].db /\ r.pid = cli[c].pid
    BY DEF Commands
<1> HIDE DEF r
<1> QED
    BY <1>1, <1>2

\* Exit frees the slot of one command.
LEMMA ExitMoves ==
    ASSUME cli \in [Cmds -> Commands], NEW c \in Cmds, Exit(c)
    PROVE  /\ cli' \in [Cmds -> Commands]
           /\ cli'[c].pc = "idle" /\ cli'[c].db = Nil /\ cli'[c].pid = Nil
           /\ \A o \in Cmds : o # c => cli'[o] = cli[o]
<1>1. Idle \in Commands /\ Idle.pc = "idle" /\ Idle.db = Nil /\ Idle.pid = Nil
    BY DEF Idle, Commands, Steps
<1>2. cli' = [cli EXCEPT ![c] = Idle]
    BY DEF Exit
<1> HIDE DEF Idle
<1> QED
    BY <1>1, <1>2

\* A command about a database gets or keeps it, at another step.
LEMMA SetMoves ==
    ASSUME cli \in [Cmds -> Commands], NEW c \in Cmds, NEW s \in Steps,
           NEW d \in Dbs, NEW p \in Pids \cup {Nil},
           cli' = [cli EXCEPT ![c] = [pc |-> s, db |-> d, pid |-> p]]
    PROVE  /\ cli' \in [Cmds -> Commands]
           /\ cli'[c].pc = s /\ cli'[c].db = d /\ cli'[c].pid = p
           /\ \A o \in Cmds : o # c => cli'[o] = cli[o]
<1> DEFINE r == [pc |-> s, db |-> d, pid |-> p]
<1>1. r \in Commands /\ r.pc = s /\ r.db = d /\ r.pid = p
    BY DEF Commands
<1>2. cli' = [cli EXCEPT ![c] = r]
    OBVIOUS
<1> HIDE DEF r
<1> QED
    BY <1>1, <1>2

-----------------------------------------------------------------------------
(* Types *)

\* The types alone, without the conditions that tie them together.
Typed ==
    /\ data \in [Dbs -> Stages]
    /\ rule \in [Dbs -> BOOLEAN]
    /\ lock \in [Dbs -> Pids \cup {Nil}]
    /\ lingering \in SUBSET Dbs
    /\ initdb \in [Dbs -> Cmds \cup {Orphan, Nil}]
    /\ servers \in [Pids -> Servers]
    /\ cli \in [Cmds -> Commands]
    /\ faults \in 0 .. MaxFaults
DirsFit == \A d \in Dbs : /\ rule[d] => data[d] \in {"config", "ready"}
                          /\ initdb[d] # Nil => data[d] \in {"dirs", "version", "config"}
CmdsFit == \A c \in Cmds : /\ cli[c].db = Nil <=> cli[c].pc = "idle"
                           /\ cli[c].pid # Nil <=> cli[c].pc \in {"ns", "cg"}

\* TypeOK in three parts.
LEMMA TypeOKParts == TypeOK <=> Typed /\ DirsFit /\ CmdsFit
BY DEF TypeOK, Typed, DirsFit, CmdsFit

\* The initial state is well-typed.
LEMMA InitTyped == Init => TypeOK
<1> SUFFICES ASSUME Init PROVE Typed /\ DirsFit /\ CmdsFit
    BY TypeOKParts
<1>1. Idle \in Commands /\ Idle.pc = "idle" /\ Idle.db = Nil /\ Idle.pid = Nil
    BY DEF Idle, Commands, Steps
<1>2. NoServer \in Servers
    BY DEF Servers
<1>3. /\ cli \in [Cmds -> Commands] /\ servers \in [Pids -> Servers]
      /\ \A c \in Cmds : cli[c].pc = "idle" /\ cli[c].db = Nil /\ cli[c].pid = Nil
    <2> HIDE DEF Idle, NoServer
    <2> QED
        BY <1>1, <1>2 DEF Init
<1>4. Typed
    BY <1>3, MaxFaultsAssumption DEF Init, Typed, Stages
<1>5. DirsFit
    BY DEF Init, DirsFit
<1>6. CmdsFit
    BY <1>3 DEF CmdsFit
<1> QED
    BY <1>4, <1>5, <1>6

\* Every step keeps the state well-typed.
LEMMA NextTyped == TypeOK /\ [Next]_vars => TypeOK'
<1> SUFFICES ASSUME Typed, DirsFit, CmdsFit, [Next]_vars
             PROVE  Typed' /\ DirsFit' /\ CmdsFit'
    BY TypeOKParts, PTL
<1> DEFINE Goal == Typed' /\ DirsFit' /\ CmdsFit'
<1> USE DEF Typed
<1>0. \A c \in Cmds : cli[c].pc # "idle" => cli[c].db \in Dbs
    BY DEF CmdsFit, Commands
<1>1. ASSUME NEW c \in Cmds, NEW d \in Dbs, Begin(c, d) PROVE Goal
    <2>1. cli' = [cli EXCEPT ![c] = [pc |-> "stat", db |-> d, pid |-> Nil]]
        BY <1>1 DEF Begin
    <2>2. cli' \in [Cmds -> Commands] /\ CmdsFit'
        <3>1. /\ cli' \in [Cmds -> Commands]
              /\ cli'[c].pc = "stat" /\ cli'[c].db = d /\ cli'[c].pid = Nil
              /\ \A o \in Cmds : o # c => cli'[o] = cli[o]
            BY <2>1, SetMoves, "stat" \in Steps DEF Steps
        <3> QED
            BY <3>1, NilAssumption DEF CmdsFit
    <2> QED
        BY <1>1, <2>2 DEF Begin, DirsFit
<1>2. ASSUME NEW c \in Cmds, RunInitdb(c) PROVE Goal
    <2>1. cli[c].pc = "stat" /\ cli[c].db \in Dbs /\ (Goto(c, "wait") \/ Goto(c, "hba"))
        BY <1>2, <1>0 DEF RunInitdb, At
    <2>2. cli' \in [Cmds -> Commands] /\ CmdsFit'
        BY <2>1, GotoMoves DEF CmdsFit, Steps
    <2>3. /\ data' \in [Dbs -> Stages]
          /\ initdb' \in [Dbs -> Cmds \cup {Orphan, Nil}] /\ DirsFit'
        BY <1>2, <2>1 DEF RunInitdb, DirsFit, Stages
    <2> QED
        BY <1>2, <2>2, <2>3 DEF RunInitdb
<1>3. ASSUME NEW c \in Cmds, InitdbReturns(c) PROVE Goal
    <2>1. cli[c].pc = "wait" /\ Goto(c, "hba")
        BY <1>3 DEF InitdbReturns, At
    <2>2. cli' \in [Cmds -> Commands] /\ CmdsFit'
        BY <2>1, GotoMoves DEF CmdsFit, Steps
    <2> QED
        BY <1>3, <2>2 DEF InitdbReturns, DirsFit
<1>4. ASSUME NEW c \in Cmds, AddRule(c) PROVE Goal
    <2>1. cli[c].pc = "hba" /\ cli[c].db \in Dbs /\ Goto(c, "start")
        BY <1>4, <1>0 DEF AddRule, At
    <2>2. cli' \in [Cmds -> Commands] /\ CmdsFit'
        BY <2>1, GotoMoves DEF CmdsFit, Steps
    <2>3. rule' \in [Dbs -> BOOLEAN] /\ DirsFit'
        BY <1>4, <2>1 DEF AddRule, DirsFit
    <2> QED
        BY <1>4, <2>2, <2>3 DEF AddRule
<1>5. ASSUME NEW c \in Cmds, StartServer(c) PROVE Goal
    <2>1. PICK p \in Pids :
             /\ servers' = [servers EXCEPT ![p] =
                              [db |-> cli[c].db, st |-> "starting", rule |-> FALSE]]
             /\ cli' = [cli EXCEPT ![c] = [pc |-> "ns", db |-> cli[c].db, pid |-> p]]
        BY <1>5 DEF StartServer
    <2>2. cli[c].db \in Dbs
        BY <1>5, <1>0 DEF StartServer, At
    <2>3. cli' \in [Cmds -> Commands] /\ CmdsFit'
        <3>1. /\ cli' \in [Cmds -> Commands]
              /\ cli'[c].pc = "ns" /\ cli'[c].db = cli[c].db /\ cli'[c].pid = p
              /\ \A o \in Cmds : o # c => cli'[o] = cli[o]
            BY <2>1, <2>2, SetMoves, "ns" \in Steps DEF Steps
        <3> QED
            BY <3>1, <2>2, NilAssumption DEF CmdsFit
    <2>4. [db |-> cli[c].db, st |-> "starting", rule |-> FALSE] \in Servers
        BY <2>2 DEF Servers
    <2>5. servers' \in [Pids -> Servers]
        BY <2>1, <2>4
    <2> QED
        BY <1>5, <2>3, <2>5 DEF StartServer, DirsFit
<1>6. ASSUME NEW c \in Cmds, WaitForNs(c) PROVE Goal
    <2>1. cli[c].pc = "ns" /\ (Goto(c, "cg") \/ Exit(c))
        BY <1>6 DEF WaitForNs, At
    <2>2. cli' \in [Cmds -> Commands] /\ CmdsFit'
        BY <2>1, GotoMoves, ExitMoves DEF CmdsFit, Steps
    <2> QED
        BY <1>6, <2>2 DEF WaitForNs, DirsFit
<1>7. ASSUME NEW c \in Cmds, JoinCgroup(c) PROVE Goal
    <2>1. cli' \in [Cmds -> Commands] /\ CmdsFit'
        BY <1>7, ExitMoves DEF JoinCgroup, CmdsFit
    <2> QED
        BY <1>7, <2>1 DEF JoinCgroup, DirsFit
<1>8. ASSUME NEW c \in Cmds, Crash(c) PROVE Goal
    <2>1. cli' \in [Cmds -> Commands] /\ CmdsFit'
        BY <1>8, ExitMoves DEF Crash, CmdsFit
    <2>2. faults' \in 0 .. MaxFaults
        BY <1>8, MaxFaultsAssumption DEF Crash, Fault
    <2>3. initdb' \in [Dbs -> Cmds \cup {Orphan, Nil}] /\ DirsFit'
        BY <1>8, NilAssumption DEF Crash, DirsFit
    <2> QED
        BY <1>8, <2>1, <2>2, <2>3 DEF Crash
<1>9. ASSUME NEW d \in Dbs, InitdbStep(d) PROVE Goal
    <2>1. data[d] \in {"dirs", "version", "config"}
        BY <1>9 DEF InitdbStep, DirsFit
    <2>2. /\ data[d] = "dirs" => After(data[d]) = "version"
          /\ data[d] = "version" => After(data[d]) = "config"
          /\ data[d] = "config" => After(data[d]) = "ready"
        BY DEF After
    <2>3. /\ data' \in [Dbs -> Stages]
          /\ initdb' \in [Dbs -> Cmds \cup {Orphan, Nil}] /\ DirsFit'
        BY <1>9, <2>1, <2>2 DEF InitdbStep, DirsFit, Stages
    <2> QED
        BY <1>9, <2>3 DEF InitdbStep, CmdsFit
<1>10. ASSUME NEW d \in Dbs, InitdbFails(d) PROVE Goal
    <2>1. /\ data' \in [Dbs -> Stages] /\ rule' \in [Dbs -> BOOLEAN]
          /\ initdb' \in [Dbs -> Cmds \cup {Orphan, Nil}] /\ DirsFit'
        BY <1>10 DEF InitdbFails, DirsFit, Stages
    <2>2. faults' \in 0 .. MaxFaults
        BY <1>10, MaxFaultsAssumption DEF InitdbFails, Fault
    <2> QED
        BY <1>10, <2>1, <2>2 DEF InitdbFails, CmdsFit
<1>11. ASSUME NEW d \in Dbs, InitdbKilled(d) PROVE Goal
    <2>1. initdb' \in [Dbs -> Cmds \cup {Orphan, Nil}] /\ DirsFit'
        BY <1>11 DEF InitdbKilled, DirsFit
    <2>2. faults' \in 0 .. MaxFaults
        BY <1>11, MaxFaultsAssumption DEF InitdbKilled, Fault
    <2> QED
        BY <1>11, <2>1, <2>2 DEF InitdbKilled, CmdsFit
<1>12. ASSUME NEW d \in Dbs, BackendsEnd(d) PROVE Goal
    BY <1>12 DEF BackendsEnd, DirsFit, CmdsFit
<1>13. ASSUME NEW p \in Pids, ServerUp(p) PROVE Goal
    <2> DEFINE d == servers[p].db
               s == [db |-> d, st |-> "serving", rule |-> rule[d]]
    <2>1. d \in Dbs
        BY <1>13 DEF ServerUp, Servers, NoServer
    <2>2. s \in Servers /\ NoServer \in Servers
        BY <2>1 DEF Servers
    <2>3. \/ /\ lock' = [lock EXCEPT ![d] = p]
             /\ servers' = [servers EXCEPT ![p] = s]
          \/ lock' = lock /\ servers' = [servers EXCEPT ![p] = NoServer]
        BY <1>13 DEF ServerUp
    <2> HIDE DEF s, d
    <2>4. lock' \in [Dbs -> Pids \cup {Nil}] /\ servers' \in [Pids -> Servers]
        BY <2>1, <2>2, <2>3
    <2> QED
        BY <1>13, <2>4 DEF ServerUp, DirsFit, CmdsFit
<1>14. ASSUME NEW p \in Pids, ServerKilled(p) PROVE Goal
    <2>1. servers[p].db \in Dbs
        BY <1>14 DEF ServerKilled, Servers, NoServer
    <2>2. servers' \in [Pids -> Servers]
        BY <1>14 DEF ServerKilled, Servers
    <2> QED
        BY <1>14, <2>1, <2>2 DEF ServerKilled, DirsFit, CmdsFit
<1>15. ASSUME NEW p \in Pids, StartCutOff(p) PROVE Goal
    <2>1. servers' \in [Pids -> Servers]
        BY <1>15 DEF StartCutOff, Servers
    <2>2. faults' \in 0 .. MaxFaults
        BY <1>15, MaxFaultsAssumption DEF StartCutOff, Fault
    <2> QED
        BY <1>15, <2>1, <2>2 DEF StartCutOff, DirsFit, CmdsFit
<1>16. ASSUME NEW p \in Pids, ServerStops(p) PROVE Goal
    <2>1. servers' \in [Pids -> Servers]
        BY <1>16 DEF ServerStops, Servers
    <2>2. lock' \in [Dbs -> Pids \cup {Nil}]
        BY <1>16 DEF ServerStops
    <2> QED
        BY <1>16, <2>1, <2>2 DEF ServerStops, DirsFit, CmdsFit
<1>17. CASE UNCHANGED vars
    BY <1>17 DEF vars, DirsFit, CmdsFit
<1> QED
    BY <1>1, <1>2, <1>3, <1>4, <1>5, <1>6, <1>7, <1>8, <1>9, <1>10, <1>11, <1>12, <1>13,
       <1>14, <1>15, <1>16, <1>17 DEF Next, Step

\* Types are an invariant.
THEOREM TypeCorrect == Spec => []TypeOK
BY InitTyped, NextTyped, PTL DEF Spec

-----------------------------------------------------------------------------
(* The data directory *)

\* Only an empty directory is given to initdb, and initdb only removes what it has made.
LEMMA StepKeeps ==
    ASSUME TypeOK, [Next]_vars, NEW d \in Dbs, data[d] = "ready"
    PROVE  data'[d] = "ready"
<1> USE DEF Typed
<1>0. Typed /\ DirsFit
    BY TypeOKParts
<1>1. ASSUME NEW c \in Cmds, RunInitdb(c) PROVE data'[d] = "ready"
    BY <1>0, <1>1 DEF RunInitdb
<1>2. ASSUME NEW e \in Dbs, InitdbStep(e) \/ InitdbFails(e) \/ InitdbKilled(e)
      PROVE  data'[d] = "ready"
    <2>1. data[e] # "ready"
        BY <1>0, <1>2 DEF DirsFit, InitdbStep, InitdbFails, InitdbKilled
    <2> QED
        BY <1>0, <1>2, <2>1 DEF InitdbStep, InitdbFails, InitdbKilled
<1>3. ASSUME data' = data PROVE data'[d] = "ready"
    BY <1>3
<1> QED
    BY <1>1, <1>2, <1>3 DEF Next, Step, Begin, InitdbReturns, AddRule, StartServer, WaitForNs,
       JoinCgroup, Crash, BackendsEnd, ServerUp, ServerKilled, StartCutOff, ServerStops, vars

\* db.go:82, "if it doesn't exist yet": a complete data directory stays complete.
THEOREM DataStays == Spec => DataKept
<1>1. TypeOK /\ [Next]_vars => [\A d \in Dbs : data[d] = "ready" => data'[d] = "ready"]_vars
    BY StepKeeps
<1> QED
    BY <1>1, TypeCorrect, PTL DEF Spec, DataKept

-----------------------------------------------------------------------------
(* One server per data directory *)

\* A server that serves is the one the lock file names.
Locked == \A p \in Pids, d \in Dbs : Serving(p, d) => lock[d] = p

\* The lock is taken only from a process that is gone, and only from outside of delete
\* does it go with its server.
LEMMA NextLocked == TypeOK /\ Locked /\ [Next]_vars => Locked'
<1> SUFFICES ASSUME TypeOK, Locked, [Next]_vars, NEW q \in Pids, NEW e \in Dbs, Serving(q, e)'
             PROVE  lock'[e] = q
    BY DEF Locked
<1> USE DEF Typed
<1>0. Typed
    BY TypeOKParts
<1>1. ASSUME NEW p \in Pids, ServerUp(p) PROVE lock'[e] = q
    <2> DEFINE d == servers[p].db
    <2>1. CASE data[d] = "ready" /\ ~InUse(d, p)
        <3>1. /\ lock' = [lock EXCEPT ![d] = p]
              /\ servers' = [servers EXCEPT ![p] =
                               [db |-> d, st |-> "serving", rule |-> rule[d]]]
            BY <1>1, <2>1 DEF ServerUp
        <3>2. d \in Dbs
            BY <1>0, <1>1 DEF ServerUp, Servers, NoServer
        <3>3. CASE q = p
            BY <1>0, <3>1, <3>2, <3>3 DEF Serving
        <3>4. CASE q # p
            <4>1. Serving(q, e) /\ lock[e] = q
                BY <1>0, <3>1, <3>4 DEF Serving, Locked
            <4>2. Alive(q)
                BY <4>1 DEF Serving, Alive, Running, NoServer
            <4>3. e # d
                BY <2>1, <3>4, <4>1, <4>2 DEF InUse
            <4> QED
                BY <1>0, <3>1, <4>1, <4>3
        <3> QED
            BY <3>3, <3>4
    <2>2. CASE ~(data[d] = "ready" /\ ~InUse(d, p))
        <3>1. lock' = lock /\ servers' = [servers EXCEPT ![p] = NoServer]
            BY <1>1, <2>2 DEF ServerUp
        <3>2. Serving(q, e)
            BY <1>0, <3>1 DEF Serving, NoServer
        <3> QED
            BY <3>1, <3>2 DEF Locked
    <2> QED
        BY <2>1, <2>2
<1>2. ASSUME NEW p \in Pids, ServerStops(p) PROVE lock'[e] = q
    <2>1. q # p /\ Serving(q, e)
        BY <1>0, <1>2 DEF ServerStops, Serving, NoServer
    <2>2. servers[p].db \in Dbs /\ Serving(p, servers[p].db)
        BY <1>0, <1>2 DEF ServerStops, Serving, Servers, NoServer
    <2>3. servers[p].db # e
        BY <2>1, <2>2 DEF Locked
    <2> QED
        BY <1>0, <1>2, <2>1, <2>3 DEF ServerStops, Locked
<1>3. ASSUME lock' = lock, Serving(q, e) PROVE lock'[e] = q
    BY <1>3 DEF Locked
<1>4. ASSUME NEW p \in Pids, ServerKilled(p) \/ StartCutOff(p) PROVE lock'[e] = q
    <2>1. lock' = lock /\ Serving(q, e)
        BY <1>0, <1>4 DEF ServerKilled, StartCutOff, Serving, NoServer
    <2> QED
        BY <1>3, <2>1
<1>5. ASSUME NEW c \in Cmds, StartServer(c) PROVE lock'[e] = q
    <2>1. lock' = lock /\ Serving(q, e)
        BY <1>0, <1>5 DEF StartServer, Serving
    <2> QED
        BY <1>3, <2>1
<1>6. ASSUME servers' = servers, lock' = lock PROVE lock'[e] = q
    BY <1>3, <1>6 DEF Serving
<1> QED
    BY <1>1, <1>2, <1>4, <1>5, <1>6 DEF Next, Step, Begin, RunInitdb, InitdbReturns, AddRule,
       WaitForNs, JoinCgroup, Crash, InitdbStep, InitdbFails, InitdbKilled, BackendsEnd, vars

\* However often and however simultaneously a database is created, no two servers
\* serve one data directory.
THEOREM SingleServer == Spec => []OneServer
<1>1. Init => Locked
    BY DEF Init, Locked, Serving, NoServer
<1>2. Spec => []Locked
    BY <1>1, TypeCorrect, NextLocked, PTL DEF Spec
<1>3. Locked => OneServer
    BY DEF Locked, OneServer
<1> QED
    BY <1>2, <1>3, PTL

-----------------------------------------------------------------------------
(* Database implements DataDirectory *)

\* Only complete directories are served.
CompleteServed == \A p \in Pids, d \in Dbs : Serving(p, d) => data[d] = "ready"

\* What a step does to the servers that serve: nothing, one more serves, or one less.
Unserved == \A q \in Pids, e \in Dbs : Serving(q, e)' <=> Serving(q, e)
Taken(p, d) ==
    /\ data[d] = "ready" /\ data' = data
    /\ \A q \in Pids, e \in Dbs : Serving(q, e) => q # p /\ e # d
    /\ \A q \in Pids, e \in Dbs : Serving(q, e)' <=> Serving(q, e) \/ (q = p /\ e = d)
Left(p, d) ==
    /\ Serving(p, d) /\ data' = data
    /\ \A q \in Pids, e \in Dbs : Serving(q, e)' <=> Serving(q, e) /\ q # p

LEMMA ServingStep ==
    ASSUME TypeOK, Locked, [Next]_vars
    PROVE  Unserved \/ \E p \in Pids, d \in Dbs : Taken(p, d) \/ Left(p, d)
<1>0. Typed
    BY TypeOKParts
<1> USE DEF Typed
<1>1. ASSUME NEW p \in Pids, ServerUp(p)
      PROVE  Unserved \/ \E d \in Dbs : Taken(p, d)
    <2> DEFINE d == servers[p].db
    <2>0. d \in Dbs /\ ~\E e \in Dbs : Serving(p, e)
        BY <1>0, <1>1 DEF ServerUp, Servers, NoServer, Serving
    <2>1. CASE data[d] = "ready" /\ ~InUse(d, p)
        <3>1. servers' = [servers EXCEPT ![p] =
                             [db |-> d, st |-> "serving", rule |-> rule[d]]]
            BY <1>1, <2>1 DEF ServerUp
        <3>2. ASSUME NEW q \in Pids, NEW e \in Dbs, Serving(q, e) PROVE q # p /\ e # d
            <4>1. lock[e] = q /\ Alive(q)
                BY <3>2 DEF Locked, Serving, Alive, Running, NoServer
            <4> QED
                BY <2>0, <2>1, <3>2, <4>1 DEF InUse
        <3>3. \A q \in Pids, e \in Dbs : Serving(q, e)' <=> Serving(q, e) \/ (q = p /\ e = d)
            BY <1>0, <2>0, <3>1 DEF Serving
        <3> QED
            BY <1>1, <2>0, <2>1, <3>2, <3>3 DEF ServerUp, Taken
    <2>2. CASE ~(data[d] = "ready" /\ ~InUse(d, p))
        <3>1. servers' = [servers EXCEPT ![p] = NoServer]
            BY <1>1, <2>2 DEF ServerUp
        <3> QED
            BY <1>0, <2>0, <3>1 DEF Unserved, Serving, NoServer
    <2> QED
        BY <2>1, <2>2
<1>2. ASSUME NEW p \in Pids, ServerKilled(p) \/ ServerStops(p)
      PROVE  \E d \in Dbs : Left(p, d)
    <2>1. servers[p].db \in Dbs /\ Serving(p, servers[p].db)
        BY <1>0, <1>2 DEF ServerKilled, ServerStops, Serving, Servers, NoServer
    <2>2. data' = data /\ servers' = [servers EXCEPT ![p] = NoServer]
        BY <1>2 DEF ServerKilled, ServerStops
    <2>3. \A q \in Pids, e \in Dbs : Serving(q, e)' <=> Serving(q, e) /\ q # p
        BY <1>0, <2>2 DEF Serving, NoServer
    <2> QED
        BY <2>1, <2>2, <2>3 DEF Left
<1>3. ASSUME NEW p \in Pids, StartCutOff(p) PROVE Unserved
    BY <1>0, <1>3 DEF StartCutOff, Unserved, Serving, NoServer
<1>4. ASSUME NEW c \in Cmds, StartServer(c) PROVE Unserved
    BY <1>0, <1>4 DEF StartServer, Unserved, Serving, Alive, Running, NoServer
<1>5. ASSUME servers' = servers PROVE Unserved
    BY <1>5 DEF Unserved, Serving
<1> QED
    BY <1>1, <1>2, <1>3, <1>4, <1>5 DEF Next, Step, Begin, RunInitdb, InitdbReturns, AddRule,
       WaitForNs, JoinCgroup, Crash, InitdbStep, InitdbFails, InitdbKilled, BackendsEnd, vars

\* A directory becomes complete by the last step of its initdb.
Completed(d) ==
    /\ data[d] # "ready" /\ data' = [data EXCEPT ![d] = "ready"] /\ servers' = servers

LEMMA DataStep ==
    ASSUME TypeOK, [Next]_vars
    PROVE  \/ \A d \in Dbs : data'[d] = "ready" <=> data[d] = "ready"
           \/ \E d \in Dbs : Completed(d)
<1>0. Typed /\ DirsFit
    BY TypeOKParts
<1>1. ASSUME NEW c \in Cmds, RunInitdb(c)
      PROVE  \A d \in Dbs : data'[d] = "ready" <=> data[d] = "ready"
    BY <1>0, <1>1 DEF RunInitdb, Typed
<1>2. ASSUME NEW e \in Dbs, InitdbFails(e) \/ InitdbKilled(e)
      PROVE  \A d \in Dbs : data'[d] = "ready" <=> data[d] = "ready"
    <2>1. data[e] # "ready"
        BY <1>0, <1>2 DEF DirsFit, InitdbFails, InitdbKilled
    <2> QED
        BY <1>0, <1>2, <2>1 DEF InitdbFails, InitdbKilled, Typed
<1>3. ASSUME NEW e \in Dbs, InitdbStep(e)
      PROVE  \/ \A d \in Dbs : data'[d] = "ready" <=> data[d] = "ready"
             \/ Completed(e)
    <2>1. data[e] \in {"dirs", "version", "config"}
        BY <1>0, <1>3 DEF DirsFit, InitdbStep
    <2>2. data' = [data EXCEPT ![e] = After(data[e])] /\ servers' = servers
        BY <1>3 DEF InitdbStep
    <2>3. CASE data[e] = "config"
        BY <2>2, <2>3 DEF Completed, After
    <2>4. CASE data[e] # "config"
        <3>1. After(data[e]) # "ready"
            BY <2>1, <2>4 DEF After
        <3> QED
            BY <1>0, <2>1, <2>2, <3>1 DEF Typed
    <2> QED
        BY <2>3, <2>4
<1>4. ASSUME data' = data
      PROVE  \A d \in Dbs : data'[d] = "ready" <=> data[d] = "ready"
    BY <1>4
<1> QED
    BY <1>1, <1>2, <1>3, <1>4 DEF Next, Step, Begin, InitdbReturns, AddRule, StartServer,
       WaitForNs, JoinCgroup, Crash, BackendsEnd, ServerUp, ServerKilled, StartCutOff,
       ServerStops, vars

LEMMA NextComplete == TypeOK /\ Locked /\ CompleteServed /\ [Next]_vars => CompleteServed'
<1> SUFFICES ASSUME TypeOK, Locked, CompleteServed, [Next]_vars PROVE CompleteServed'
    OBVIOUS
<1>1. ASSUME NEW p \in Pids, NEW d \in Dbs, Taken(p, d) PROVE CompleteServed'
    BY <1>1 DEF Taken, CompleteServed
<1>2. ASSUME NEW p \in Pids, NEW d \in Dbs, Left(p, d) PROVE CompleteServed'
    BY <1>2 DEF Left, CompleteServed
<1>3. CASE Unserved
    BY <1>3, StepKeeps DEF Unserved, CompleteServed
<1> QED
    BY <1>1, <1>2, <1>3, ServingStep

\* ServerOf is the server that serves, where one at most does.
Named == \A d \in Dbs :
            /\ \A p \in Pids : Serving(p, d) => ServerOf(d) = p
            /\ (\A p \in Pids : ~Serving(p, d)) => ServerOf(d) = Nil

LEMMA ServerOfIs == Locked => Named
<1> SUFFICES ASSUME Locked PROVE Named
    OBVIOUS
<1>1. ASSUME NEW d \in Dbs, NEW p \in Pids, Serving(p, d) PROVE ServerOf(d) = p
    <2>1. \A q \in Pids : Serving(q, d) => q = p
        BY <1>1 DEF Locked
    <2> QED
        BY <1>1, <2>1 DEF ServerOf
<1> QED
    BY <1>1 DEF Named, ServerOf

\* Whatever is created, deleted and cut off, and by however many commands, data
\* directories are initialised once and served as DataDirectory promises.
THEOREM DirectoriesAsPromised == Spec => DirectoriesKept
<1> DEFINE complete == [d \in Dbs |-> data[d] = "ready"]
           server == [d \in Dbs |-> ServerOf(d)]
<1>1. Init => Locked /\ CompleteServed /\ Dir!Init
    <2> SUFFICES ASSUME Init PROVE Locked /\ CompleteServed /\ Dir!Init
        OBVIOUS
    <2>1. \A p \in Pids, d \in Dbs : ~Serving(p, d)
        BY NilAssumption DEF Init, Serving, NoServer
    <2>2. Locked /\ CompleteServed
        BY <2>1 DEF Locked, CompleteServed
    <2>3. \A d \in Dbs : ServerOf(d) = Nil /\ data[d] # "ready"
        BY <2>1 DEF Init, ServerOf
    <2> QED
        BY <2>2, <2>3 DEF Dir!Init
<1>2. TypeOK /\ Locked /\ CompleteServed /\ [Next]_vars
        => Locked' /\ CompleteServed'
    BY NextLocked, NextComplete
<1>3. TypeOK /\ Locked /\ Locked' /\ CompleteServed /\ [Next]_vars => [Dir!Next]_(Dir!vars)
    <2> SUFFICES ASSUME TypeOK, Locked, Locked', CompleteServed, [Next]_vars
                 PROVE  [Dir!Next]_(Dir!vars)
        OBVIOUS
    <2>0. /\ \A d \in Dbs, p \in Pids : Serving(p, d) => ServerOf(d) = p
          /\ \A d \in Dbs : (\A p \in Pids : ~Serving(p, d)) => ServerOf(d) = Nil
          /\ \A d \in Dbs, p \in Pids : Serving(p, d)' => ServerOf(d)' = p
          /\ \A d \in Dbs : (\A p \in Pids : ~Serving(p, d)') => ServerOf(d)' = Nil
        <3>1. Named /\ Named'
            BY ServerOfIs, PTL
        <3> QED
            BY <3>1 DEF Named
    <2>1. ASSUME NEW p \in Pids, NEW d \in Dbs, Taken(p, d) PROVE Dir!Serve(d, p)
        <3>1. ServerOf(d) = Nil /\ ServerOf(d)' = p /\ complete' = complete
            BY <2>0, <2>1 DEF Taken
        <3>2. \A e \in Dbs : e # d => ServerOf(e)' = ServerOf(e)
            BY <2>0, <2>1 DEF Taken
        <3>3. \A e \in Dbs : ServerOf(e) # p
            BY <2>0, <2>1, NilAssumption DEF Taken
        <3> QED
            BY <2>1, <3>1, <3>2, <3>3 DEF Taken, Dir!Serve
    <2>2. ASSUME NEW p \in Pids, NEW d \in Dbs, Left(p, d) PROVE Dir!End(d)
        <3>1. ServerOf(d) = p /\ ServerOf(d)' = Nil /\ complete' = complete
            BY <2>0, <2>2 DEF Left, Locked
        <3>2. \A e \in Dbs : e # d => ServerOf(e)' = ServerOf(e)
            BY <2>0, <2>2 DEF Left, Serving
        <3> QED
            BY <3>1, <3>2, NilAssumption DEF Dir!End
    <2>3. ASSUME Unserved PROVE server' = server
        BY <2>0, <2>3 DEF Unserved
    <2>4. ASSUME NEW d \in Dbs, Completed(d) PROVE Dir!Initialise(d)
        <3>1. server' = server
            <4>1. Unserved
                BY <2>4 DEF Completed, Unserved, Serving
            <4> QED
                BY <2>3, <4>1
        <3>2. ServerOf(d) = Nil
            BY <2>0, <2>4 DEF Completed, CompleteServed
        <3>3. complete' = [complete EXCEPT ![d] = TRUE]
            BY <2>4, TypeOKParts DEF Completed, Typed
        <3> QED
            BY <2>4, <3>1, <3>2, <3>3 DEF Completed, Dir!Initialise
    <2>5. CASE Unserved /\ \A d \in Dbs : data'[d] = "ready" <=> data[d] = "ready"
        BY <2>3, <2>5 DEF Dir!vars
    <2> QED
        BY <2>1, <2>2, <2>4, <2>5, ServingStep, DataStep DEF Dir!Next
<1> QED
    BY <1>1, <1>2, <1>3, TypeCorrect, PTL DEF Spec, DirectoriesKept, Dir!Spec

-----------------------------------------------------------------------------
(* Remote connections *)

Starting(p, d) == servers[p].db = d /\ servers[p].st = "starting"

\* No two creates are about one database.
Apart == \A c, o \in Cmds : cli[c].db = cli[o].db /\ cli[c].db # Nil => c = o

\* While a create is at work on a database nobody but its own initdb changes the
\* directory, and no server but its own starts.
CmdRule(c) ==
    cli[c].pc # "idle" =>
       LET d == cli[c].db
       IN  /\ initdb[d] # Nil => cli[c].pc = "wait" /\ initdb[d] = c
           /\ cli[c].pc = "start" /\ data[d] = "ready" => rule[d]
           /\ \A p \in Pids : Starting(p, d) => cli[c].pid = p

\* A server starts on a directory that nobody changes, and that has the line.
ServerRule(p) ==
    /\ \A d \in Dbs : Starting(p, d) => initdb[d] = Nil /\ (data[d] = "ready" => rule[d])
    /\ \A d \in Dbs : Serving(p, d) => servers[p].rule

RInv == Apart /\ (\A c \in Cmds : CmdRule(c)) /\ (\A p \in Pids : ServerRule(p))

\* RInv is kept by the steps of commands ...
LEMMA CommandRule ==
    ASSUME ~Overlaps, TypeOK, RInv,
           NEW c \in Cmds, Step(c) \/ Crash(c) \/ \E d \in Dbs : Begin(c, d)
    PROVE  RInv'
<1> USE DEF Typed
<1>0. Typed /\ DirsFit /\ CmdsFit
    BY TypeOKParts
<1>00. Apart /\ (\A o \in Cmds : CmdRule(o)) /\ (\A p \in Pids : ServerRule(p))
    BY DEF RInv
<1>000. cli[c].pc # "idle" => cli[c].db \in Dbs
    BY <1>0 DEF CmdsFit, Commands
<1>1. ASSUME NEW d \in Dbs, Begin(c, d) PROVE RInv'
    <2>1. cli' = [cli EXCEPT ![c] = [pc |-> "stat", db |-> d, pid |-> Nil]]
        BY <1>1 DEF Begin
    <2>2. /\ cli'[c].pc = "stat" /\ cli'[c].db = d /\ cli'[c].pid = Nil
          /\ \A o \in Cmds : o # c => cli'[o] = cli[o]
        BY <1>0, <2>1, SetMoves, "stat" \in Steps DEF Steps
    <2>3. /\ initdb[d] = Nil /\ \A o \in Cmds : cli[o].db # d
          /\ \A p \in Pids : ~Starting(p, d)
        BY <1>1 DEF Begin, Busy, Starting
    <2>4. UNCHANGED <<data, rule, initdb, servers>>
        BY <1>1 DEF Begin
    <2>5. Apart'
        BY <1>00, <2>2, <2>3 DEF Apart
    <2>6. \A o \in Cmds : CmdRule(o)'
        BY <1>00, <2>2, <2>3, <2>4 DEF CmdRule, Starting
    <2>7. \A p \in Pids : ServerRule(p)'
        BY <1>00, <2>4 DEF ServerRule, Starting, Serving
    <2> QED
        BY <2>5, <2>6, <2>7 DEF RInv
<1>2. CASE RunInitdb(c)
    <2>1. /\ cli[c].pc = "stat" /\ cli[c].db \in Dbs /\ UNCHANGED <<rule, servers>>
          /\ \/ /\ data[cli[c].db] = "empty" /\ Goto(c, "wait")
                /\ data' = [data EXCEPT ![cli[c].db] = "dirs"]
                /\ initdb' = [initdb EXCEPT ![cli[c].db] = c]
             \/ Goto(c, "hba") /\ data' = data /\ initdb' = initdb
        BY <1>2, <1>000 DEF RunInitdb, At
    <2>2. /\ cli'[c].pc \in {"wait", "hba"} /\ cli'[c].db = cli[c].db /\ cli'[c].pid = cli[c].pid
          /\ \A o \in Cmds : o # c => cli'[o] = cli[o]
          /\ initdb'[cli[c].db] # initdb[cli[c].db] => cli'[c].pc = "wait"
        BY <1>0, <2>1, GotoMoves, "wait" \in Steps, "hba" \in Steps DEF Steps
    <2>3. Apart'
        BY <1>00, <2>2 DEF Apart
    <2>4. initdb[cli[c].db] = Nil /\ \A p \in Pids : ~Starting(p, cli[c].db)
        BY <1>0, <1>00, <2>1, NilAssumption DEF CmdRule, CmdsFit
    <2>5. CmdRule(c)'
        BY <1>0, <1>00, <2>1, <2>2, <2>4, NilAssumption DEF CmdRule, Starting
    <2>6. \A o \in Cmds : o # c => CmdRule(o)'
        <3> TAKE o \in Cmds
        <3> HAVE o # c
        <3>1. cli[o].pc # "idle" => cli[o].db # cli[c].db /\ cli[o].db \in Dbs
            BY <1>0, <1>00, <2>1, NilAssumption DEF Apart, CmdsFit, Commands
        <3> QED
            BY <1>0, <1>00, <2>1, <2>2, <3>1 DEF CmdRule, Starting
    <2>7. \A p \in Pids : ServerRule(p)'
        BY <1>0, <1>00, <2>1, <2>4 DEF ServerRule, Starting, Serving
    <2> QED
        BY <2>3, <2>5, <2>6, <2>7 DEF RInv
<1>3. CASE InitdbReturns(c)
    <2>1. /\ cli[c].pc = "wait" /\ cli[c].db \in Dbs /\ UNCHANGED <<data, rule, initdb, servers>>
          /\ Goto(c, "hba") /\ initdb[cli[c].db] # c
        BY <1>3, <1>000 DEF InitdbReturns, At
    <2>2. /\ cli'[c].pc = "hba" /\ cli'[c].db = cli[c].db /\ cli'[c].pid = cli[c].pid
          /\ \A o \in Cmds : o # c => cli'[o] = cli[o]
        BY <1>0, <2>1, GotoMoves, "hba" \in Steps DEF Steps
    <2>3. Apart' /\ \A p \in Pids : ServerRule(p)'
        BY <1>00, <2>1, <2>2 DEF Apart, ServerRule, Starting, Serving
    <2>4. \A o \in Cmds : CmdRule(o)'
        BY <1>00, <2>1, <2>2 DEF CmdRule, Starting
    <2> QED
        BY <2>3, <2>4 DEF RInv
<1>4. CASE AddRule(c)
    <2>1. /\ cli[c].pc = "hba" /\ cli[c].db \in Dbs /\ UNCHANGED <<data, initdb, servers>>
          /\ Goto(c, "start")
          /\ rule' = IF data[cli[c].db] \in {"config", "ready"}
                     THEN [rule EXCEPT ![cli[c].db] = TRUE] ELSE rule
        BY <1>4, <1>000 DEF AddRule, At
    <2>2. /\ cli'[c].pc = "start" /\ cli'[c].db = cli[c].db /\ cli'[c].pid = cli[c].pid
          /\ \A o \in Cmds : o # c => cli'[o] = cli[o]
        BY <1>0, <2>1, GotoMoves, "start" \in Steps DEF Steps
    <2>3. /\ \A d \in Dbs : rule[d] => rule'[d]
          /\ data[cli[c].db] = "ready" => rule'[cli[c].db]
        BY <1>0, <2>1
    <2>4. Apart' /\ \A p \in Pids : ServerRule(p)'
        BY <1>00, <2>1, <2>2, <2>3 DEF Apart, ServerRule, Starting, Serving
    <2>5. \A o \in Cmds : o # c => CmdRule(o)'
        BY <1>0, <1>00, <2>1, <2>2, <2>3 DEF CmdRule, Starting, CmdsFit, Commands
    <2>6. CmdRule(c)'
        BY <1>00, <2>1, <2>2, <2>3 DEF CmdRule, Starting
    <2> QED
        BY <2>4, <2>5, <2>6 DEF RInv
<1>5. CASE StartServer(c)
    <2>1. PICK p \in Pids :
             /\ servers' = [servers EXCEPT ![p] =
                              [db |-> cli[c].db, st |-> "starting", rule |-> FALSE]]
             /\ cli' = [cli EXCEPT ![c] = [pc |-> "ns", db |-> cli[c].db, pid |-> p]]
        BY <1>5 DEF StartServer
    <2>2. /\ cli[c].pc = "start" /\ cli[c].db \in Dbs /\ UNCHANGED <<data, rule, initdb>>
        BY <1>5, <1>000 DEF StartServer, At
    <2>3. /\ cli'[c].pc = "ns" /\ cli'[c].db = cli[c].db /\ cli'[c].pid = p
          /\ \A o \in Cmds : o # c => cli'[o] = cli[o]
        BY <1>0, <2>1, <2>2, SetMoves, "ns" \in Steps DEF Steps
    <2>4. /\ \A q \in Pids : q # p => servers'[q] = servers[q]
          /\ \A d \in Dbs : ~Serving(p, d)'
          /\ \A d \in Dbs : Starting(p, d)' => d = cli[c].db
        BY <1>0, <2>1 DEF Serving, Starting
    <2>5. /\ initdb[cli[c].db] = Nil /\ (data[cli[c].db] = "ready" => rule[cli[c].db])
          /\ \A q \in Pids : ~Starting(q, cli[c].db)
        BY <1>0, <1>00, <2>2, NilAssumption DEF CmdRule, CmdsFit
    <2>6. Apart'
        BY <1>00, <2>3 DEF Apart
    <2>7. CmdRule(c)'
        BY <2>2, <2>3, <2>4, <2>5 DEF CmdRule, Starting
    <2>8. \A o \in Cmds : o # c => CmdRule(o)'
        <3> TAKE o \in Cmds
        <3> HAVE o # c
        <3>1. cli[o].pc # "idle" => cli[o].db # cli[c].db /\ cli[o].db \in Dbs
            BY <1>0, <1>00, <2>2, NilAssumption DEF Apart, CmdsFit, Commands
        <3> QED
            BY <1>00, <2>2, <2>3, <2>4, <3>1 DEF CmdRule, Starting
    <2>9. \A q \in Pids : ServerRule(q)'
        BY <1>00, <2>2, <2>4, <2>5 DEF ServerRule, Starting, Serving
    <2> QED
        BY <2>6, <2>7, <2>8, <2>9 DEF RInv
<1>6. CASE WaitForNs(c) \/ JoinCgroup(c) \/ Crash(c)
    <2>1. /\ cli[c].pc # "idle" /\ UNCHANGED <<data, rule, servers>>
          /\ \A d \in Dbs : initdb'[d] = initdb[d] \/ (initdb[d] = c /\ initdb'[d] = Orphan)
          /\ (cli[c].pc = "ns" /\ Goto(c, "cg") /\ initdb' = initdb) \/ Exit(c)
        BY <1>0, <1>6 DEF WaitForNs, JoinCgroup, Crash, At
    <2>2. /\ \A o \in Cmds : o # c => cli'[o] = cli[o]
          /\ \/ /\ cli'[c].pc = "cg" /\ cli'[c].db = cli[c].db /\ cli'[c].pid = cli[c].pid
                /\ initdb' = initdb /\ cli[c].pc = "ns"
             \/ cli'[c].pc = "idle" /\ cli'[c].db = Nil
        BY <1>0, <2>1, GotoMoves, ExitMoves, "cg" \in Steps DEF Steps
    <2>3. Apart'
        BY <1>00, <2>2 DEF Apart
    <2>4. CmdRule(c)'
        BY <1>00, <2>1, <2>2 DEF CmdRule, Starting
    <2>5. \A o \in Cmds : o # c => CmdRule(o)'
        <3> TAKE o \in Cmds
        <3> HAVE o # c
        <3>1. cli[o].pc # "idle" => cli[o].db \in Dbs
            BY <1>0 DEF CmdsFit, Commands
        <3>2. cli[o].pc # "idle" => initdb'[cli[o].db] = initdb[cli[o].db]
            BY <1>00, <2>1, <3>1, NilAssumption DEF CmdRule
        <3> QED
            BY <1>00, <2>1, <2>2, <3>2 DEF CmdRule, Starting
    <2>6. \A p \in Pids : ServerRule(p)'
        BY <1>00, <2>1, NilAssumption DEF ServerRule, Starting, Serving
    <2> QED
        BY <2>3, <2>4, <2>5, <2>6 DEF RInv
<1> QED
    BY <1>1, <1>2, <1>3, <1>4, <1>5, <1>6 DEF Step

\* ... of initdb ...
LEMMA InitdbRule ==
    ASSUME TypeOK, RInv,
           NEW d \in Dbs, InitdbStep(d) \/ InitdbFails(d) \/ InitdbKilled(d)
    PROVE  RInv'
<1> USE DEF Typed
<1>0. Typed /\ DirsFit /\ CmdsFit
    BY TypeOKParts
<1>1. Apart /\ (\A o \in Cmds : CmdRule(o)) /\ (\A p \in Pids : ServerRule(p))
    BY DEF RInv
<1>2. /\ UNCHANGED <<servers, cli>> /\ initdb[d] # Nil /\ initdb'[d] \in {initdb[d], Nil}
      /\ \A e \in Dbs : e # d => data'[e] = data[e] /\ rule'[e] = rule[e] /\ initdb'[e] = initdb[e]
    BY <1>0 DEF InitdbStep, InitdbFails, InitdbKilled
<1>3. Apart'
    BY <1>1, <1>2 DEF Apart
<1>4. \A o \in Cmds : CmdRule(o)'
    <2> TAKE o \in Cmds
    <2>1. cli[o].pc # "idle" => cli[o].db \in Dbs
        BY <1>0 DEF CmdsFit, Commands
    <2>2. cli[o].pc # "idle" /\ cli[o].db = d => cli[o].pc = "wait" /\ initdb[d] = o
        BY <1>1, <1>2 DEF CmdRule
    <2> QED
        BY <1>1, <1>2, <2>1, <2>2 DEF CmdRule, Starting
<1>5. \A p \in Pids : ServerRule(p)'
    BY <1>1, <1>2 DEF ServerRule, Starting, Serving
<1> QED
    BY <1>3, <1>4, <1>5 DEF RInv

\* ... and of the servers.
LEMMA ServerRules ==
    ASSUME TypeOK, RInv,
           NEW p \in Pids, ServerUp(p) \/ ServerKilled(p) \/ StartCutOff(p) \/ ServerStops(p)
    PROVE  RInv'
<1> USE DEF Typed
<1>0. Typed /\ DirsFit /\ CmdsFit
    BY TypeOKParts
<1>1. Apart /\ (\A o \in Cmds : CmdRule(o)) /\ (\A q \in Pids : ServerRule(q))
    BY DEF RInv
<1>2. /\ UNCHANGED <<data, rule, initdb, cli>>
      /\ \A q \in Pids : q # p => servers'[q] = servers[q]
    BY <1>0 DEF ServerUp, ServerKilled, StartCutOff, ServerStops
<1>3. /\ \A d \in Dbs : ~Starting(p, d)'
      /\ \A d \in Dbs : Serving(p, d)' => servers'[p].rule
    <2>1. CASE ServerUp(p)
        <3> DEFINE d == servers[p].db
        <3>1. /\ servers[p].st = "starting" /\ d \in Dbs
            BY <1>0, <2>1 DEF ServerUp, Servers, NoServer
        <3>2. data[d] = "ready" => rule[d]
            BY <1>1, <3>1 DEF ServerRule, Starting
        <3>3. \/ /\ data[d] = "ready"
                 /\ servers' = [servers EXCEPT ![p] =
                                 [db |-> d, st |-> "serving", rule |-> rule[d]]]
              \/ servers' = [servers EXCEPT ![p] = NoServer]
            BY <2>1 DEF ServerUp
        <3> HIDE DEF d
        <3>4. \/ data[d] = "ready" /\ servers'[p] = [db |-> d, st |-> "serving", rule |-> rule[d]]
              \/ servers'[p] = NoServer
            BY <1>0, <3>3
        <3> QED
            BY <3>2, <3>4 DEF Starting, Serving, NoServer
    <2>2. CASE ServerKilled(p) \/ StartCutOff(p) \/ ServerStops(p)
        <3>1. servers'[p] = NoServer
            BY <1>0, <2>2 DEF ServerKilled, StartCutOff, ServerStops
        <3> QED
            BY <3>1 DEF Starting, Serving, NoServer
    <2> QED
        BY <2>1, <2>2
<1>4. Apart'
    BY <1>1, <1>2 DEF Apart
<1>5. \A o \in Cmds : CmdRule(o)'
    <2> TAKE o \in Cmds
    <2>1. cli[o].pc # "idle" => cli[o].db \in Dbs
        BY <1>0 DEF CmdsFit, Commands
    <2>2. \A q \in Pids, d \in Dbs : Starting(q, d)' => Starting(q, d)
        BY <1>2, <1>3 DEF Starting
    <2> QED
        BY <1>1, <1>2, <2>1, <2>2 DEF CmdRule
<1>6. \A q \in Pids : ServerRule(q)'
    BY <1>1, <1>2, <1>3 DEF ServerRule, Starting, Serving
<1> QED
    BY <1>4, <1>5, <1>6 DEF RInv

\* Every step keeps RInv.
LEMMA NextRule == ~Overlaps /\ TypeOK /\ RInv /\ [Next]_vars => RInv'
<1> SUFFICES ASSUME ~Overlaps, TypeOK, RInv, [Next]_vars PROVE RInv'
    OBVIOUS
<1>1. ASSUME NEW c \in Cmds, Step(c) \/ Crash(c) \/ \E d \in Dbs : Begin(c, d) PROVE RInv'
    BY <1>1, CommandRule
<1>2. ASSUME NEW d \in Dbs, InitdbStep(d) \/ InitdbFails(d) \/ InitdbKilled(d) PROVE RInv'
    BY <1>2, InitdbRule
<1>3. ASSUME NEW p \in Pids, ServerUp(p) \/ ServerKilled(p) \/ StartCutOff(p) \/ ServerStops(p)
      PROVE  RInv'
    BY <1>3, ServerRules
<1>4. ASSUME UNCHANGED <<data, rule, initdb, servers, cli>> PROVE RInv'
    BY <1>4 DEF RInv, Apart, CmdRule, ServerRule, Starting, Serving
<1>5. ASSUME NEW d \in Dbs, BackendsEnd(d) PROVE RInv'
    BY <1>4, <1>5 DEF BackendsEnd
<1>6. CASE UNCHANGED vars
    BY <1>4, <1>6 DEF vars
<1> QED
    BY <1>1, <1>2, <1>3, <1>5, <1>6 DEF Next

\* db.go:105: if no create of a database begins while what an earlier one has started
\* is on its way, every server has read the line for remote connections, wherever
\* creates, initdbs and servers have been cut off before.
THEOREM RemoteConnections == ASSUME ~Overlaps PROVE Spec => []RemoteAccess
<1>1. Init => RInv
    <2> SUFFICES ASSUME Init PROVE RInv
        OBVIOUS
    <2>1. \A c \in Cmds : cli[c].pc = "idle" /\ cli[c].db = Nil
        BY DEF Init, Idle
    <2>2. \A p \in Pids : servers[p].st = "none"
        BY DEF Init, NoServer
    <2> QED
        BY <2>1, <2>2 DEF RInv, Apart, CmdRule, ServerRule, Starting, Serving
<1>2. RInv => RemoteAccess
    BY DEF RInv, ServerRule, RemoteAccess
<1>3. TypeOK /\ RInv /\ [Next]_vars => RInv'
    BY NextRule
<1> QED
    BY <1>1, <1>2, <1>3, TypeCorrect, PTL DEF Spec
=============================================================================
