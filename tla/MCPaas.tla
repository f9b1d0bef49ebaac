------------------------------- MODULE MCPaas -------------------------------
(* Instances of Paas for TLC. *)
EXTENDS Paas, TLC

Service(name, lb) ==
    [type |-> "service", name |-> name, supported |-> TRUE, lb |-> lb,
     upstream |-> IF lb THEN name ELSE Nil, server |-> Nil]
Db(name, supported) ==
    [type |-> "db", name |-> name, supported |-> supported, lb |-> FALSE,
     upstream |-> Nil, server |-> Nil]
OtherType == [type |-> "other", name |-> "x", supported |-> FALSE, lb |-> FALSE,
              upstream |-> Nil, server |-> Nil]

Second == Service("second", TRUE)
Api    == Service("api", TRUE)

\* Two load-balanced services and one that is not.
Several == {Second, Api, Service("plain", FALSE)}
\* A service and a database.
Mixed == {Second, Db("user-db", TRUE)}
TwoDatabases == {Db("user-db", TRUE), Db("log-db", TRUE)}
\* Services only, for two commands at a time.
Services == {Second, Service("plain", FALSE)}
OneService == {Second}
\* A service, a database, and one of a technology that is declared and not implemented.
Halfway == Mixed \cup {Db("mysql-db", FALSE)}
\* A service with a configured server, a database, and an unknown type.
Unlike == {[Second EXCEPT !.server = 2], Db("user-db", TRUE), OtherType}

\* Command slots and process ids are interchangeable (used where no liveness is
\* checked).
Symmetry == Permutations(Cmds) \cup Permutations(Pids)
=============================================================================
