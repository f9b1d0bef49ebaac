--------------------------- MODULE DataDirectory ---------------------------
(***************************************************************************)
(* What a database promises about its data directory: it is initialised    *)
(* once and kept from then on, through deletes and new creates of the      *)
(* database; only a complete directory is served, by one server at a time, *)
(* and no server has two.  Database implements this with initdb, the lock  *)
(* file and processes that can be cut off anywhere in single steps.        *)
(***************************************************************************)
CONSTANTS
    Databases,  \* every database has a data directory of its own
    Processes,  \* process ids
    Nobody      \* stands for no server

VARIABLES
    complete,  \* whether the data directory of a database is complete
    server     \* the process that serves it

vars == <<complete, server>>

Init == /\ complete = [d \in Databases |-> FALSE]
        /\ server = [d \in Databases |-> Nobody]

Initialise(d) ==
    /\ ~complete[d] /\ server[d] = Nobody
    /\ complete' = [complete EXCEPT ![d] = TRUE]
    /\ UNCHANGED server

Serve(d, p) ==
    /\ complete[d] /\ server[d] = Nobody
    /\ \A e \in Databases : server[e] # p
    /\ server' = [server EXCEPT ![d] = p]
    /\ UNCHANGED complete

End(d) ==
    /\ server[d] # Nobody
    /\ server' = [server EXCEPT ![d] = Nobody]
    /\ UNCHANGED complete

Next == \E d \in Databases : \/ Initialise(d)
                             \/ \E p \in Processes : Serve(d, p)
                             \/ End(d)

Spec == Init /\ [][Next]_vars
=============================================================================
