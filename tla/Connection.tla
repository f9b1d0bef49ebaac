----------------------------- MODULE Connection -----------------------------
(***************************************************************************)
(* What connecting a process to the bridge promises.  A process that is to *)
(* be connected (an address was there for it) is connected by its command, *)
(* once, unless something disturbs the command; from then on it stays      *)
(* connected until it ends, and only cleanup can disconnect it.  A process *)
(* that is not connected when its command is done never is.                *)
(*                                                                         *)
(* Bridge implements this netlink call by netlink call, and Paas with one  *)
(* step for all of them: that is what lets Paas leave the calls out.       *)
(***************************************************************************)
CONSTANT Processes  \* process ids

VARIABLES
    status,     \* of every process
    disturbed,  \* whether anything has gone wrong so far
    cleaning    \* whether a cleanup is running

vars == <<status, disturbed, cleaning>>

Statuses == {"none",        \* no process has this id
             "connecting",  \* its command is about to connect it
             "connected",   \* others on the bridge can reach it
             "isolated"}    \* it runs without a connection

ConnectionTypeOK == /\ status \in [Processes -> Statuses]
                    /\ disturbed \in BOOLEAN /\ cleaning \in BOOLEAN

Init == status = [p \in Processes |-> "none"] /\ ~disturbed /\ ~cleaning

Start(p)   == status[p] = "none" /\ status'[p] \in {"connecting", "isolated"}
Connect(p) == status[p] = "connecting" /\ status'[p] = "connected"
End(p)     == status[p] # "none" /\ status'[p] = "none"

\* The command is cut off, or something else keeps it from connecting p.
Fail(p) == status[p] = "connecting" /\ disturbed' /\ status'[p] = "isolated"

\* cleanup deletes the interfaces of running processes, too.
Cut(p) == status[p] = "connected" /\ cleaning /\ status'[p] = "isolated"

\* Each process goes its own way; disturbances and cleanups come at any time.
Next ==
    /\ disturbed => disturbed'
    /\ \A p \in Processes :
          \/ Start(p) \/ Connect(p) \/ End(p) \/ Fail(p) \/ Cut(p)
          \/ status'[p] = status[p]

Spec == Init /\ [][Next]_vars
=============================================================================
