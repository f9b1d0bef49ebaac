---------------------------- MODULE AddressLease ----------------------------
(***************************************************************************)
(* What address management promises: a holder (a workload, in ppass) has   *)
(* at most one host address of the subnet, and no two holders ever have    *)
(* the same one.  This is the "conflict-free IP assignment across CLI      *)
(* invocations" of the repository's README, with granting and returning an *)
(* address as single steps.  Ipam and Paas are shown to implement it.      *)
(***************************************************************************)
CONSTANTS
    Holders,   \* who an address can be leased to
    Hosts,     \* the addresses that can be leased
    NoIp       \* the empty address: the holder has none

VARIABLE lease \* the address of every holder

LeaseTypeOK == lease \in [Holders -> Hosts \cup {NoIp}]

Init == lease = [h \in Holders |-> NoIp]

\* A holder without an address gets one that nobody has.
Grant(h) ==
    /\ lease[h] = NoIp
    /\ \E a \in Hosts :
          /\ \A x \in Holders : lease[x] # a
          /\ lease' = [lease EXCEPT ![h] = a]

\* A holder gives its address up.
Return(h) ==
    /\ lease[h] # NoIp
    /\ lease' = [lease EXCEPT ![h] = NoIp]

Next == \E h \in Holders : Grant(h) \/ Return(h)

Spec == Init /\ [][Next]_lease

\* No two holders have the same address.
Exclusive ==
    \A g, h \in Holders : g # h /\ lease[g] = lease[h] => lease[g] = NoIp
=============================================================================
