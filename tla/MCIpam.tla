------------------------------- MODULE MCIpam -------------------------------
(* Instances of Ipam for TLC. *)
EXTENDS Ipam, TLC

\* The processes are interchangeable (used where no liveness is checked).
ClientSymmetry == Permutations(Clients)
=============================================================================
