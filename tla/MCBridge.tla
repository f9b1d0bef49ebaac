------------------------------ MODULE MCBridge ------------------------------
(* Instances of Bridge for TLC. *)
EXTENDS Bridge, TLC

\* A load-balanced service, one that is not, and the gateway.  Pids 1 and 2 differ modulo 1000.
MCWorkloads   == {"second", "plain", "envoy"}
MCBridgeFirst == {"second", "plain"}
MCUnlinked    == {"plain"}
MCUnfiltered  == {"envoy"}
MCPrefix      == [w \in MCWorkloads |-> w]
MCResidue     == [p \in Pids |-> p]

\* Command slots and process ids are interchangeable.
Symmetry == Permutations(Cmds) \cup Permutations(Pids)
=============================================================================
