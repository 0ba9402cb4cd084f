---------------------------- MODULE MCReplication ----------------------------
(* Small instances of Replication for TLC.                                 *)
EXTENDS Replication, TLC

(* Replicas are interchangeable, and so are the identities of WAITs.       *)
Symmetry == Permutations(Replica) \cup Permutations(WaitId)
=============================================================================
