---------------------------- MODULE MCConnections ----------------------------
(* Small instances of Connections for TLC.                                 *)
EXTENDS Connections

(* The connections are interchangeable.                                    *)
Symmetry == Permutations(Conn)
=============================================================================
