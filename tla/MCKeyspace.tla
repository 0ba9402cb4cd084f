----------------------------- MODULE MCKeyspace -----------------------------
(* A small instance of Keyspace for TLC.                                   *)
EXTENDS Keyspace

CONSTANTS k1, k2

(* The master's dump file has none, one or both keys, one of them to       *)
(* expire; the replica's own has nothing, or other values of both keys.    *)
Dumps == {[k \in Key |-> None],
          [k \in Key |-> Entry(-1, 0)],
          [k \in Key |-> IF k = k1 THEN Entry(-1, 2) ELSE None],
          [k \in Key |-> IF k = k1 THEN Entry(-1, 3) ELSE Entry(-1, 1)]}
OwnDumps == {[k \in Key |-> None],
             [k \in Key |-> IF k = k1 THEN Entry(-2, 0) ELSE Entry(-2, 2)]}
=============================================================================
