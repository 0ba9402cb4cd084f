---------------------------- MODULE WaitPromise ----------------------------
(***************************************************************************)
(* What WAIT promises its client, whatever offsets, acknowledgements and   *)
(* timers the master comes to its answer with: the answer is a number of   *)
(* replicas, among those there were, that hold every write pushed to them  *)
(* before, and it comes when there are enough or else when time is up.     *)
(***************************************************************************)
EXTENDS Integers, FiniteSets

CONSTANTS
    Replica,      \* the replicas there can be
    WaitId        \* one identity for each WAIT command

VARIABLES
    phase,        \* of a WAIT: idle, pending, acked or timeout
    expected,     \* how many replicas are enough
    members,      \* the replicas there were when it began
    holding,      \* those of them that hold the writes before it
    answer        \* the number it was answered with, -1 for none

vars == <<phase, expected, members, holding, answer>>

Init ==
    /\ phase = [w \in WaitId |-> "idle"]
    /\ expected = [w \in WaitId |-> 0]
    /\ members = [w \in WaitId |-> {}] /\ holding = [w \in WaitId |-> {}]
    /\ answer = [w \in WaitId |-> -1]

Others(w, f, g) == \A v \in WaitId \ {w} : g[v] = f[v]

(* Storage::get of some replica sees more, never less.                     *)
Receive ==
    /\ \A w \in WaitId : holding[w] \subseteq holding'[w] /\ holding'[w] \subseteq members[w]
    /\ UNCHANGED <<phase, expected, members, answer>>

(* wait_for: at most as many are waited for as there are.                  *)
Ask(w) ==
    /\ phase[w] = "idle"
    /\ members'[w] \subseteq Replica /\ holding'[w] \subseteq members'[w]
    /\ expected'[w] \in 0..Cardinality(members'[w])
    /\ \/ phase'[w] = "pending" /\ answer'[w] = -1
       \/ phase'[w] = "acked" /\ answer'[w] \in expected'[w]..Cardinality(holding'[w])
    /\ Others(w, phase, phase') /\ Others(w, expected, expected') /\ Others(w, members, members')
    /\ Others(w, holding, holding') /\ Others(w, answer, answer')

(* An acknowledgement may be the last one for several WAITs.               *)
Acknowledged ==
    /\ \A w \in WaitId :
          \/ phase'[w] = phase[w] /\ answer'[w] = answer[w]
          \/ /\ phase[w] = "pending" /\ phase'[w] = "acked"
             /\ answer'[w] \in expected[w]..Cardinality(holding[w])
    /\ UNCHANGED <<expected, members, holding>>

TimedOut(w) ==
    /\ phase[w] = "pending" /\ phase'[w] = "timeout"
    /\ answer'[w] \in 0..Cardinality(holding[w]) /\ answer'[w] < expected[w]
    /\ Others(w, phase, phase') /\ Others(w, answer, answer')
    /\ UNCHANGED <<expected, members, holding>>

Next == Receive \/ Acknowledged \/ \E w \in WaitId : Ask(w) \/ TimedOut(w)

Spec == Init /\ [][Next]_vars
=============================================================================
