---------------------------- MODULE StreamValue ----------------------------
(***************************************************************************)
(* StreamId and StreamValue: the ids of stream entries, the id XADD gives  *)
(* to a new entry, and the entries XREAD returns.                          *)
(*                                                                         *)
(* Both parts of an id are unsigned numbers of a fixed width in the code   *)
(* (std::size_t), and ++ wraps to 0.  MaxMs and MaxSeq are their largest   *)
(* values.  A stream is a function from the ids of its entries to them.    *)
(***************************************************************************)
EXTENDS Integers

CONSTANTS MaxMs, MaxSeq

ASSUME StreamAssumption == MaxMs \in Nat /\ MaxSeq \in Nat \ {0}

Id == [ms : 0..MaxMs, id : 0..MaxSeq]
StreamId(ms, id) == [ms |-> ms, id |-> id]
Null == StreamId(0, 0)

(* StreamId::operator<                                                     *)
LessByMs(a, b) == a.ms < b.ms
Less(a, b) == \/ a.ms < b.ms
              \/ a.ms = b.ms /\ a.id < b.id

(* std::map keeps the entries in the order of Less.                        *)
Ids(data) == DOMAIN data
IsTop(data, i) == i \in Ids(data) /\ \A j \in Ids(data) : ~ Less(i, j)
Top(data) == CHOOSE i \in Ids(data) : IsTop(data, i)

(* StreamValue::last_id                                                    *)
LastId(data) == IF Ids(data) = {} THEN Null ELSE Top(data)

-----------------------------------------------------------------------------
(* The id of an XADD: explicit, with a wildcard for its second part, or *.  *)
InputId ==
    [kind : {"full"}, ms : 0..MaxMs, id : 0..MaxSeq]
      \cup [kind : {"id_wildcard"}, ms : 0..MaxMs] \cup [kind : {"general_wildcard"}]

Full(ms, id)    == [kind |-> "full", ms |-> ms, id |-> id]
IdWildcard(ms)  == [kind |-> "id_wildcard", ms |-> ms]
GeneralWildcard == [kind |-> "general_wildcard"]

(* ++last_id.id                                                            *)
Increment(i) == StreamId(i.ms, (i.id + 1) % (MaxSeq + 1))

(* What StreamValue::append refuses.  Only an explicit id is compared with *)
(* 0-0 and, whole, with the last id.                                       *)
AppendErrorBelow(data, in) ==
    IF in.kind = "full" /\ in.ms = 0 /\ in.id = 0
    THEN "MustBeNotZeroId"
    ELSE IF /\ Ids(data) # {}
            /\ \/ in.kind = "full" /\ Less(StreamId(in.ms, in.id), Top(data))
               \/ in.kind = "id_wildcard" /\ in.ms < Top(data).ms
         THEN "MustBeMoreThanTop"
         ELSE "None"

AppendError(data, in) ==
    IF in.kind = "full" /\ in.ms = 0 /\ in.id = 0
    THEN "MustBeNotZeroId"
    ELSE IF /\ Ids(data) # {}
            /\ \/ in.kind = "full" /\ ~ Less(Top(data), StreamId(in.ms, in.id))
               \/ in.kind = "id_wildcard" /\ in.ms < Top(data).ms
         THEN "MustBeMoreThanTop"
         ELSE "None"

(* The id an entry gets, when the system clock shows now.                  *)
AppendId(data, in, now) ==
    CASE in.kind = "full" -> StreamId(in.ms, in.id)
      [] in.kind = "id_wildcard" ->
           IF Ids(data) = {}
           THEN StreamId(in.ms, IF in.ms = 0 THEN 1 ELSE 0)
           ELSE IF in.ms = Top(data).ms THEN Increment(Top(data))
                                        ELSE StreamId(in.ms, 0)
      [] in.kind = "general_wildcard" ->
           IF Ids(data) # {} /\ now <= Top(data).ms
           THEN Increment(Top(data))
           ELSE StreamId(now, 0)

(* emplace_hint does not replace an entry that has the same id.            *)
Emplace(data, i, entry) ==
    [j \in Ids(data) \cup {i} |-> IF j \in Ids(data) THEN data[j] ELSE entry]

-----------------------------------------------------------------------------
(* The ids StreamValue::xread returns: from lower_bound on, which it skips *)
(* if it is the id asked for.                                              *)
XReadIdsFromBound(data, i) == {j \in Ids(data) : ~ Less(j, i)}
XReadIds(data, i) == {j \in Ids(data) : ~ Less(j, i)} \ {i}

(* The bounds of XRANGE: an id, - or +.  A bound that is no id is stored   *)
(* as 0-0, and stays that where the code does not look at its kind.        *)
BoundId == [kind : {"id"}, id : Id] \cup [kind : {"-", "+"}, id : {Null}]
At(i) == [kind |-> "id", id |-> i]
Leftmost == [kind |-> "-", id |-> Null]
Rightmost == [kind |-> "+", id |-> Null]

(* StreamValue::xrange: from lower_bound of the left bound, to upper_bound *)
(* of the right one.  Nothing compares the two bounds: the entries between *)
(* them, when the left one is the larger, make a range that ends before it *)
(* begins.                                                                 *)
FromLeft(data, left) == {j \in Ids(data) : ~ Less(j, left.id)}
BelowRight(data, right) == {j \in Ids(data) : right.kind = "+" \/ Less(j, right.id)}
ToRight(data, right) == {j \in Ids(data) : right.kind = "+" \/ ~ Less(right.id, j)}
XRangeIds(data, left, right) == FromLeft(data, left) \cap ToRight(data, right)
Overruns(data, left, right) == FromLeft(data, left) \cup ToRight(data, right) # Ids(data)
=============================================================================
