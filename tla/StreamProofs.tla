---------------------------- MODULE StreamProofs ----------------------------
(***************************************************************************)
(* Theorems of StreamValue and StreamStorage.                              *)
(*                                                                         *)
(* Ids: Less is a strict total order, so the last id XADD returned is the  *)
(* top of the stream.  As long as no second part comes to wrap, append     *)
(* then returns an id above it, and no entry is lost.                      *)
(*                                                                         *)
(* Waitlists: a handle with a callback is the one its reader waits for, so *)
(* that each XREAD is answered once; a handle that was answered has left   *)
(* every waitlist, if no request names a key twice; and no wake-up is lost *)
(* but to a handle that did not.                                           *)
(*                                                                         *)
(* Readers: a range of a stream is a stretch of what XADD returned for its *)
(* key.  So XRANGE gives back what was added, and an XREAD that goes on    *)
(* from the last id a reader has gives it the entries up to the newest     *)
(* one: if no request names a key twice and no string expires, nothing is  *)
(* lost or seen twice.                                                     *)
(* What a job was posted for follows every id its handles ask from, so     *)
(* that an XREAD for what comes next is woken only with data.              *)
(***************************************************************************)
EXTENDS StreamStorage, WellFoundedInduction, FiniteSetTheorems, FunctionTheorems, TLAPS

(* Ids are compared by ms, then by id: no id is less than itself.          *)
LEMMA LessIrreflexive == \A a \in Id : ~ Less(a, a)
  BY StreamAssumption DEF Id, Less

(* Less is transitive.                                                     *)
LEMMA LessTransitive ==
  \A a, b, c \in Id : Less(a, b) /\ Less(b, c) => Less(a, c)
  BY StreamAssumption DEF Id, Less

(* Any two ids are equal or one is less than the other.                    *)
LEMMA LessTotal == \A a, b \in Id : a = b \/ Less(a, b) \/ Less(b, a)
  <1> SUFFICES ASSUME NEW a \in Id, NEW b \in Id, ~ Less(a, b), ~ Less(b, a)
               PROVE  a = b
    OBVIOUS
  <1>1. a.ms \in Nat /\ a.id \in Nat /\ b.ms \in Nat /\ b.id \in Nat
    BY StreamAssumption DEF Id
  <1>2. a.ms = b.ms /\ a.id = b.id
    BY <1>1 DEF Less
  <1>3. a = [ms |-> a.ms, id |-> a.id] /\ b = [ms |-> b.ms, id |-> b.id]
    BY DEF Id
  <1> QED BY <1>2, <1>3

(* A stream has at most one top, which is what rbegin() finds.             *)
LEMMA TopIs ==
  ASSUME NEW data, NEW t \in Id, Ids(data) \subseteq Id, IsTop(data, t)
  PROVE  Top(data) = t
  <1>1. t \in Ids(data)
    BY DEF IsTop
  <1>2. Top(data) \in Ids(data) /\ IsTop(data, Top(data))
    BY <1>1 DEF Top
  <1> QED BY <1>1, <1>2, LessTotal DEF IsTop

(* StreamValue::append: an id it accepts for a stream is above the top, if *)
(* the second part of the top is not the largest there is.                 *)
LEMMA AppendAbove ==
  ASSUME NEW data, NEW t \in Id, Ids(data) \subseteq Id, IsTop(data, t),
         t.id < MaxSeq, NEW in \in InputId, NEW time \in 0..MaxMs,
         AppendError(data, in) = "None"
  PROVE  /\ AppendId(data, in, time) \in Id
         /\ Less(t, AppendId(data, in, time))
  <1>1. Top(data) = t /\ Ids(data) # {}
    BY TopIs DEF IsTop
  <1>2. t.ms \in 0..MaxMs /\ t.id \in 0..MaxSeq
    BY DEF Id
  <1>3. Increment(t) \in Id /\ Less(t, Increment(t))
    <2>1. Increment(t) = [ms |-> t.ms, id |-> t.id + 1]
      <3>1. t.id + 1 \in 0..MaxSeq
        BY <1>2, StreamAssumption
      <3> QED BY <3>1, StreamAssumption DEF Increment, StreamId
    <2> QED BY <2>1, <1>2, StreamAssumption DEF Id, Less
  <1>4. CASE in.kind = "full"
    <2>1. AppendId(data, in, time) = StreamId(in.ms, in.id)
      BY <1>4 DEF AppendId
    <2>2. in.ms \in 0..MaxMs /\ in.id \in 0..MaxSeq
      BY <1>4 DEF InputId
    <2>3. Less(t, StreamId(in.ms, in.id))
      BY <1>1, <1>4 DEF AppendError
    <2> QED BY <2>1, <2>2, <2>3 DEF Id, StreamId
  <1>5. CASE in.kind = "id_wildcard"
    <2>1. in.ms \in 0..MaxMs
      BY <1>5 DEF InputId
    <2>2. ~ in.ms < t.ms
      BY <1>1, <1>5 DEF AppendError
    <2>3. AppendId(data, in, time) =
            IF in.ms = t.ms THEN Increment(t) ELSE StreamId(in.ms, 0)
      BY <1>1, <1>5 DEF AppendId
    <2>4. CASE in.ms = t.ms
      BY <2>3, <2>4, <1>3
    <2>5. CASE in.ms # t.ms
      BY <2>1, <2>2, <2>3, <2>5, <1>2, StreamAssumption DEF Id, Less, StreamId
    <2> QED BY <2>4, <2>5
  <1>6. CASE in.kind = "general_wildcard"
    <2>1. AppendId(data, in, time) =
            IF time <= t.ms THEN Increment(t) ELSE StreamId(time, 0)
      BY <1>1, <1>6 DEF AppendId
    <2>2. CASE time <= t.ms
      BY <2>1, <2>2, <1>3
    <2>3. CASE ~ time <= t.ms
      BY <2>1, <2>3, <1>2, StreamAssumption DEF Id, Less, StreamId
    <2> QED BY <2>2, <2>3
  <1> QED BY <1>4, <1>5, <1>6 DEF InputId

(* The id of the first entry of a stream.                                  *)
LEMMA AppendFirst ==
  ASSUME NEW data, Ids(data) = {}, NEW in \in InputId, NEW time \in 0..MaxMs
  PROVE  /\ AppendId(data, in, time) \in Id
         /\ AppendId(data, in, time).id <= IF in.kind = "full" THEN in.id ELSE 1
  <1>1. CASE in.kind = "full"
    BY <1>1, StreamAssumption DEF InputId, AppendId, StreamId, Id
  <1>2. CASE in.kind = "id_wildcard"
    BY <1>2, StreamAssumption DEF InputId, AppendId, StreamId, Id
  <1>3. CASE in.kind = "general_wildcard"
    BY <1>3, StreamAssumption DEF InputId, AppendId, StreamId, Id
  <1> QED BY <1>1, <1>2, <1>3 DEF InputId

-----------------------------------------------------------------------------
(* The ids a stream returned.                                              *)

(* No explicit id comes so near to the largest second part that the XADDs  *)
(* that follow it could make it wrap.                                      *)
NoWrap ==
    /\ MaxAdds <= MaxSeq
    /\ \A in \in Input : in.kind = "full" => in.id + MaxAdds <= MaxSeq

(* What XADD returned for a key is, in order, what its stream holds, and   *)
(* there is room for the XADDs still to come.                              *)
Kept(k) ==
    /\ stored[k].type \in {"none", "string", "stream"}
    /\ log[k] \in Seq(Id) /\ Len(log[k]) <= MaxAdds
    /\ \A i, j \in 1..Len(log[k]) : i < j => Less(log[k][i], log[k][j])
    /\ \A i \in 1..Len(log[k]) : log[k][i].id + MaxAdds - Len(log[k]) <= MaxSeq
    /\ stored[k].type = "none" => log[k] = <<>>
    /\ IsStream(k) =>
          /\ log[k] # <<>>
          /\ Ids(stored[k].data) = {log[k][i] : i \in 1..Len(log[k])}
          /\ \A i \in 1..Len(log[k]) : stored[k].data[log[k][i]] = i

AllKept == DOMAIN stored = Key /\ DOMAIN log = Key /\ \A k \in Key : Kept(k)

(* Whatever an XADD does to a key, the id it appends keeps Kept.           *)
LEMMA XAddId ==
  ASSUME NoWrap, NEW k \in Key, Kept(k), stored[k].type # "string",
         NEW in \in Input, NEW time \in 1..MaxMs, Len(log[k]) < MaxAdds,
         AppendError(Data(k), in) = "None",
         NEW id, id = AppendId(Data(k), in, time)
  PROVE  /\ id \in Id
         /\ id.id + MaxAdds - (Len(log[k]) + 1) <= MaxSeq
         /\ \A i \in 1..Len(log[k]) : Less(log[k][i], id)
         /\ Ids(Data(k)) = {log[k][i] : i \in 1..Len(log[k])}
         /\ \A i \in 1..Len(log[k]) : Data(k)[log[k][i]] = i
  <1> DEFINE n == Len(log[k])
  <1>0. /\ in \in InputId /\ time \in 0..MaxMs /\ n \in Nat
        /\ MaxAdds \in Nat /\ MaxSeq \in Nat /\ MaxMs \in Nat
    BY StorageAssumption, StreamAssumption DEF Kept
  <1>1. CASE stored[k].type = "none"
    <2>1. Ids(Data(k)) = {} /\ n = 0 /\ log[k] = <<>>
      BY <1>1 DEF Data, IsStream, Empty, Ids, Kept
    <2>2. id \in Id /\ id.id <= IF in.kind = "full" THEN in.id ELSE 1
      BY <2>1, <1>0, AppendFirst
    <2>3. id.id \in Nat
      BY <2>2, <1>0 DEF Id
    <2>4. id.id + MaxAdds - 1 <= MaxSeq
      <3>1. CASE in.kind = "full"
        <4>1. in.id + MaxAdds <= MaxSeq /\ in.id \in 0..MaxSeq
          BY <3>1, <1>0 DEF NoWrap, InputId
        <4> QED BY <4>1, <2>2, <2>3, <3>1, <1>0
      <3>2. CASE in.kind # "full"
        BY <3>2, <2>2, <2>3, <1>0 DEF NoWrap
      <3> QED BY <3>1, <3>2
    <2> QED BY <2>1, <2>2, <2>4, <1>0
  <1>2. CASE IsStream(k)
    <2> DEFINE t == log[k][n]
    <2>1. n \in 1..n /\ log[k] \in Seq(Id) /\ Data(k) = stored[k].data
      BY <1>0, <1>2 DEF Kept, Data
    <2>2. t \in Id /\ \A i \in 1..n : log[k][i] \in Id
      BY <2>1
    <2>3. Ids(Data(k)) = {log[k][i] : i \in 1..n}
      BY <1>2, <2>1 DEF Kept
    <2>4. \A i \in 1..n : log[k][i] = t \/ Less(log[k][i], t)
      BY <2>1, <1>0 DEF Kept
    <2>5. IsTop(Data(k), t)
      <3>1. ASSUME NEW i \in 1..n PROVE ~ Less(t, log[k][i])
        BY <2>2, <2>4, LessIrreflexive, LessTransitive
      <3> QED BY <3>1, <2>1, <2>3 DEF IsTop
    <2>6. t.id + MaxAdds - n <= MaxSeq /\ t.id \in Nat
      BY <2>1, <2>2, <1>0 DEF Kept, Id
    <2>7. t.id < MaxSeq
      BY <2>6, <1>0
    <2>8. id \in Id /\ Less(t, id)
      BY <2>2, <2>3, <2>5, <2>7, <1>0, AppendAbove
    <2>9. \A i \in 1..n : Less(log[k][i], id)
      BY <2>2, <2>4, <2>8, LessTransitive
    <2>10. id.id + MaxAdds - (n + 1) <= MaxSeq
      <3>1. Top(Data(k)) = t /\ Ids(Data(k)) # {}
        BY <2>2, <2>3, <2>5, TopIs DEF IsTop
      <3>2. Increment(t).id = t.id + 1
        <4>2. t.id \in Nat /\ MaxSeq \in Nat
          BY <2>6, <1>0
        <4>1. t.id + 1 \in 0..MaxSeq
          BY <4>2, <2>7
        <4> QED BY <4>1, <1>0 DEF Increment, StreamId
      <3>3. CASE in.kind = "full"
        <4>1. id.id = in.id
          BY <3>3 DEF AppendId, StreamId
        <4>2. in.id + MaxAdds <= MaxSeq /\ in.id \in 0..MaxSeq
          BY <3>3, <1>0 DEF NoWrap, InputId
        <4> QED BY <4>1, <4>2, <1>0
      <3>4. CASE in.kind # "full"
        <4>1. id.id = t.id + 1 \/ id.id = 0
          BY <3>1, <3>2, <3>4, <1>0 DEF AppendId, StreamId, InputId
        <4> QED BY <4>1, <2>6, <1>0 DEF NoWrap
      <3> QED BY <3>3, <3>4
    <2> QED BY <2>1, <2>3, <2>8, <2>9, <2>10, <1>2 DEF Kept
  <1> QED BY <1>1, <1>2 DEF IsStream, Kept

(* An XADD keeps Kept for its key.                                         *)
LEMMA XAddKeeps ==
  ASSUME NoWrap, AllKept, NEW k \in Key, NEW in \in Input, NEW time \in 1..MaxMs,
         XAdd(k, in, time)
  PROVE  Kept(k)'
  <1> DEFINE id == AppendId(Data(k), in, time)
             n == Len(log[k])
  <1>1. /\ id \in Id
        /\ id.id + MaxAdds - (n + 1) <= MaxSeq
        /\ \A i \in 1..n : Less(log[k][i], id)
        /\ Ids(Data(k)) = {log[k][i] : i \in 1..n}
        /\ \A i \in 1..n : Data(k)[log[k][i]] = i
    BY XAddId DEF XAdd, AllKept
  <1>2. /\ log'[k] = Append(log[k], id)
        /\ stored'[k] = Stream(Emplace(Data(k), id, n + 1))
        /\ n < MaxAdds /\ log[k] \in Seq(Id) /\ n \in Nat /\ MaxAdds \in Nat /\ MaxSeq \in Nat
    BY StorageAssumption, StreamAssumption DEF XAdd, AllKept, Kept
  <1>3. /\ log'[k] \in Seq(Id) /\ Len(log'[k]) = n + 1
        /\ log'[k][n + 1] = id /\ \A i \in 1..n : log'[k][i] = log[k][i]
    BY <1>1, <1>2
  <1>4. \A i \in 1..n : log[k][i] \in Id /\ log[k][i] # id
    BY <1>1, <1>2, LessIrreflexive
  <1>5. \A i, j \in 1..n + 1 : i < j => Less(log'[k][i], log'[k][j])
    <2> SUFFICES ASSUME NEW i \in 1..n + 1, NEW j \in 1..n + 1, i < j
                 PROVE  Less(log'[k][i], log'[k][j])
      OBVIOUS
    <2>1. i \in 1..n /\ (j \in 1..n \/ j = n + 1)
      BY <1>2
    <2> QED BY <2>1, <1>1, <1>3 DEF AllKept, Kept
  <1>6. \A i \in 1..n + 1 : log'[k][i].id + MaxAdds - (n + 1) <= MaxSeq
    <2> SUFFICES ASSUME NEW i \in 1..n + 1
                 PROVE  log'[k][i].id + MaxAdds - (n + 1) <= MaxSeq
      OBVIOUS
    <2>1. CASE i = n + 1
      BY <2>1, <1>1, <1>3
    <2>2. CASE i # n + 1
      <3>1. i \in 1..n
        BY <2>2, <1>2
      <3>2. log[k][i].id \in Nat /\ log[k][i].id + MaxAdds - n <= MaxSeq
        BY <3>1, <1>4, StreamAssumption DEF AllKept, Kept, Id
      <3> QED BY <3>1, <3>2, <1>2, <1>3
    <2> QED BY <2>1, <2>2
  <1>7. stored'[k].type = "stream" /\ stored'[k].data = Emplace(Data(k), id, n + 1)
    BY <1>2 DEF Stream
  <1>8. Ids(stored'[k].data) = {log'[k][i] : i \in 1..n + 1}
    <2>1. Ids(stored'[k].data) = Ids(Data(k)) \cup {id}
      BY <1>7 DEF Ids, Emplace
    <2>2. \A i : i \in 1..n + 1 <=> i \in 1..n \/ i = n + 1
      BY <1>2
    <2>3. Ids(Data(k)) = {log[k][i] : i \in 1..n}
      BY <1>1
    <2>4. ASSUME NEW x \in Ids(stored'[k].data) PROVE x \in {log'[k][i] : i \in 1..n + 1}
      <3>1. CASE x = id
        <4>1. n + 1 \in 1..n + 1
          BY <1>2
        <4> QED BY <4>1, <3>1, <1>3
      <3>2. CASE x # id
        <4>1. PICK i \in 1..n : x = log[k][i]
          BY <2>1, <2>3, <2>4, <3>2
        <4> QED BY <4>1, <2>2, <1>3
      <3> QED BY <3>1, <3>2
    <2>5. ASSUME NEW i \in 1..n + 1 PROVE log'[k][i] \in Ids(stored'[k].data)
      BY <2>1, <2>2, <2>3, <2>5, <1>3
    <2> QED BY <2>4, <2>5
  <1>9. \A i \in 1..n + 1 : stored'[k].data[log'[k][i]] = i
    <2> SUFFICES ASSUME NEW i \in 1..n + 1 PROVE stored'[k].data[log'[k][i]] = i
      OBVIOUS
    <2>1. CASE i = n + 1
      <3>1. id \notin Ids(Data(k))
        BY <1>1, <1>4
      <3> QED BY <3>1, <2>1, <1>3, <1>7 DEF Emplace, Ids
    <2>2. CASE i # n + 1
      <3>1. i \in 1..n
        BY <2>2, <1>2
      <3>2. log[k][i] \in Ids(Data(k))
        BY <3>1, <1>1
      <3> QED BY <3>1, <3>2, <1>1, <1>3, <1>7 DEF Emplace, Ids
    <2> QED BY <2>1, <2>2
  <1>10. log'[k] # <<>> /\ n + 1 <= MaxAdds
    BY <1>2, <1>3
  <1> QED BY <1>3, <1>5, <1>6, <1>7, <1>8, <1>9, <1>10 DEF Kept, IsStream

(* A SET takes the place of a stream, or a GET erases the string that did. *)
Replaced(k) == (\E px \in BOOLEAN : Set(k, px)) \/ Get(k)

(* No string expires: GET then erases nothing, and a key that was SET      *)
(* never holds a stream again.                                             *)
NoExpiry == PxKey = {}

(* Either leaves k without a stream, and nobody is told.                   *)
LEMMA ReplacedIs ==
  ASSUME DOMAIN stored = Key, NEW k \in Key, Replaced(k)
  PROVE  /\ DOMAIN stored' = Key /\ stored'[k].type # "stream" /\ Data(k)' = Empty
         /\ \A l \in Key : l # k => stored'[l] = stored[l] /\ Data(l)' = Data(l)
         /\ DOMAIN log = Key =>
               /\ DOMAIN log' = Key
               /\ \/ stored'[k].type = "string" /\ log'[k] = log[k]
                  \/ stored'[k].type = "none" /\ log'[k] = <<>>
               /\ \A l \in Key : l # k => log'[l] = log[l]
         /\ UNCHANGED <<defined, jobs, waitlist, handle, nreads, reader>>
  <1>1. /\ DOMAIN stored' = Key /\ stored'[k].type # "stream"
        /\ \A l \in Key : l # k => stored'[l] = stored[l]
        /\ UNCHANGED <<defined, jobs, waitlist, handle, nreads, reader>>
    BY DEF Replaced, Set, Get, Text
  <1>2. DOMAIN log = Key =>
           /\ DOMAIN log' = Key
           /\ \/ stored'[k].type = "string" /\ log'[k] = log[k]
              \/ stored'[k].type = "none" /\ log'[k] = <<>>
           /\ \A l \in Key : l # k => log'[l] = log[l]
    BY DEF Replaced, Set, Get, Text
  <1>3. Data(k)' = Empty /\ \A l \in Key : l # k => Data(l)' = Data(l)
    BY <1>1 DEF Data, IsStream
  <1> QED BY <1>1, <1>2, <1>3

(* No step but an XADD, a SET or a GET changes what is stored.             *)
LEMMA StoredStep ==
  ASSUME [Next]_vars
  PROVE  \/ \E k \in Key, in \in Input, time \in 1..MaxMs : XAdd(k, in, time)
         \/ \E k \in Key : Replaced(k) /\ (NoExpiry => \E px \in BOOLEAN : Set(k, px))
         \/ UNCHANGED storageVars
  <1>1. CASE UNCHANGED vars
    BY <1>1 DEF vars
  <1>2. ASSUME NEW c \in Reader, NEW keys \in Request, NEW from \in From,
               XReadAtOnce(c, keys, from) \/ \E ms \in Timeout : XReadBlocks(c, keys, from, ms)
        PROVE  UNCHANGED storageVars
    BY <1>2 DEF XReadAtOnce, XReadBlocks
  <1>3. ASSUME NEW c \in Reader, NEW keys \in Request, XReadMiscasts(c, keys)
        PROVE  UNCHANGED storageVars
    BY <1>3 DEF XReadMiscasts
  <1>4. ASSUME RunJob PROVE UNCHANGED storageVars
    BY <1>4 DEF RunJob
  <1>5. ASSUME NEW h \in Handle, RunTimeout(h) PROVE UNCHANGED storageVars
    BY <1>5 DEF RunTimeout
  <1>6. ASSUME JobsDone \/ PollDone \/ TimeoutsDone \/ Tick PROVE UNCHANGED storageVars
    BY <1>6 DEF JobsDone, PollDone, TimeoutsDone, Tick, Turn
  <1>7. ASSUME NEW k \in Key, NEW left \in Bound, NEW right \in Bound,
               XRangeUndefined(k, left, right)
        PROVE  UNCHANGED storageVars
    BY <1>7 DEF XRangeUndefined
  <1>8. ASSUME NEW k \in SetKey \cup PxKey, NEW px \in BOOLEAN, Set(k, px)
        PROVE  \E l \in Key : Replaced(l) /\ \E q \in BOOLEAN : Set(l, q)
    BY <1>8, StorageAssumption DEF Replaced
  <1>9. ASSUME NEW k \in PxKey, Get(k) PROVE \E l \in Key : Replaced(l) /\ ~ NoExpiry
    BY <1>9, StorageAssumption DEF Replaced, NoExpiry
  <1> QED BY <1>1, <1>2, <1>3, <1>4, <1>5, <1>6, <1>7, <1>8, <1>9 DEF Next

(* Nothing is stored at first.                                             *)
LEMMA KeptInit == Init => AllKept
  BY StorageAssumption DEF Init, AllKept, Kept, IsStream

(* Every step keeps what is stored for every key.                          *)
LEMMA KeptStep == ASSUME NoWrap, AllKept, [Next]_vars PROVE AllKept'
  <1>1. ASSUME NEW k \in Key, NEW in \in Input, NEW time \in 1..MaxMs, XAdd(k, in, time)
        PROVE  AllKept'
    <2>1. Kept(k)'
      BY <1>1, XAddKeeps
    <2>2. ASSUME NEW l \in Key, l # k PROVE Kept(l)'
      <3>1. stored'[l] = stored[l] /\ log'[l] = log[l]
        BY <1>1, <2>2 DEF XAdd, AllKept
      <3>2. Kept(l)
        BY DEF AllKept
      <3> QED BY <3>1, <3>2 DEF Kept, IsStream
    <2>3. DOMAIN stored' = Key /\ DOMAIN log' = Key
      BY <1>1 DEF XAdd, AllKept
    <2> QED BY <2>1, <2>2, <2>3 DEF AllKept
  <1>2. ASSUME NEW k \in Key, Replaced(k) PROVE AllKept'
    <2>1. /\ DOMAIN stored' = Key /\ DOMAIN log' = Key /\ stored'[k].type # "stream"
          /\ \/ stored'[k].type = "string" /\ log'[k] = log[k]
             \/ stored'[k].type = "none" /\ log'[k] = <<>>
          /\ \A l \in Key : l # k => stored'[l] = stored[l] /\ log'[l] = log[l]
      BY <1>2, ReplacedIs DEF AllKept
    <2>2. ASSUME NEW l \in Key PROVE Kept(l)'
      <3>0. Kept(l)
        BY DEF AllKept
      <3>1. CASE l = k /\ stored'[k].type = "string" /\ log'[k] = log[k]
        BY <2>1, <3>0, <3>1 DEF Kept, IsStream
      <3>2. CASE l = k /\ stored'[k].type = "none" /\ log'[k] = <<>>
        BY <2>1, <3>2, StorageAssumption DEF Kept, IsStream
      <3>3. CASE l # k
        <4>1. stored'[l] = stored[l] /\ log'[l] = log[l]
          BY <2>1, <3>3
        <4> QED BY <3>0, <4>1 DEF Kept, IsStream
      <3> QED BY <2>1, <3>1, <3>2, <3>3
    <2> QED BY <2>1, <2>2 DEF AllKept
  <1>3. CASE UNCHANGED storageVars
    BY <1>3 DEF storageVars, AllKept, Kept, IsStream
  <1> QED BY <1>1, <1>2, <1>3, StoredStep

(* What every XADD returned is kept, for any keys, readers and inputs that *)
(* leave room below the largest second part.                               *)
THEOREM KeptCorrect == ASSUME NoWrap PROVE Spec => []AllKept
  <1>1. AllKept /\ [Next]_vars => AllKept'
    BY KeptStep
  <1> QED BY KeptInit, <1>1, PTL DEF Spec

(* The ids XADD returns for a key only go up, whatever mix of explicit     *)
(* ids, wildcards and clock readings they come from, until GET erases the  *)
(* string that took the stream's place; for any keys of SET, and SET PX.   *)
THEOREM IdsIncrease == ASSUME NoWrap PROVE Spec => []ReturnedIdsIncrease
  <1>1. AllKept => ReturnedIdsIncrease
    BY DEF AllKept, Kept, ReturnedIdsIncrease
  <1> QED BY KeptCorrect, <1>1, PTL

(* An entry whose XADD was answered with an id is in the stream under that *)
(* id, and no other entry took its place; and a stream begun anew holds    *)
(* what was added since, and nothing else.                                 *)
THEOREM IdsStored == ASSUME NoWrap PROVE Spec => []ReturnedIsStored
  <1>1. AllKept => ReturnedIsStored
    <2> SUFFICES ASSUME AllKept, NEW k \in Key, IsStream(k)
                 PROVE  /\ \A i \in DOMAIN log[k] :
                              log[k][i] \in Ids(Data(k)) /\ Data(k)[log[k][i]] = i
                        /\ \A i \in Ids(Data(k)) : log[k][Data(k)[i]] = i
      BY DEF ReturnedIsStored
    <2>1. Data(k) = stored[k].data /\ DOMAIN log[k] = 1..Len(log[k])
      BY DEF Data, AllKept, Kept
    <2>2. Kept(k)
      BY DEF AllKept
    <2>3. ASSUME NEW i \in DOMAIN log[k]
          PROVE  log[k][i] \in Ids(Data(k)) /\ Data(k)[log[k][i]] = i
      BY <2>1, <2>2 DEF Kept
    <2>4. ASSUME NEW j \in Ids(Data(k)) PROVE log[k][Data(k)[j]] = j
      <3>1. PICK i \in 1..Len(log[k]) : j = log[k][i]
        BY <2>1, <2>2 DEF Kept
      <3> QED BY <3>1, <2>1, <2>3
    <2> QED BY <2>3, <2>4
  <1> QED BY KeptCorrect, <1>1, PTL

-----------------------------------------------------------------------------
(* Sequences.                                                              *)

(* A set of indices that is not empty has a largest one.                   *)
LEMMA LastIndex ==
  ASSUME NEW n \in Nat, NEW I, I \subseteq 1..n, I # {}
  PROVE  \E i \in I : \A j \in I : j <= i
  <1> DEFINE T == {n - i : i \in I}
  <1>1. T \subseteq Nat /\ T # {}
    <2>1. \A i \in I : i \in 1..n
      OBVIOUS
    <2>2. \A i \in 1..n : n - i \in Nat
      OBVIOUS
    <2> QED BY <2>1, <2>2
  <1>2. PICK m \in T : \A y \in T : ~ (<<y, m>> \in OpToRel(<, Nat))
    BY <1>1, NatLessThanWellFounded, WFMin
  <1>3. PICK i \in I : m = n - i
    OBVIOUS
  <1>4. ASSUME NEW j \in I PROVE j <= i
    <2>1. n - j \in T /\ n - j \in Nat /\ m \in Nat
      BY <1>1
    <2>2. ~ (n - j < m)
      BY <2>1, <1>2 DEF OpToRel
    <2>3. i \in Int /\ j \in Int
      OBVIOUS
    <2> QED BY <2>2, <2>3, <1>3
  <1> QED BY <1>4

(* The last place of h in a waitlist it is in.                             *)
LEMMA LastOfIs ==
  ASSUME NEW S, NEW s \in Seq(S), NEW h, h \in Range(s)
  PROVE  LastOf(s, h) \in 1..Len(s) /\ s[LastOf(s, h)] = h
  <1> DEFINE I == {i \in DOMAIN s : s[i] = h}
  <1>1. I \subseteq 1..Len(s) /\ I # {} /\ Len(s) \in Nat /\ DOMAIN s = 1..Len(s)
    BY DEF Range
  <1>2. PICK i \in I : \A j \in I : j <= i
    BY <1>1, LastIndex
  <1>3. i \in DOMAIN s /\ s[i] = h /\ \A j \in DOMAIN s : s[j] = h => j <= i
    BY <1>2
  <1> QED BY <1>1, <1>3 DEF LastOf

(* The concatenation of two sequences.                                     *)
LEMMA Concatenated ==
  ASSUME NEW S, NEW a \in Seq(S), NEW b \in Seq(S)
  PROVE  /\ a \o b \in Seq(S) /\ Len(a \o b) = Len(a) + Len(b)
         /\ \A j \in 1..Len(a) : (a \o b)[j] = a[j]
         /\ \A j \in 1..Len(b) : (a \o b)[Len(a) + j] = b[j]
  OBVIOUS

(* An element of a sequence.                                               *)
LEMMA ElementType == ASSUME NEW S, NEW s \in Seq(S), NEW i \in DOMAIN s PROVE s[i] \in S
  OBVIOUS

(* The same, with the indices as numbers.                                  *)
LEMMA ElementAt == ASSUME NEW S, NEW s \in Seq(S), NEW i \in 1..Len(s) PROVE s[i] \in S
  OBVIOUS

(* A sequence over a set is one over a larger set.                         *)
LEMMA SeqWidens == ASSUME NEW S, NEW T, S \subseteq T, NEW s \in Seq(S) PROVE s \in Seq(T)
  OBVIOUS

(* A sequence with one element removed.                                    *)
LEMMA Removed ==
  ASSUME NEW S, NEW s \in Seq(S), NEW i \in 1..Len(s)
  PROVE  /\ RemoveAt(s, i) \in Seq(S)
         /\ Len(RemoveAt(s, i)) = Len(s) - 1
         /\ \A j \in 1..Len(s) - 1 :
              RemoveAt(s, i)[j] = IF j < i THEN s[j] ELSE s[j + 1]
  <1> DEFINE l == SubSeq(s, 1, i - 1)
             r == SubSeq(s, i + 1, Len(s))
  <1>1. l \in Seq(S) /\ Len(l) = i - 1 /\ \A j \in 1..i - 1 : l[j] = s[j]
    OBVIOUS
  <1>2. r \in Seq(S) /\ Len(r) = Len(s) - i /\ \A j \in 1..Len(s) - i : r[j] = s[i + j]
    OBVIOUS
  <1>3. RemoveAt(s, i) = l \o r
    BY DEF RemoveAt
  <1> HIDE DEF l, r
  <1>4. l \o r \in Seq(S) /\ Len(l \o r) = Len(s) - 1
    <2>1. l \o r \in Seq(S) /\ Len(l \o r) = Len(l) + Len(r)
      BY <1>1, <1>2, Concatenated
    <2>2. Len(s) \in Nat /\ i \in Int
      OBVIOUS
    <2> QED BY <2>1, <2>2, <1>1, <1>2
  <1>5. ASSUME NEW j \in 1..Len(s) - 1
        PROVE  (l \o r)[j] = IF j < i THEN s[j] ELSE s[j + 1]
    <2>1. CASE j < i
      <3>1. j \in 1..i - 1
        BY <2>1
      <3> QED BY <3>1, <2>1, <1>1, <1>2, Concatenated
    <2>2. CASE ~ j < i
      <3> DEFINE m == j - (i - 1)
      <3>1. m \in 1..Len(s) - i /\ j = (i - 1) + m /\ i + m = j + 1
        BY <2>2
      <3>2. (l \o r)[Len(l) + m] = r[m]
        BY <3>1, <1>1, <1>2, Concatenated
      <3>3. r[m] = s[i + m]
        BY <3>1, <1>2
      <3> QED BY <3>1, <3>2, <3>3, <2>2, <1>1
    <2> QED BY <2>1, <2>2
  <1> QED BY <1>3, <1>4, <1>5

(* A handle that leaves a waitlist.                                        *)
LEMMA LeaveType ==
  ASSUME NEW S, NEW s \in Seq(S), NEW h
  PROVE  Leave(s, h) \in Seq(S)
  BY LastOfIs, Removed DEF Leave

(* A handle that joins a waitlist: as many times as its request names the  *)
(* key.                                                                    *)
LEMMA JoinedType ==
  ASSUME NEW S, NEW k, waitlist[k] \in Seq(S), NEW h \in S, NEW keys \in Request
  PROVE  Joined(h, keys, k) \in Seq(S)
  <1> DEFINE named == {j \in DOMAIN keys : keys[j] = k}
             new == [i \in 1..Cardinality(named) |-> h]
  <1>1. IsFiniteSet(named)
    <2>1. keys \in Seq(Key)
      BY StorageAssumption
    <2>2. Len(keys) \in Nat /\ DOMAIN keys = 1..Len(keys)
      BY <2>1
    <2>3. IsFiniteSet(1..Len(keys))
      BY <2>2, FS_Interval
    <2> QED BY <2>2, <2>3, FS_Subset
  <1>2. Cardinality(named) \in Nat
    BY <1>1, FS_CardinalityType
  <1>3. new \in Seq(S)
    BY <1>2
  <1> HIDE DEF new
  <1>4. waitlist[k] \o new \in Seq(S)
    BY <1>3
  <1> QED BY <1>4 DEF Joined, new

-----------------------------------------------------------------------------
(* Each XREAD is answered once.                                            *)

HandleFields == {"reader", "request", "deadline", "callback"}
ReaderFields == {"handle", "last", "base", "cursor", "seen"}

(* What the parts of the state are, as far as it is needed below.          *)
Shape ==
    /\ nreads \in 0..MaxReads
    /\ DOMAIN waitlist = Key /\ \A k \in Key : waitlist[k] \in Seq(1..nreads)
    /\ DOMAIN handle = Handle /\ \A h \in Handle : DOMAIN handle[h] = HandleFields
    /\ DOMAIN reader = Reader /\ \A c \in Reader : DOMAIN reader[c] = ReaderFields

(* A handle that still has its callback was set up, and is the one its     *)
(* reader waits for.                                                       *)
Linked ==
    \A h \in Handle : handle[h].callback =>
        h \in 1..nreads /\ handle[h].reader \in Reader
        /\ reader[handle[h].reader].handle = h

(* The state at first.                                                     *)
LEMMA LinkedInit == Init => Shape /\ Linked
  <1> SUFFICES ASSUME Init PROVE Shape /\ Linked
    OBVIOUS
  <1>1. nreads \in 0..MaxReads
    BY StorageAssumption DEF Init
  <1>2. Shape
    BY <1>1 DEF Init, Shape, NoHandle, NewReader, HandleFields, ReaderFields
  <1>3. Linked
    BY DEF Init, Linked, NoHandle
  <1> QED BY <1>2, <1>3

(* A handle in a waitlist is a handle.                                     *)
LEMMA AliveIsHandle ==
  ASSUME Shape, NEW h, Alive(h)
  PROVE  h \in 1..nreads /\ h \in Handle
  <1>1. PICK k \in Key : h \in Range(waitlist[k])
    BY DEF Alive
  <1>2. waitlist[k] \in Seq(1..nreads)
    BY DEF Shape
  <1>3. h \in 1..nreads
    <2>1. PICK i \in DOMAIN waitlist[k] : h = waitlist[k][i]
      BY <1>1 DEF Range
    <2> QED BY <1>2, <2>1, ElementType
  <1> QED BY <1>3, StorageAssumption DEF Shape, Handle

(* A reader that receives a result waits for no handle.                    *)
LEMMA Received ==
  ASSUME NEW r, DOMAIN r = ReaderFields, NEW request, NEW how
  PROVE  /\ DOMAIN Receive(r, request, how) = ReaderFields
         /\ Receive(r, request, how).handle = 0
  BY DEF Receive, ReaderFields

(* A reader that starts anew, or goes on, waits for the handle it did.     *)
LEMMA Started ==
  ASSUME Shape, NEW c \in Reader, NEW request, NEW from
  PROVE  DOMAIN Starts(c, request, from) = ReaderFields
  BY DEF Shape, Starts, Restart, ReaderFields

(* The answer to a blocked XREAD, by a job or by its timeout.              *)
LEMMA ReplyLinked ==
  ASSUME Shape, Linked, NEW h \in Handle, NEW how, Reply(h, how), UNCHANGED nreads
  PROVE  Shape' /\ Linked'
  <1> DEFINE c == handle[h].reader
  <1>1. c \in Reader /\ reader[c].handle = h /\ h \in 1..nreads
    BY DEF Reply, Linked
  <1>2. /\ DOMAIN reader' = Reader
        /\ reader'[c] = Receive(reader[c], handle[h].request, how)
        /\ \A d \in Reader : d # c => reader'[d] = reader[d]
    BY <1>1 DEF Reply, Shape
  <1>3. /\ DOMAIN handle' = Handle
        /\ handle'[h] = [handle[h] EXCEPT !.callback = FALSE, !.request = <<>>]
        /\ \A g \in Handle : g # h => handle'[g] = handle[g]
    BY DEF Reply, Shape
  <1>4. DOMAIN waitlist' = Key /\ \A k \in Key : waitlist'[k] \in Seq(1..nreads)
    BY LeaveType DEF Reply, Shape
  <1>5. /\ \A d \in Reader : DOMAIN reader'[d] = ReaderFields
        /\ reader'[c].handle = 0
    BY <1>1, <1>2, Received DEF Shape
  <1>6. /\ \A g \in Handle : DOMAIN handle'[g] = HandleFields
        /\ handle'[h].callback = FALSE
    BY <1>3 DEF Shape, HandleFields
  <1>7. Shape'
    BY <1>2, <1>3, <1>4, <1>5, <1>6 DEF Shape
  <1>8. Linked'
    <2> SUFFICES ASSUME NEW g \in Handle, handle'[g].callback
                 PROVE  g \in 1..nreads /\ handle'[g].reader \in Reader
                        /\ reader'[handle'[g].reader].handle = g
      BY DEF Linked
    <2>1. g # h /\ handle'[g] = handle[g]
      BY <1>3, <1>6
    <2>2. g \in 1..nreads /\ handle[g].reader \in Reader /\ reader[handle[g].reader].handle = g
      BY <2>1 DEF Linked
    <2>3. handle[g].reader # c
      BY <1>1, <2>1, <2>2
    <2> QED BY <1>2, <2>1, <2>2, <2>3
  <1> QED BY <1>7, <1>8

(* A plain XREAD.                                                          *)
LEMMA AtOnceLinked ==
  ASSUME Shape, Linked, NEW c \in Reader, NEW keys \in Request, NEW from \in From,
         XReadAtOnce(c, keys, from)
  PROVE  Shape' /\ Linked'
  <1> DEFINE request == Asks(c, keys, from)
  <1>1. /\ reader[c].handle = 0
        /\ reader' = [reader EXCEPT ![c] = Receive(Starts(c, request, from), request, "at once")]
        /\ UNCHANGED <<nreads, waitlist, handle>>
    BY DEF XReadAtOnce
  <1>2. /\ DOMAIN reader'[c] = ReaderFields /\ reader'[c].handle = 0
    BY <1>1, Started, Received DEF Shape
  <1>3. Shape'
    BY <1>1, <1>2 DEF Shape
  <1>4. Linked'
    <2> SUFFICES ASSUME NEW g \in Handle, handle[g].callback
                 PROVE  g \in 1..nreads /\ handle[g].reader \in Reader
                        /\ reader'[handle[g].reader].handle = g
      BY <1>1 DEF Linked
    <2>1. g \in 1..nreads /\ handle[g].reader \in Reader /\ reader[handle[g].reader].handle = g
      BY DEF Linked
    <2>2. handle[g].reader # c
      <3>1. nreads \in Nat /\ g # 0
        BY <2>1, StorageAssumption DEF Shape
      <3> QED BY <1>1, <2>1, <3>1
    <2> QED BY <1>1, <2>1, <2>2 DEF Shape
  <1> QED BY <1>3, <1>4

(* An XREAD that blocks: its handle is a new one.                          *)
LEMMA BlocksLinked ==
  ASSUME Shape, Linked, NEW c \in Reader, NEW keys \in Request, NEW from \in From,
         NEW ms \in Timeout, XReadBlocks(c, keys, from, ms)
  PROVE  Shape' /\ Linked'
  <1> DEFINE h == nreads + 1
             request == Asks(c, keys, from)
             resolved == [i \in DOMAIN request |-> Resolve(request[i])]
  <1>1. /\ reader[c].handle = 0 /\ nreads' = h /\ nreads < MaxReads
        /\ handle' = [handle EXCEPT ![h] = [reader |-> c, request |-> resolved,
                                            deadline |-> now + ms, callback |-> TRUE]]
        /\ waitlist' = [k \in Key |-> Joined(h, keys, k)]
        /\ reader' = [reader EXCEPT ![c] = [Starts(c, resolved, from) EXCEPT !.handle = h]]
    BY DEF XReadBlocks
  <1>2. h \in Handle /\ h \in 1..h /\ nreads \in Nat /\ h \in 0..MaxReads
    BY <1>1, StorageAssumption DEF Shape, Handle
  <1>3. \A k \in Key : waitlist'[k] \in Seq(1..h)
    <2> SUFFICES ASSUME NEW k \in Key PROVE Joined(h, keys, k) \in Seq(1..h)
      BY <1>1
    <2>1. waitlist[k] \in Seq(1..nreads) /\ 1..nreads \subseteq 1..h
      BY <1>2 DEF Shape
    <2>2. waitlist[k] \in Seq(1..h)
      BY <2>1, SeqWidens
    <2> QED BY <2>2, <1>2, JoinedType
  <1>4. /\ DOMAIN reader'[c] = ReaderFields /\ reader'[c].handle = h
    BY <1>1, Started DEF Shape, ReaderFields
  <1>5. /\ DOMAIN handle' = Handle /\ DOMAIN handle'[h] = HandleFields
        /\ handle'[h].reader = c
        /\ \A g \in Handle : g # h => handle'[g] = handle[g]
    BY <1>1, <1>2 DEF Shape, HandleFields
  <1>6. /\ DOMAIN reader' = Reader /\ \A d \in Reader : d # c => reader'[d] = reader[d]
    BY <1>1 DEF Shape
  <1>7. Shape'
    <2>1. \A g \in Handle : DOMAIN handle'[g] = HandleFields
      BY <1>5 DEF Shape
    <2>2. \A d \in Reader : DOMAIN reader'[d] = ReaderFields
      BY <1>4, <1>6 DEF Shape
    <2> QED BY <2>1, <2>2, <1>1, <1>2, <1>3, <1>5, <1>6 DEF Shape
  <1>8. Linked'
    <2> SUFFICES ASSUME NEW g \in Handle, handle'[g].callback
                 PROVE  g \in 1..h /\ handle'[g].reader \in Reader
                        /\ reader'[handle'[g].reader].handle = g
      BY <1>1 DEF Linked
    <2>1. CASE g = h
      BY <2>1, <1>2, <1>4, <1>5
    <2>2. CASE g # h
      <3>1. handle'[g] = handle[g]
        BY <2>2, <1>5
      <3>2. g \in 1..nreads /\ handle[g].reader \in Reader /\ reader[handle[g].reader].handle = g
        BY <3>1 DEF Linked
      <3>3. handle[g].reader # c
        BY <1>1, <3>2
      <3> QED BY <3>1, <3>2, <3>3, <1>2, <1>6
    <2> QED BY <2>1, <2>2
  <1> QED BY <1>7, <1>8

(* A step is a blocking or a plain XREAD, an answer to a handle, or leaves *)
(* readers, handles and waitlists alone.                                   *)
LEMMA LinkSteps ==
  ASSUME Shape, [Next]_vars
  PROVE  \/ \E c \in Reader, keys \in Request, from \in From : XReadAtOnce(c, keys, from)
         \/ \E c \in Reader, keys \in Request, from \in From, ms \in Timeout :
               XReadBlocks(c, keys, from, ms)
         \/ (\E h \in Handle, how \in {"woken", "timeout"} : Reply(h, how)) /\ UNCHANGED nreads
         \/ UNCHANGED <<nreads, reader, handle, waitlist>>
  <1>1. CASE UNCHANGED vars
    BY <1>1 DEF vars
  <1>2. ASSUME NEW k \in Key, NEW in \in Input, NEW time \in 1..MaxMs, XAdd(k, in, time)
        PROVE  UNCHANGED <<nreads, reader, handle, waitlist>>
    BY <1>2 DEF XAdd
  <1>3. ASSUME NEW k, (\E px \in BOOLEAN : Set(k, px)) \/ Get(k)
        PROVE  UNCHANGED <<nreads, reader, handle, waitlist>>
    BY <1>3 DEF Set, Get
  <1>4. ASSUME NEW c \in Reader, NEW keys \in Request, XReadMiscasts(c, keys)
        PROVE  UNCHANGED <<nreads, reader, handle, waitlist>>
    BY <1>4 DEF XReadMiscasts
  <1>5. ASSUME JobsDone \/ PollDone \/ TimeoutsDone \/ Tick
        PROVE  UNCHANGED <<nreads, reader, handle, waitlist>>
    BY <1>5 DEF JobsDone, PollDone, TimeoutsDone, Tick, Turn
  <1>6. ASSUME RunJob
        PROVE  \/ (\E h \in Handle, how \in {"woken", "timeout"} : Reply(h, how)) /\ UNCHANGED nreads
               \/ UNCHANGED <<nreads, reader, handle, waitlist>>
    <2> DEFINE h == Head(Head(jobs))
    <2>1. CASE Alive(h) /\ Reply(h, "woken")
      BY <2>1, <1>6, AliveIsHandle DEF RunJob
    <2>2. CASE Alive(h) /\ (ReplyMiscasts(h) \/ ReplyThrows(h))
      BY <2>2, <1>6 DEF RunJob, ReplyMiscasts, ReplyThrows
    <2> QED BY <1>6, <2>1, <2>2 DEF RunJob
  <1>7. ASSUME NEW h \in Handle, RunTimeout(h)
        PROVE  \/ (\E g \in Handle, how \in {"woken", "timeout"} : Reply(g, how)) /\ UNCHANGED nreads
               \/ UNCHANGED <<nreads, reader, handle, waitlist>>
    BY <1>7 DEF RunTimeout, ReplyMiscasts, ReplyThrows
  <1>8. ASSUME NEW k \in Key, NEW left \in Bound, NEW right \in Bound,
               XRangeUndefined(k, left, right)
        PROVE  UNCHANGED <<nreads, reader, handle, waitlist>>
    BY <1>8 DEF XRangeUndefined
  <1> QED BY <1>1, <1>2, <1>3, <1>4, <1>5, <1>6, <1>7, <1>8 DEF Next

(* Every step keeps the shape of the state and its links.                  *)
LEMMA LinkedStep == ASSUME Shape, Linked, [Next]_vars PROVE Shape' /\ Linked'
  <1>1. CASE UNCHANGED <<nreads, reader, handle, waitlist>>
    BY <1>1 DEF Shape, Linked
  <1> QED BY <1>1, LinkSteps, AtOnceLinked, BlocksLinked, ReplyLinked

(* A handle that can still answer is the one its reader waits for, in any  *)
(* run of the event loop.                                                  *)
THEOREM LinkedCorrect == Spec => [](Shape /\ Linked)
  <1>1. (Shape /\ Linked) /\ [Next]_vars => (Shape /\ Linked)'
    BY LinkedStep
  <1> QED BY LinkedInit, <1>1, PTL DEF Spec

(* A plain XREAD that finds something is answered at once.                 *)
LEMMA AnswersAtOnce ==
  ASSUME Shape, NEW c \in Reader, NEW keys \in Request, NEW from \in From,
         XReadAtOnce(c, keys, from)
  PROVE  reader'[c].last.how = "at once"
  <1> DEFINE request == Asks(c, keys, from)
             r == Starts(c, request, from)
  <1>1. DOMAIN r = ReaderFields
    BY Started
  <1>2. Receive(r, request, "at once").last.how = "at once"
    BY <1>1 DEF Receive, ReaderFields
  <1>3. reader'[c] = Receive(r, request, "at once")
    BY DEF XReadAtOnce, Shape
  <1> QED BY <1>2, <1>3

(* Only the handle a reader waits for answers it, and once: a late timeout *)
(* or another job for the same handle sends nothing.                       *)
THEOREM AnswersCorrect == Spec => AnswersMatch
  <1> DEFINE Matches(c) ==
        \/ reader'[c].handle # 0
        \/ reader[c].handle = 0 /\ reader'[c].last.how = "at once"
        \/ /\ reader[c].handle # 0 /\ handle[reader[c].handle].callback
           /\ ~ handle'[reader[c].handle].callback
  <1>1. ASSUME Shape, Linked, [Next]_vars, NEW c \in Reader, reader'[c] # reader[c]
        PROVE  Matches(c)
    <2>1. ASSUME NEW d \in Reader, NEW keys \in Request, NEW from \in From,
                 XReadAtOnce(d, keys, from)
          PROVE  Matches(c)
      <3>1. c = d
        BY <1>1, <2>1 DEF XReadAtOnce, Shape
      <3>2. reader[d].handle = 0 /\ reader'[d].last.how = "at once"
        BY <1>1, <2>1, AnswersAtOnce DEF XReadAtOnce
      <3> QED BY <3>1, <3>2
    <2>2. ASSUME NEW d \in Reader, NEW keys \in Request, NEW from \in From,
                 NEW ms \in Timeout, XReadBlocks(d, keys, from, ms)
          PROVE  Matches(c)
      <3> DEFINE r == Starts(d, [i \in DOMAIN Asks(d, keys, from) |->
                                    Resolve(Asks(d, keys, from)[i])], from)
      <3>1. reader' = [reader EXCEPT ![d] = [r EXCEPT !.handle = nreads + 1]]
        BY <2>2 DEF XReadBlocks
      <3>2. c = d /\ reader'[c].handle = nreads + 1
        BY <1>1, <3>1, Started DEF Shape, ReaderFields
      <3>3. nreads \in Nat
        BY <1>1, StorageAssumption DEF Shape
      <3>4. reader'[c].handle # 0
        BY <3>2, <3>3
      <3> QED BY <3>4
    <2>3. ASSUME NEW h \in Handle, NEW how, Reply(h, how)
          PROVE  Matches(c)
      <3>1. handle[h].callback /\ h \in 1..nreads /\ reader[handle[h].reader].handle = h
        BY <1>1, <2>3 DEF Reply, Linked
      <3>2. c = handle[h].reader
        BY <1>1, <2>3 DEF Reply, Shape
      <3>3. handle'[h].callback = FALSE
        BY <1>1, <2>3 DEF Reply, Shape, HandleFields
      <3>4. nreads \in Nat /\ h # 0
        BY <1>1, <3>1, StorageAssumption DEF Shape
      <3> QED BY <3>1, <3>2, <3>3, <3>4
    <2>4. CASE UNCHANGED <<nreads, reader, handle, waitlist>>
      BY <1>1, <2>4
    <2> QED BY <1>1, <2>1, <2>2, <2>3, <2>4, LinkSteps
  <1>2. Shape /\ Linked /\ [Next]_vars
          => [\A c \in Reader : reader'[c] # reader[c] => Matches(c)]_vars
    BY <1>1
  <1> QED BY LinkedCorrect, <1>2, PTL DEF Spec, AnswersMatch

-----------------------------------------------------------------------------
(* No handle that was answered stays in a waitlist.                        *)

(* No request names a key twice.                                           *)
NoTwice ==
    \A keys \in Request : \A i, j \in DOMAIN keys : keys[i] = keys[j] => i = j

(* Every handle is in a waitlist once, and was not answered yet.           *)
Distinct(s) == \A i, j \in 1..Len(s) : s[i] = s[j] => i = j
Single ==
    \A k \in Key : /\ Distinct(waitlist[k])
                  /\ \A i \in 1..Len(waitlist[k]) : handle[waitlist[k][i]].callback

(* A handle that left a waitlist is not in it any more.                    *)
LEMMA LeaveDistinct ==
  ASSUME NEW S, NEW s \in Seq(S), Distinct(s), NEW h
  PROVE  /\ Distinct(Leave(s, h))
         /\ \A i \in 1..Len(Leave(s, h)) :
              Leave(s, h)[i] # h /\ \E j \in 1..Len(s) : Leave(s, h)[i] = s[j]
  <1>0. Len(s) \in Nat /\ DOMAIN s = 1..Len(s)
    OBVIOUS
  <1>1. CASE h \notin Range(s)
    <2>1. Leave(s, h) = s
      BY <1>1 DEF Leave
    <2>2. \A i \in 1..Len(s) : s[i] # h
      BY <1>0, <1>1 DEF Range
    <2> QED BY <2>1, <2>2
  <1>2. CASE h \in Range(s)
    <2> DEFINE n == LastOf(s, h)
               t == RemoveAt(s, n)
               at(i) == IF i < n THEN i ELSE i + 1
    <2>1. n \in 1..Len(s) /\ s[n] = h
      BY <1>2, LastOfIs
    <2>2. Leave(s, h) = t
      BY <1>2 DEF Leave
    <2>3. t \in Seq(S) /\ Len(t) = Len(s) - 1 /\ \A i \in 1..Len(s) - 1 : t[i] = s[at(i)]
      BY <2>1, Removed
    <2> HIDE DEF n, t
    <2>4. ASSUME NEW i \in 1..Len(t) PROVE at(i) \in 1..Len(s) /\ at(i) # n /\ t[i] = s[at(i)]
      BY <1>0, <2>1, <2>3
    <2>5. ASSUME NEW i \in 1..Len(t), NEW j \in 1..Len(t), t[i] = t[j] PROVE i = j
      <3>1. at(i) = at(j)
        BY <2>4, <2>5 DEF Distinct
      <3> QED BY <3>1, <1>0, <2>1, <2>3
    <2>6. ASSUME NEW i \in 1..Len(t) PROVE t[i] # h
      BY <2>1, <2>4, <2>6 DEF Distinct
    <2> QED BY <2>2, <2>4, <2>5, <2>6 DEF Distinct
  <1> QED BY <1>1, <1>2

(* A handle that joins a waitlist it is not in joins it once.              *)
LEMMA JoinedDistinct ==
  ASSUME NoTwice, NEW S, NEW k, waitlist[k] \in Seq(S), Distinct(waitlist[k]),
         NEW h, h \notin S, NEW keys \in Request
  PROVE  /\ Distinct(Joined(h, keys, k))
         /\ \A i \in 1..Len(Joined(h, keys, k)) :
              Joined(h, keys, k)[i] = h \/ \E j \in 1..Len(waitlist[k]) :
                                              Joined(h, keys, k)[i] = waitlist[k][j]
  <1> DEFINE named == {j \in DOMAIN keys : keys[j] = k}
             n == Cardinality(named)
             s == waitlist[k]
             new == [i \in 1..n |-> h]
  <1>1. n \in 0..1
    <2>1. CASE named = {}
      <3>1. n = 0
        BY <2>1, FS_EmptySet
      <3> HIDE DEF n
      <3> QED BY <3>1
    <2>2. CASE named # {}
      <3>1. PICK j \in DOMAIN keys : keys[j] = k
        BY <2>2
      <3>2. named = {j}
        BY <3>1 DEF NoTwice
      <3>3. n = 1
        BY <3>2, FS_Singleton
      <3> HIDE DEF n
      <3> QED BY <3>3
    <2> QED BY <2>1, <2>2
  <1>2. new \in Seq({h}) /\ Len(new) = n /\ \A i \in 1..n : new[i] = h
    BY <1>1
  <1>3. s \in Seq(S \cup {h}) /\ new \in Seq(S \cup {h})
    BY <1>2, SeqWidens
  <1>4. Joined(h, keys, k) = s \o new
    BY DEF Joined
  <1>9. s = waitlist[k] /\ s \in Seq(S) /\ Distinct(s)
    OBVIOUS
  <1> HIDE DEF new, n, s
  <1>5. /\ Len(s \o new) = Len(s) + n /\ Len(s) \in Nat
        /\ \A i \in 1..Len(s) : (s \o new)[i] = s[i]
        /\ \A i \in 1..n : (s \o new)[Len(s) + i] = h
    <2>1. /\ Len(s \o new) = Len(s) + Len(new)
          /\ \A i \in 1..Len(s) : (s \o new)[i] = s[i]
          /\ \A i \in 1..Len(new) : (s \o new)[Len(s) + i] = new[i]
      BY <1>3, Concatenated
    <2>2. Len(s) \in Nat
      BY <1>3
    <2> QED BY <2>1, <2>2, <1>2
  <1>6. ASSUME NEW i \in 1..Len(s) + n
        PROVE  i \in 1..Len(s) \/ (i = Len(s) + 1 /\ (s \o new)[i] = h)
    <2>1. CASE i \in 1..Len(s)
      BY <2>1
    <2>2. CASE i \notin 1..Len(s)
      <3>1. n = 1 /\ i = Len(s) + 1
        BY <2>2, <1>1, <1>5
      <3> QED BY <3>1, <1>5
    <2> QED BY <2>1, <2>2
  <1>7. \A i \in 1..Len(s) : s[i] \in S /\ s[i] # h
    BY <1>9, ElementAt
  <1>8. Distinct(s \o new)
    <2> SUFFICES ASSUME NEW i \in 1..Len(s) + n, NEW j \in 1..Len(s) + n,
                        (s \o new)[i] = (s \o new)[j]
                 PROVE  i = j
      BY <1>5 DEF Distinct
    <2>1. CASE i \in 1..Len(s) /\ j \in 1..Len(s)
      BY <2>1, <1>5, <1>9 DEF Distinct
    <2>2. CASE i \notin 1..Len(s) /\ j \notin 1..Len(s)
      BY <2>2, <1>6
    <2>3. CASE i \in 1..Len(s) /\ j \notin 1..Len(s)
      BY <2>3, <1>5, <1>6, <1>7
    <2>4. CASE i \notin 1..Len(s) /\ j \in 1..Len(s)
      BY <2>4, <1>5, <1>6, <1>7
    <2> QED BY <2>1, <2>2, <2>3, <2>4
  <1> QED BY <1>4, <1>5, <1>6, <1>8, <1>9

(* Every step keeps every waitlist free of answered handles.               *)
LEMMA SingleStep == ASSUME NoTwice, Shape, Single, [Next]_vars PROVE Single'
  <1>1. ASSUME NEW c \in Reader, NEW keys \in Request, NEW from \in From,
               XReadAtOnce(c, keys, from)
        PROVE  Single'
    BY <1>1 DEF XReadAtOnce, Single
  <1>2. ASSUME NEW c \in Reader, NEW keys \in Request, NEW from \in From,
               NEW ms \in Timeout, XReadBlocks(c, keys, from, ms), NEW k \in Key
        PROVE  /\ Distinct(waitlist'[k])
               /\ \A i \in 1..Len(waitlist'[k]) : handle'[waitlist'[k][i]].callback
    <2> DEFINE h == nreads + 1
    <2>1. /\ waitlist'[k] = Joined(h, keys, k)
          /\ h \in Handle /\ h \notin 1..nreads /\ waitlist[k] \in Seq(1..nreads)
          /\ handle'[h].callback /\ \A g \in Handle : g # h => handle'[g] = handle[g]
          /\ 1..nreads \subseteq Handle
      BY <1>2, StorageAssumption DEF XReadBlocks, Shape, Handle
    <2> HIDE DEF h
    <2>2. /\ Distinct(waitlist'[k])
          /\ \A i \in 1..Len(waitlist'[k]) :
               waitlist'[k][i] = h \/ \E j \in 1..Len(waitlist[k]) : waitlist'[k][i] = waitlist[k][j]
      <3>1. Distinct(waitlist[k])
        BY DEF Single
      <3>2. /\ Distinct(Joined(h, keys, k))
            /\ \A i \in 1..Len(Joined(h, keys, k)) :
                 Joined(h, keys, k)[i] = h \/ \E j \in 1..Len(waitlist[k]) :
                                                 Joined(h, keys, k)[i] = waitlist[k][j]
        <4> DEFINE S == 1..nreads
        <4>1. h \notin S /\ waitlist[k] \in Seq(S)
          BY <2>1
        <4> HIDE DEF S
        <4> QED BY <4>1, <3>1, JoinedDistinct, NoTwice
      <3> QED BY <2>1, <3>2
    <2>3. ASSUME NEW j \in 1..Len(waitlist[k]) PROVE handle'[waitlist[k][j]].callback
      <3>1. waitlist[k][j] \in 1..nreads
        BY <2>1, ElementAt
      <3> QED BY <3>1, <2>1 DEF Single
    <2> QED BY <2>1, <2>2, <2>3
  <1>3. ASSUME NEW h \in Handle, NEW how, Reply(h, how), NEW k \in Key
        PROVE  /\ Distinct(waitlist'[k])
               /\ \A i \in 1..Len(waitlist'[k]) : handle'[waitlist'[k][i]].callback
    <2>1. waitlist'[k] = Leave(waitlist[k], h) /\ \A g \in Handle : g # h => handle'[g] = handle[g]
      BY <1>3 DEF Reply, Shape
    <2>2. waitlist[k] \in Seq(1..nreads) /\ Distinct(waitlist[k]) /\ 1..nreads \subseteq Handle
      BY StorageAssumption DEF Shape, Single, Handle
    <2>3. /\ Distinct(waitlist'[k])
          /\ \A i \in 1..Len(waitlist'[k]) :
               waitlist'[k][i] # h /\ \E j \in 1..Len(waitlist[k]) : waitlist'[k][i] = waitlist[k][j]
      BY <2>1, <2>2, LeaveDistinct
    <2>4. ASSUME NEW j \in 1..Len(waitlist[k]), waitlist[k][j] # h
          PROVE  handle'[waitlist[k][j]].callback
      <3>1. waitlist[k][j] \in 1..nreads
        BY <2>2, ElementAt
      <3> QED BY <3>1, <2>1, <2>2, <2>4 DEF Single
    <2> QED BY <2>3, <2>4
  <1>4. CASE UNCHANGED <<nreads, reader, handle, waitlist>>
    BY <1>4 DEF Single
  <1> QED BY <1>1, <1>2, <1>3, <1>4, LinkSteps DEF Single

(* No handle that was answered stays in a waitlist, if no request names a  *)
(* key twice.                                                              *)
THEOREM NoneLeft == ASSUME NoTwice PROVE Spec => []NoHandleLeft
  <1>1. Init => Single
    BY DEF Init, Single, Distinct
  <1>2. (Shape /\ Linked) /\ Single /\ [Next]_vars => Single'
    BY SingleStep
  <1>3. Shape /\ Single => NoHandleLeft
    <2> SUFFICES ASSUME Shape, Single, NEW k \in Key, NEW h \in Range(waitlist[k])
                 PROVE  handle[h].callback
      BY DEF NoHandleLeft
    <2>1. waitlist[k] \in Seq(1..nreads)
      BY DEF Shape
    <2>2. PICK i \in 1..Len(waitlist[k]) : h = waitlist[k][i]
      BY <2>1 DEF Range
    <2> QED BY <2>2 DEF Single
  <1> QED BY LinkedCorrect, <1>1, <1>2, <1>3, PTL DEF Spec
-----------------------------------------------------------------------------
(* No wake-up is lost.                                                     *)

(* Every set of ids a stream holds has a top, wrapped or not.              *)
Topped(data) == Ids(data) \subseteq Id /\ (Ids(data) = {} \/ \E t \in Id : IsTop(data, t))

(* Older handles come before newer ones, in waitlists and in jobs.         *)
Sorted(s) == \A i, j \in 1..Len(s) : i <= j => s[i] <= s[j]
InOrder == \A k \in Key : Sorted(waitlist[k])
Posted == /\ jobs \in Seq(Seq(1..nreads))
          /\ \A i \in 1..Len(jobs) : jobs[i] # <<>> /\ Sorted(jobs[i])
AllTopped == DOMAIN stored = Key /\ \A k \in Key : Topped(Data(k))
Queued == AllTopped /\ InOrder /\ Posted

(* A handle in a job that is still to be run, and one that was answered    *)
(* but stayed in a waitlist.                                               *)
IsCalled(h) == \E i \in DOMAIN jobs : h \in Range(jobs[i])
IsLeft(g) == Alive(g) /\ ~ handle[g].callback

(* An id from append is an id, also if its second part wraps.              *)
LEMMA AppendType ==
  ASSUME NEW data, Topped(data), NEW in \in InputId, NEW time \in 0..MaxMs
  PROVE  AppendId(data, in, time) \in Id
  <1>1. ASSUME NEW t \in Id PROVE Increment(t) \in Id
    <2>1. t.ms \in 0..MaxMs /\ t.id \in Nat
      BY StreamAssumption DEF Id
    <2>2. (t.id + 1) % (MaxSeq + 1) \in 0..MaxSeq
      BY <2>1, StreamAssumption
    <2> QED BY <2>1, <2>2 DEF Increment, StreamId, Id
  <1>2. Ids(data) # {} => Top(data) \in Id /\ Increment(Top(data)) \in Id
    BY <1>1, TopIs DEF Topped
  <1>3. CASE in.kind = "full"
    BY <1>3 DEF InputId, AppendId, StreamId, Id
  <1>4. CASE in.kind = "id_wildcard"
    <2>1. in.ms \in 0..MaxMs
      BY <1>4 DEF InputId
    <2>2. StreamId(in.ms, IF in.ms = 0 THEN 1 ELSE 0) \in Id /\ StreamId(in.ms, 0) \in Id
      BY <2>1, StreamAssumption DEF StreamId, Id
    <2> QED BY <1>2, <1>4, <2>2 DEF AppendId
  <1>5. CASE in.kind = "general_wildcard"
    <2>1. StreamId(time, 0) \in Id
      BY StreamAssumption DEF StreamId, Id
    <2> QED BY <1>2, <1>5, <2>1 DEF AppendId
  <1> QED BY <1>3, <1>4, <1>5 DEF InputId

(* A stream with one more entry has a top, if it had one.                  *)
LEMMA EmplaceTopped ==
  ASSUME NEW data, Topped(data), NEW id \in Id, NEW entry
  PROVE  Topped(Emplace(data, id, entry))
  <1> DEFINE new == Emplace(data, id, entry)
  <1>1. Ids(new) = Ids(data) \cup {id}
    BY DEF Ids, Emplace
  <1>2. Ids(new) \subseteq Id
    BY <1>1 DEF Topped
  <1>3. \E t \in Id : IsTop(new, t)
    <2>1. CASE Ids(data) = {}
      BY <1>1, <2>1, LessIrreflexive DEF IsTop
    <2>2. CASE Ids(data) # {}
      <3>1. PICK t \in Id : t \in Ids(data) /\ \A j \in Ids(data) : ~ Less(t, j)
        BY <2>2 DEF Topped, IsTop
      <3>2. CASE Less(t, id)
        <4>1. \A j \in Ids(data) : j = t \/ Less(j, t)
          BY <3>1, LessTotal DEF Topped
        <4>2. \A j \in Ids(data) : Less(j, id)
          BY <3>1, <3>2, <4>1, LessTransitive DEF Topped
        <4>3. \A j \in Ids(data) : ~ Less(id, j)
          BY <4>2, LessTransitive, LessIrreflexive DEF Topped
        <4> QED BY <1>1, <4>3, LessIrreflexive DEF IsTop
      <3>3. CASE ~ Less(t, id)
        BY <1>1, <3>1, <3>3 DEF IsTop
      <3> QED BY <3>2, <3>3
    <2> QED BY <2>1, <2>2
  <1> QED BY <1>2, <1>3 DEF Topped

(* Nothing follows the last id of a stream.                                *)
LEMMA NothingNext ==
  ASSUME NEW data, Topped(data)
  PROVE  XReadIds(data, LastId(data)) = {}
  <1>1. CASE Ids(data) = {}
    BY <1>1 DEF XReadIds
  <1>2. CASE Ids(data) # {}
    <2>1. PICK t \in Id : t \in Ids(data) /\ \A j \in Ids(data) : ~ Less(t, j)
      BY <1>2 DEF Topped, IsTop
    <2>2. LastId(data) = t
      BY <1>2, <2>1, TopIs DEF LastId, Topped, IsTop
    <2> QED BY <2>1, <2>2, LessTotal DEF XReadIds, Topped
  <1> QED BY <1>1, <1>2

-----------------------------------------------------------------------------
(* Who is in a sequence once a handle left or joined it.                   *)

(* Whoever else was in a waitlist stays there, in the same order.          *)
LEMMA LeaveKeeps ==
  ASSUME NEW n \in Nat, NEW s \in Seq(1..n), Sorted(s), NEW h
  PROVE  /\ Sorted(Leave(s, h)) /\ Range(Leave(s, h)) \subseteq Range(s)
         /\ \A g \in Range(s) : g # h => g \in Range(Leave(s, h))
  <1>0. Len(s) \in Nat /\ DOMAIN s = 1..Len(s)
    OBVIOUS
  <1>1. CASE h \notin Range(s)
    BY <1>1 DEF Leave
  <1>2. CASE h \in Range(s)
    <2> DEFINE m == LastOf(s, h)
               t == RemoveAt(s, m)
               at(i) == IF i < m THEN i ELSE i + 1
    <2>1. m \in 1..Len(s) /\ s[m] = h
      BY <1>2, LastOfIs
    <2>2. Leave(s, h) = t
      BY <1>2 DEF Leave
    <2>3. t \in Seq(1..n) /\ Len(t) = Len(s) - 1 /\ \A i \in 1..Len(s) - 1 : t[i] = s[at(i)]
      BY <2>1, Removed
    <2> HIDE DEF m, t
    <2>4. DOMAIN t = 1..Len(t)
      BY <2>3
    <2>5. ASSUME NEW i \in 1..Len(t) PROVE at(i) \in 1..Len(s) /\ t[i] = s[at(i)]
      BY <1>0, <2>1, <2>3
    <2>6. Sorted(t)
      <3> SUFFICES ASSUME NEW i \in 1..Len(t), NEW j \in 1..Len(t), i <= j PROVE t[i] <= t[j]
        BY DEF Sorted
      <3>1. at(i) <= at(j)
        BY <1>0, <2>1, <2>3
      <3> QED BY <2>5, <3>1 DEF Sorted
    <2>7. Range(t) \subseteq Range(s)
      BY <1>0, <2>4, <2>5 DEF Range
    <2>8. ASSUME NEW g \in Range(s), g # h PROVE g \in Range(t)
      <3>1. PICK i \in 1..Len(s) : s[i] = g
        BY <1>0 DEF Range
      <3>2. i # m
        BY <2>1, <2>8, <3>1
      <3> DEFINE j == IF i < m THEN i ELSE i - 1
      <3>3. j \in 1..Len(t) /\ at(j) = i
        BY <1>0, <2>1, <2>3, <3>2
      <3> QED BY <2>4, <2>5, <3>1, <3>3 DEF Range
    <2> QED BY <2>2, <2>6, <2>7, <2>8
  <1> QED BY <1>1, <1>2

(* Only the new handle joins a waitlist, behind the others.                *)
LEMMA JoinedKeeps ==
  ASSUME NEW n \in Nat, NEW k, waitlist[k] \in Seq(1..n), Sorted(waitlist[k]), NEW keys \in Request
  PROVE  /\ Sorted(Joined(n + 1, keys, k))
         /\ Range(waitlist[k]) \subseteq Range(Joined(n + 1, keys, k))
         /\ Range(Joined(n + 1, keys, k)) \subseteq Range(waitlist[k]) \cup {n + 1}
  <1> DEFINE h == n + 1
             s == waitlist[k]
             c == Cardinality({j \in DOMAIN keys : keys[j] = k})
             new == [i \in 1..c |-> h]
  <1>1. c \in Nat
    <2>1. Len(keys) \in Nat /\ DOMAIN keys = 1..Len(keys)
      BY StorageAssumption
    <2>2. IsFiniteSet({j \in DOMAIN keys : keys[j] = k})
      <3>1. IsFiniteSet(1..Len(keys))
        BY <2>1, FS_Interval
      <3> QED BY <2>1, <3>1, FS_Subset
    <2> QED BY <2>2, FS_CardinalityType
  <1>2. new \in Seq(1..h) /\ Len(new) = c /\ \A i \in 1..c : new[i] = h
    <2> HIDE DEF c
    <2> QED BY <1>1
  <1>3. s \in Seq(1..h) /\ s \in Seq(1..n)
    <2>1. 1..n \subseteq 1..h
      OBVIOUS
    <2> QED BY <2>1, SeqWidens
  <1>4. Joined(h, keys, k) = s \o new
    BY DEF Joined
  <1>5. Sorted(s) /\ s = waitlist[k] /\ h = n + 1
    OBVIOUS
  <1> HIDE DEF c, new, s, h
  <1>6. /\ s \o new \in Seq(1..h) /\ Len(s \o new) = Len(s) + c /\ Len(s) \in Nat
        /\ \A i \in 1..Len(s) : (s \o new)[i] = s[i]
        /\ \A i \in 1..c : (s \o new)[Len(s) + i] = h
    <2>1. /\ s \o new \in Seq(1..h) /\ Len(s \o new) = Len(s) + Len(new)
          /\ \A i \in 1..Len(s) : (s \o new)[i] = s[i]
          /\ \A i \in 1..Len(new) : (s \o new)[Len(s) + i] = new[i]
      <3> DEFINE S == 1..h
      <3>1. s \in Seq(S) /\ new \in Seq(S)
        BY <1>2, <1>3
      <3> HIDE DEF S
      <3>2. /\ s \o new \in Seq(S) /\ Len(s \o new) = Len(s) + Len(new)
            /\ \A i \in 1..Len(s) : (s \o new)[i] = s[i]
            /\ \A i \in 1..Len(new) : (s \o new)[Len(s) + i] = new[i]
        BY <3>1, Concatenated
      <3> QED BY <3>2 DEF S
    <2>2. Len(s) \in Nat
      BY <1>3
    <2> QED BY <1>2, <2>1, <2>2
  <1>7. \A i \in 1..Len(s) + c : \/ i \in 1..Len(s) /\ (s \o new)[i] = s[i]
                                 \/ i \notin 1..Len(s) /\ i > Len(s) /\ (s \o new)[i] = h
    <2> SUFFICES ASSUME NEW i \in 1..Len(s) + c, i \notin 1..Len(s)
                 PROVE  i > Len(s) /\ (s \o new)[i] = h
      BY <1>6
    <2>1. i - Len(s) \in 1..c /\ Len(s) + (i - Len(s)) = i
      BY <1>1, <1>6
    <2> QED BY <1>6, <2>1
  <1>8. \A i \in 1..Len(s) : s[i] \in 1..n
    BY <1>3, ElementAt
  <1>9. Sorted(s \o new)
    <2> SUFFICES ASSUME NEW i \in 1..Len(s) + c, NEW j \in 1..Len(s) + c, i <= j
                 PROVE  (s \o new)[i] <= (s \o new)[j]
      BY <1>6 DEF Sorted
    <2>1. CASE j \in 1..Len(s)
      <3>1. i \in 1..Len(s)
        BY <1>6, <2>1
      <3> QED BY <1>5, <1>6, <2>1, <3>1 DEF Sorted
    <2>2. CASE j \notin 1..Len(s)
      <3>1. (s \o new)[j] = h
        BY <1>7, <2>2
      <3>2. CASE i \in 1..Len(s)
        <4>1. s[i] \in 1..n /\ (s \o new)[i] = s[i]
          BY <1>6, <1>8, <3>2
        <4>2. s[i] <= h
          BY <1>5, <4>1
        <4> QED BY <3>1, <4>1, <4>2
      <3>3. CASE i \notin 1..Len(s)
        <4>1. h <= h
          BY <1>5
        <4> QED BY <1>7, <3>1, <3>3, <4>1
      <3> QED BY <3>2, <3>3
    <2> QED BY <2>1, <2>2
  <1>10. DOMAIN (s \o new) = 1..Len(s) + c /\ DOMAIN s = 1..Len(s)
    BY <1>3, <1>6
  <1>11. Range(s) \subseteq Range(s \o new)
    <2> SUFFICES ASSUME NEW i \in 1..Len(s) PROVE s[i] \in Range(s \o new)
      BY <1>10 DEF Range
    <2>1. i \in 1..Len(s) + c /\ (s \o new)[i] = s[i]
      BY <1>1, <1>6
    <2> QED BY <1>10, <2>1 DEF Range
  <1>12. Range(s \o new) \subseteq Range(s) \cup {h}
    BY <1>7, <1>10 DEF Range
  <1> QED BY <1>4, <1>5, <1>9, <1>11, <1>12

-----------------------------------------------------------------------------
(* The steps that wait, call and answer.                                   *)

(* The tail of a sequence.                                                 *)
LEMMA TailIs ==
  ASSUME NEW S, NEW s \in Seq(S), s # <<>>
  PROVE  /\ Tail(s) \in Seq(S) /\ Len(s) \in Nat \ {0} /\ Len(Tail(s)) = Len(s) - 1
         /\ Head(s) = s[1] /\ Head(s) \in S
         /\ \A i \in 1..Len(s) - 1 : Tail(s)[i] = s[i + 1]
  OBVIOUS

(* The tail of a sequence of two or more is not empty.                     *)
LEMMA TailLeaves ==
  ASSUME NEW S, NEW s \in Seq(S), s # <<>>, Len(s) # 1
  PROVE  Tail(s) # <<>>
  <1> DEFINE t == Tail(s)
  <1>1. Len(t) # 0
    BY TailIs
  <1>2. Len(<<>>) = 0
    OBVIOUS
  <1> HIDE DEF t
  <1>3. t # <<>>
    BY <1>1, <1>2
  <1> QED BY <1>3 DEF t

(* What is in a sequence that is not empty: its head, or what its tail has. *)
LEMMA HeadOrTail ==
  ASSUME NEW S, NEW s \in Seq(S), s # <<>>, NEW x \in Range(s)
  PROVE  x = Head(s) \/ x \in Range(Tail(s))
  <1>1. PICK i \in 1..Len(s) : x = s[i]
    BY DEF Range
  <1>2. CASE i = 1
    BY <1>1, <1>2, TailIs
  <1>3. CASE i # 1
    <2>1. i - 1 \in 1..Len(Tail(s)) /\ Tail(s)[i - 1] = x
      BY <1>1, <1>3, TailIs
    <2>2. DOMAIN Tail(s) = 1..Len(Tail(s))
      BY TailIs
    <2> QED BY <2>1, <2>2 DEF Range
  <1> QED BY <1>2, <1>3

(* The tail of a sorted sequence is sorted, and its head comes first.      *)
LEMMA TailSorted ==
  ASSUME NEW n \in Nat, NEW s \in Seq(1..n), s # <<>>, Sorted(s)
  PROVE  /\ Sorted(Tail(s)) /\ Tail(s) \in Seq(1..n)
         /\ \A x \in Range(s) : Head(s) <= x
  <1>1. /\ Tail(s) \in Seq(1..n) /\ Len(s) \in Nat \ {0} /\ Len(Tail(s)) = Len(s) - 1
        /\ Head(s) = s[1]
        /\ \A i \in 1..Len(s) - 1 : Tail(s)[i] = s[i + 1]
    <2> DEFINE S == 1..n
    <2>1. s \in Seq(S)
      OBVIOUS
    <2> HIDE DEF S
    <2>2. /\ Tail(s) \in Seq(S) /\ Len(s) \in Nat \ {0} /\ Len(Tail(s)) = Len(s) - 1
          /\ Head(s) = s[1]
          /\ \A i \in 1..Len(s) - 1 : Tail(s)[i] = s[i + 1]
      BY <2>1, TailIs
    <2> QED BY <2>2 DEF S
  <1>2. Sorted(Tail(s))
    BY <1>1 DEF Sorted
  <1>3. ASSUME NEW i \in 1..Len(s) PROVE Head(s) <= s[i]
    BY <1>1 DEF Sorted
  <1>4. DOMAIN s = 1..Len(s)
    OBVIOUS
  <1> QED BY <1>1, <1>2, <1>3, <1>4 DEF Range

(* A job without its first handle still calls the others, and the other    *)
(* jobs are still there.                                                   *)
LEMMA RestIs ==
  ASSUME nreads \in Nat, Posted, jobs # <<>>
  PROVE  /\ Rest \in Seq(Seq(1..nreads))
         /\ \A i \in 1..Len(Rest) : Rest[i] # <<>> /\ Sorted(Rest[i])
         /\ \A h : IsCalled(h) => h = Head(Head(jobs)) \/ \E i \in DOMAIN Rest : h \in Range(Rest[i])
  <1> DEFINE S == Seq(1..nreads)
             j == Head(jobs)
             t == Tail(jobs)
  <1>1. /\ t \in Seq(S) /\ Len(jobs) \in Nat \ {0} /\ Len(t) = Len(jobs) - 1
        /\ j = jobs[1] /\ j \in S
        /\ \A i \in 1..Len(jobs) - 1 : t[i] = jobs[i + 1]
    <2>1. jobs \in Seq(S)
      BY DEF Posted
    <2> HIDE DEF S
    <2> QED BY <2>1, TailIs
  <1>2. j # <<>> /\ Sorted(j) /\ \A i \in 1..Len(t) : t[i] # <<>> /\ Sorted(t[i])
    BY <1>1 DEF Posted
  <1>3. Sorted(Tail(j)) /\ Tail(j) \in S
    BY <1>1, <1>2, TailSorted
  <1>4. DOMAIN t = 1..Len(t) /\ DOMAIN jobs = 1..Len(jobs)
    BY <1>1
  <1>5. ASSUME NEW h, IsCalled(h)
        PROVE  h \in Range(j) \/ \E i \in 1..Len(t) : h \in Range(t[i])
    <2>1. PICK i \in 1..Len(jobs) : h \in Range(jobs[i])
      BY <1>4, <1>5 DEF IsCalled
    <2>2. CASE i = 1
      BY <1>1, <2>1, <2>2
    <2>3. CASE i # 1
      <3>1. i - 1 \in 1..Len(t) /\ t[i - 1] = jobs[i]
        BY <1>1, <2>3
      <3> QED BY <2>1, <3>1
    <2> QED BY <2>2, <2>3
  <1>6. ASSUME NEW h, h \in Range(j) PROVE h = Head(j) \/ h \in Range(Tail(j))
    <2> DEFINE I == 1..nreads
    <2>1. j \in Seq(I)
      BY <1>1
    <2> HIDE DEF I, j
    <2> QED BY <1>2, <1>6, <2>1, HeadOrTail
  <1>7. CASE Len(j) = 1
    <2>1. Rest = t
      BY <1>7 DEF Rest
    <2>2. Len(Tail(j)) = 0
      BY <1>1, <1>2, <1>7
    <2>3. Range(Tail(j)) = {}
      BY <1>3, <2>2 DEF Range
    <2> QED BY <1>1, <1>2, <1>4, <1>5, <1>6, <2>1, <2>3
  <1>8. CASE Len(j) # 1
    <2> DEFINE u == <<Tail(j)>>
    <2>1. Rest = u \o t
      BY <1>8 DEF Rest
    <2>2. Tail(j) # <<>>
      <3> DEFINE I == 1..nreads
      <3>1. j \in Seq(I)
        BY <1>1
      <3> HIDE DEF I, j
      <3> QED BY <1>2, <1>8, <3>1, TailLeaves
    <2> HIDE DEF t, j, S
    <2>3. u \in Seq(S) /\ Len(u) = 1 /\ u[1] = Tail(j)
      BY <1>3
    <2> HIDE DEF u
    <2>4. /\ u \o t \in Seq(S) /\ Len(u \o t) = 1 + Len(t) /\ Len(t) \in Nat
          /\ (u \o t)[1] = Tail(j)
          /\ \A i \in 1..Len(t) : (u \o t)[1 + i] = t[i]
      <3>0. u \in Seq(S) /\ t \in Seq(S)
        BY <1>1, <2>3
      <3>1. /\ u \o t \in Seq(S) /\ Len(u \o t) = Len(u) + Len(t)
            /\ \A i \in 1..Len(u) : (u \o t)[i] = u[i]
            /\ \A i \in 1..Len(t) : (u \o t)[Len(u) + i] = t[i]
        BY <3>0, Concatenated
      <3>2. Len(t) \in Nat
        BY <1>1
      <3>3. 1 \in 1..Len(u)
        BY <2>3
      <3> QED BY <2>3, <3>1, <3>2, <3>3
    <2>5. \A i \in 1..1 + Len(t) : i = 1 \/ (i - 1 \in 1..Len(t) /\ 1 + (i - 1) = i)
      BY <2>4
    <2>6. \A i \in 1..1 + Len(t) : (u \o t)[i] # <<>> /\ Sorted((u \o t)[i])
      BY <1>2, <1>3, <2>2, <2>4, <2>5
    <2>7. DOMAIN (u \o t) = 1..1 + Len(t)
      BY <2>4
    <2>8. ASSUME NEW h, IsCalled(h)
          PROVE  h = Head(j) \/ \E i \in DOMAIN (u \o t) : h \in Range((u \o t)[i])
      <3>1. CASE h \in Range(j)
        <4>1. 1 \in 1..1 + Len(t)
          BY <2>4
        <4> QED BY <1>6, <2>4, <2>7, <3>1, <4>1
      <3>2. CASE \E i \in 1..Len(t) : h \in Range(t[i])
        <4>1. PICK i \in 1..Len(t) : h \in Range(t[i])
          BY <3>2
        <4>2. 1 + i \in 1..1 + Len(t)
          BY <2>4
        <4> QED BY <2>4, <2>7, <4>1, <4>2
      <3> QED BY <1>5, <2>8, <3>1, <3>2
    <2> QED BY <2>1, <2>4, <2>6, <2>8 DEF S, j
  <1> QED BY <1>7, <1>8

(* A job posted by an XADD calls every handle that waits for the key.      *)
LEMMA PostIs ==
  ASSUME Shape, InOrder, Posted, NEW k \in Key, Post(k), UNCHANGED nreads
  PROVE  /\ Posted'
         /\ \A h : IsCalled(h) => IsCalled(h)'
         /\ \A h \in Range(waitlist[k]) : IsCalled(h)'
  <1> DEFINE w == waitlist[k]
             S == Seq(1..nreads)
  <1>1. CASE w = <<>>
    <2>1. jobs' = jobs
      BY <1>1 DEF Post
    <2>2. Range(w) = {}
      BY <1>1 DEF Range
    <2> QED BY <2>1, <2>2 DEF Posted, IsCalled
  <1>2. CASE w # <<>>
    <2>1. jobs' = Append(jobs, w)
      BY <1>2 DEF Post
    <2>3. w \in S /\ jobs \in Seq(S) /\ Sorted(w)
      BY DEF Shape, InOrder, Posted
    <2> HIDE DEF w, S
    <2>4. /\ jobs' \in Seq(S) /\ Len(jobs') = Len(jobs) + 1 /\ Len(jobs) \in Nat
          /\ jobs'[Len(jobs) + 1] = w /\ \A i \in 1..Len(jobs) : jobs'[i] = jobs[i]
          /\ DOMAIN jobs = 1..Len(jobs) /\ DOMAIN jobs' = 1..Len(jobs) + 1
      BY <2>1, <2>3
    <2>5. \A i \in 1..Len(jobs) + 1 : i = Len(jobs) + 1 \/ i \in 1..Len(jobs)
      BY <2>4
    <2>6. \A i \in 1..Len(jobs') : jobs'[i] # <<>> /\ Sorted(jobs'[i])
      BY <1>2, <2>3, <2>4, <2>5 DEF Posted
    <2>7. Posted'
      BY <2>4, <2>6 DEF Posted, S
    <2>8. ASSUME NEW h, IsCalled(h) PROVE IsCalled(h)'
      <3>1. PICK i \in 1..Len(jobs) : h \in Range(jobs[i])
        BY <2>4, <2>8 DEF IsCalled
      <3>2. i \in 1..Len(jobs) + 1 /\ jobs'[i] = jobs[i]
        BY <2>4
      <3> QED BY <2>4, <3>1, <3>2 DEF IsCalled
    <2>9. ASSUME NEW h \in Range(w) PROVE IsCalled(h)'
      <3>1. Len(jobs) + 1 \in 1..Len(jobs) + 1
        BY <2>4
      <3> QED BY <2>4, <3>1 DEF IsCalled
    <2> QED BY <2>7, <2>8, <2>9 DEF w
  <1> QED BY <1>1, <1>2

(* What a step of XADD, SET or GET does to the streams.                    *)
LEMMA ToppedStep == ASSUME AllTopped, [Next]_vars PROVE AllTopped'
  <1>1. ASSUME NEW k \in Key, NEW in \in Input, NEW time \in 1..MaxMs, XAdd(k, in, time)
        PROVE  AllTopped'
    <2> DEFINE id == AppendId(Data(k), in, time)
    <2>1. Topped(Data(k)) /\ in \in InputId /\ time \in 0..MaxMs
      BY StorageAssumption, StreamAssumption DEF AllTopped
    <2>2. Topped(Emplace(Data(k), id, Len(log[k]) + 1))
      BY <2>1, AppendType, EmplaceTopped
    <2>3. /\ DOMAIN stored' = Key
          /\ stored'[k] = Stream(Emplace(Data(k), id, Len(log[k]) + 1))
          /\ \A l \in Key : l # k => stored'[l] = stored[l]
      BY <1>1 DEF XAdd, AllTopped
    <2>4. ASSUME NEW l \in Key PROVE Topped(Data(l))'
      <3>1. CASE l = k
        <4>1. Data(l)' = Emplace(Data(k), id, Len(log[k]) + 1)
          BY <2>3, <3>1 DEF Data, IsStream, Stream
        <4> QED BY <2>2, <4>1 DEF Topped
      <3>2. CASE l # k
        <4>1. Data(l)' = Data(l)
          BY <2>3, <3>2 DEF Data, IsStream
        <4> QED BY <4>1 DEF AllTopped, Topped
      <3> QED BY <3>1, <3>2
    <2> QED BY <2>3, <2>4 DEF AllTopped
  <1>2. ASSUME NEW k \in Key, Replaced(k) PROVE AllTopped'
    <2>1. /\ DOMAIN stored' = Key /\ Data(k)' = Empty
          /\ \A l \in Key : l # k => Data(l)' = Data(l)
      BY <1>2, ReplacedIs DEF AllTopped
    <2>2. ASSUME NEW l \in Key PROVE Topped(Data(l))'
      <3>1. CASE l = k
        BY <2>1, <3>1 DEF Topped, Empty, Ids
      <3>2. CASE l # k
        BY <2>1, <3>2 DEF AllTopped, Topped
      <3> QED BY <3>1, <3>2
    <2> QED BY <2>1, <2>2 DEF AllTopped
  <1>3. CASE UNCHANGED storageVars
    <2>1. stored' = stored
      BY <1>3 DEF storageVars
    <2> QED BY <2>1 DEF AllTopped, Data, IsStream
  <1> QED BY <1>1, <1>2, <1>3, StoredStep

(* An answer keeps the waitlists in order, and takes only its handle out.  *)
LEMMA ReplyOrder ==
  ASSUME Shape, InOrder, NEW h \in Handle, NEW how, Reply(h, how)
  PROVE  /\ InOrder'
         /\ \A g : Alive(g)' => Alive(g)
         /\ \A g : Alive(g) /\ g # h => Alive(g)'
         /\ \A g \in Handle : g # h => handle'[g] = handle[g]
         /\ handle'[h].callback = FALSE
         /\ \A k \in Key : Range(waitlist'[k]) \subseteq Range(waitlist[k])
  <1>1. \A k \in Key : waitlist'[k] = Leave(waitlist[k], h)
    BY DEF Reply
  <1>2. ASSUME NEW k \in Key
        PROVE  /\ Sorted(waitlist'[k]) /\ Range(waitlist'[k]) \subseteq Range(waitlist[k])
               /\ \A g \in Range(waitlist[k]) : g # h => g \in Range(waitlist'[k])
    <2>1. nreads \in Nat /\ waitlist[k] \in Seq(1..nreads) /\ Sorted(waitlist[k])
      BY StorageAssumption DEF Shape, InOrder
    <2> QED BY <1>1, <2>1, LeaveKeeps
  <1>3. handle'[h].callback = FALSE /\ \A g \in Handle : g # h => handle'[g] = handle[g]
    BY DEF Reply, Shape, HandleFields
  <1>4. InOrder'
    BY <1>2 DEF InOrder
  <1>5. (\A g : Alive(g)' => Alive(g)) /\ \A g : Alive(g) /\ g # h => Alive(g)'
    BY <1>2 DEF Alive
  <1> QED BY <1>2, <1>3, <1>4, <1>5

-----------------------------------------------------------------------------
(* Each step keeps NoWakeupLost.                                           *)

(* A handle that waits and for which an entry arrived is called, or an     *)
(* older one that was answered is left in a waitlist.                      *)
Told(h, k) ==
    defined /\ Waits(h, k) /\ Missing(h, k) =>
        IsCalled(h) \/ \E g \in Handle : g < h /\ IsLeft(g)

(* An XADD calls everyone who waits for its key.                           *)
LEMMA XAddTells ==
  ASSUME Shape, Queued, NoWakeupLost,
         NEW k \in Key, NEW in \in Input, NEW time \in 1..MaxMs, XAdd(k, in, time)
  PROVE  InOrder' /\ Posted' /\ NoWakeupLost'
  <1>1. /\ Posted' /\ \A h : IsCalled(h) => IsCalled(h)'
        /\ \A h \in Range(waitlist[k]) : IsCalled(h)'
    BY PostIs DEF XAdd, Queued
  <1>2. UNCHANGED <<defined, waitlist, handle>>
    BY DEF XAdd
  <1>3. InOrder'
    BY <1>2 DEF Queued, InOrder
  <1>4. ASSUME NEW l \in Key, NEW h \in Handle PROVE Told(h, l)'
    <2>1. CASE l = k
      BY <1>1, <1>2, <2>1 DEF Told, Waits
    <2>2. CASE l # k
      <3>1. Data(l)' = Data(l)
        BY <2>2 DEF XAdd, Queued, AllTopped, Data, IsStream
      <3>2. Told(h, l)
        BY DEF NoWakeupLost, Told, IsCalled, IsLeft
      <3> QED BY <1>1, <1>2, <3>1, <3>2 DEF Told, Waits, Missing, IsLeft, Alive
    <2> QED BY <2>1, <2>2
  <1> QED BY <1>1, <1>3, <1>4 DEF NoWakeupLost, Told, IsCalled, IsLeft

(* A SET, or the GET that erases it, leaves nothing to read.               *)
LEMMA ReplacedTells ==
  ASSUME Queued, NoWakeupLost, NEW k \in Key, Replaced(k)
  PROVE  InOrder' /\ Posted' /\ NoWakeupLost'
  <1>1. /\ UNCHANGED <<defined, jobs, waitlist, handle, nreads>>
        /\ Data(k)' = Empty /\ \A l \in Key : l # k => Data(l)' = Data(l)
    BY ReplacedIs DEF Queued, AllTopped
  <1>2. ASSUME NEW l \in Key, NEW h \in Handle PROVE Told(h, l)'
    <2>1. CASE l = k
      <3>1. ~ Missing(h, l)'
        BY <1>1, <2>1 DEF Missing, XReadIds, Ids, Empty
      <3> QED BY <3>1 DEF Told
    <2>2. CASE l # k
      <3>1. Data(l)' = Data(l)
        BY <1>1, <2>2
      <3>2. Told(h, l)
        BY DEF NoWakeupLost, Told, IsCalled, IsLeft
      <3> QED BY <1>1, <3>1, <3>2 DEF Told, Waits, Missing, IsLeft, Alive, IsCalled
    <2> QED BY <2>1, <2>2
  <1>3. InOrder' /\ Posted'
    BY <1>1 DEF Queued, InOrder, Posted
  <1> QED BY <1>2, <1>3 DEF NoWakeupLost, Told, IsCalled, IsLeft

(* An XREAD that blocks misses nothing yet, and calls nobody off.          *)
LEMMA BlocksTells ==
  ASSUME Shape, Queued, NoWakeupLost, NEW c \in Reader, NEW keys \in Request,
         NEW from \in From, NEW ms \in Timeout, XReadBlocks(c, keys, from, ms)
  PROVE  InOrder' /\ Posted' /\ NoWakeupLost'
  <1>0. nreads \in Nat /\ nreads < MaxReads /\ nreads + 1 \in Handle
    BY StorageAssumption DEF Shape, Handle, XReadBlocks
  <1>9. PICK h \in Handle : h = nreads + 1
    BY <1>0
  <1> DEFINE request == Asks(c, keys, from)
             resolved == [i \in DOMAIN request |-> Resolve(request[i])]
  <1>1. /\ UNCHANGED <<defined, jobs, stored>> /\ nreads' = h /\ nreads < MaxReads
        /\ \A i \in DOMAIN request : Found(request[i]) = {}
        /\ handle' = [handle EXCEPT ![h] = [reader |-> c, request |-> resolved,
                                            deadline |-> now + ms, callback |-> TRUE]]
        /\ \A k \in Key : waitlist'[k] = Joined(h, keys, k)
    BY <1>9 DEF XReadBlocks, storageVars
  <1>2. nreads \in Nat /\ h \in Handle /\ h = nreads + 1
    BY <1>0, <1>9
  <1>3. ASSUME NEW k \in Key
        PROVE  /\ Sorted(waitlist'[k]) /\ Range(waitlist[k]) \subseteq Range(waitlist'[k])
               /\ Range(waitlist'[k]) \subseteq Range(waitlist[k]) \cup {h}
    <2>1. waitlist[k] \in Seq(1..nreads) /\ Sorted(waitlist[k])
      BY DEF Shape, Queued, InOrder
    <2> QED BY <1>1, <1>2, <2>1, JoinedKeeps
  <1>4. Posted'
    <2>1. 1..nreads \subseteq 1..h
      BY <1>2
    <2>2. Seq(1..nreads) \subseteq Seq(1..h)
      BY <2>1, SeqWidens
    <2>3. jobs \in Seq(Seq(1..h))
      <3> DEFINE S == Seq(1..nreads)
                 T == Seq(1..h)
      <3>1. S \subseteq T /\ jobs \in Seq(S)
        BY <2>2 DEF Queued, Posted
      <3> HIDE DEF S, T
      <3>2. jobs \in Seq(T)
        BY <3>1, SeqWidens
      <3> QED BY <3>2 DEF T
    <2> QED BY <1>1, <2>3 DEF Queued, Posted
  <1>5. /\ \A g \in Handle : g # h => handle'[g] = handle[g]
        /\ handle'[h].request = resolved
    BY <1>1, <1>2 DEF Shape
  <1>6. ASSUME NEW k \in Key PROVE ~ Missing(h, k)'
    <2> SUFFICES ASSUME NEW i \in DOMAIN request, Resolve(request[i]).key = k
                 PROVE  XReadIds(Data(k), Resolve(request[i]).id) = {}
      <3>1. Data(k)' = Data(k)
        BY <1>1 DEF Data, IsStream
      <3>2. DOMAIN handle'[h].request = DOMAIN request
            /\ \A i \in DOMAIN request : handle'[h].request[i] = Resolve(request[i])
        BY <1>5
      <3> HIDE DEF request
      <3> QED BY <3>1, <3>2 DEF Missing
    <2> DEFINE part == request[i]
    <2>1. CASE part.is_next_expected
      <3>1. DOMAIN part = {"key", "is_next_expected", "id"}
        BY DEF Asks
      <3>2. Resolve(part).key = part.key /\ Resolve(part).id = LastId(Data(part.key))
        BY <2>1, <3>1 DEF Resolve
      <3> QED BY <3>2, NothingNext DEF Queued, AllTopped
    <2>2. CASE ~ part.is_next_expected
      BY <1>1, <2>2 DEF Resolve, Found
    <2> QED BY <2>1, <2>2
  <1> HIDE DEF request, resolved
  <1>7. ASSUME NEW g, IsLeft(g) PROVE IsLeft(g)'
    <2>1. g \in 1..nreads /\ g \in Handle
      BY <1>7, AliveIsHandle DEF IsLeft
    <2>2. g # h
      BY <1>2, <2>1
    <2> QED BY <1>3, <1>5, <1>7, <2>1, <2>2 DEF IsLeft, Alive
  <1>8. ASSUME NEW k \in Key, NEW g \in Handle PROVE Told(g, k)'
    <2>1. CASE g = h
      BY <1>6, <2>1 DEF Told
    <2>2. CASE g # h
      <3>1. Waits(g, k)' => Waits(g, k)
        BY <1>3, <1>5, <2>2 DEF Waits
      <3>2. Missing(g, k)' = Missing(g, k)
        BY <1>1, <1>5, <2>2 DEF Missing, Data, IsStream
      <3>3. IsCalled(g)' = IsCalled(g)
        BY <1>1 DEF IsCalled
      <3>4. Told(g, k)
        BY DEF NoWakeupLost, Told, IsCalled, IsLeft
      <3> QED BY <1>1, <1>7, <3>1, <3>2, <3>3, <3>4 DEF Told
    <2> QED BY <2>1, <2>2
  <1> QED BY <1>3, <1>4, <1>8 DEF InOrder, NoWakeupLost, Told, IsCalled, IsLeft

(* An answer: the others that miss something are still called.             *)
LEMMA ReplyTells ==
  ASSUME Shape, InOrder, NoWakeupLost, NEW h \in Handle, NEW how, Reply(h, how),
         UNCHANGED stored, \A g : g # h /\ IsCalled(g) => IsCalled(g)'
  PROVE  InOrder' /\ NoWakeupLost'
  <1>1. /\ InOrder'
        /\ \A g : Alive(g) /\ g # h => Alive(g)'
        /\ \A g \in Handle : g # h => handle'[g] = handle[g]
        /\ handle'[h].callback = FALSE
        /\ \A k \in Key : Range(waitlist'[k]) \subseteq Range(waitlist[k])
    BY ReplyOrder
  <1>2. UNCHANGED <<defined, stored>> /\ handle[h].callback
    BY DEF Reply
  <1>3. ASSUME NEW g \in Handle, IsLeft(g) PROVE IsLeft(g)'
    BY <1>1, <1>2, <1>3 DEF IsLeft
  <1>4. ASSUME NEW k \in Key, NEW g \in Handle PROVE Told(g, k)'
    <2>1. CASE g = h
      BY <1>1, <2>1 DEF Told, Waits
    <2>2. CASE g # h
      <3>1. Waits(g, k)' => Waits(g, k)
        BY <1>1, <2>2 DEF Waits
      <3>2. Missing(g, k)' = Missing(g, k)
        BY <1>1, <1>2, <2>2 DEF Missing, Data, IsStream
      <3>3. Told(g, k)
        BY DEF NoWakeupLost, Told, IsCalled, IsLeft
      <3> QED BY <1>2, <1>3, <2>2, <3>1, <3>2, <3>3 DEF Told
    <2> QED BY <2>1, <2>2
  <1> QED BY <1>1, <1>4 DEF NoWakeupLost, Told, IsCalled, IsLeft

(* A job: its first handle is answered, is gone, or throws; then those     *)
(* behind it are newer than an answered handle that is left.               *)
LEMMA RunJobTells ==
  ASSUME Shape, Queued, NoWakeupLost, RunJob
  PROVE  InOrder' /\ Posted' /\ NoWakeupLost'
  <1>0. PICK h : h = Head(Head(jobs))
    OBVIOUS
  <1>1. jobs # <<>> /\ UNCHANGED <<nreads, stored>> /\ nreads \in Nat
    BY StorageAssumption DEF RunJob, storageVars, Shape
  <1>2. /\ Rest \in Seq(Seq(1..nreads))
        /\ \A i \in 1..Len(Rest) : Rest[i] # <<>> /\ Sorted(Rest[i])
        /\ \A g : IsCalled(g) => g = h \/ \E i \in DOMAIN Rest : g \in Range(Rest[i])
    BY <1>0, <1>1, RestIs DEF Queued
  <1>3. ASSUME jobs' = Rest
        PROVE  Posted' /\ \A g : g # h /\ IsCalled(g) => IsCalled(g)'
    BY <1>1, <1>2, <1>3 DEF Posted, IsCalled
  <1>4. CASE Alive(h) /\ jobs' = Rest /\ Reply(h, "woken")
    <2>1. h \in Handle
      BY <1>4, AliveIsHandle
    <2> QED BY <1>1, <1>3, <1>4, <2>1, ReplyTells DEF Queued
  <1>5. CASE /\ ~ Alive(h) /\ jobs' = Rest
             /\ UNCHANGED <<defined, reader, handle, waitlist>>
    <2>1. ASSUME NEW k \in Key, NEW g \in Handle PROVE Told(g, k)'
      <3>1. Waits(g, k) => g # h
        BY <1>5 DEF Waits, Alive
      <3>2. Told(g, k)
        BY DEF NoWakeupLost, Told, IsCalled, IsLeft
      <3>3. Data(k)' = Data(k)
        BY <1>1 DEF Data, IsStream
      <3> QED BY <1>3, <1>5, <3>1, <3>2, <3>3 DEF Told, Waits, Missing, IsLeft, Alive
    <2> QED BY <1>3, <1>5, <2>1 DEF Queued, InOrder, NoWakeupLost, Told, IsCalled, IsLeft
  <1>6. CASE Alive(h) /\ jobs' = Rest /\ ReplyMiscasts(h)
    BY <1>3, <1>6 DEF ReplyMiscasts, Queued, InOrder, NoWakeupLost
  <1>7. CASE Alive(h) /\ jobs' = Tail(jobs) /\ ReplyThrows(h)
    <2> DEFINE S == Seq(1..nreads)
               j == Head(jobs)
    <2>1. h \in Handle /\ IsLeft(h)
      BY <1>7, AliveIsHandle DEF IsLeft, ReplyThrows
    <2>2. /\ jobs' \in Seq(S) /\ Len(jobs) \in Nat \ {0} /\ Len(jobs') = Len(jobs) - 1
          /\ j = jobs[1] /\ j \in S
          /\ \A i \in 1..Len(jobs) - 1 : jobs'[i] = jobs[i + 1]
      <3>1. jobs \in Seq(S)
        BY DEF Queued, Posted
      <3> HIDE DEF S
      <3> QED BY <1>1, <1>7, <3>1, TailIs
    <2>3. Posted'
      BY <1>1, <2>2, SMTT(40) DEF Queued, Posted
    <2>4. j # <<>> /\ Sorted(j)
      BY <2>2 DEF Queued, Posted
    <2>5. \A g \in Range(j) : h <= g
      BY <1>0, <1>1, <2>2, <2>4, TailSorted
    <2>6. ASSUME NEW g, IsCalled(g) PROVE g \in Range(j) \/ IsCalled(g)'
      <3>1. PICK i \in DOMAIN jobs : g \in Range(jobs[i])
        BY <2>6 DEF IsCalled
      <3>2. i \in 1..Len(jobs)
        BY <3>1 DEF Queued, Posted
      <3>3. CASE i = 1
        BY <2>2, <3>1, <3>3
      <3>4. CASE i # 1
        <4>1. i - 1 \in 1..Len(jobs') /\ jobs'[i - 1] = jobs[i]
          BY <2>2, <3>2, <3>4
        <4>2. DOMAIN jobs' = 1..Len(jobs')
          BY <2>2
        <4> QED BY <3>1, <4>1, <4>2 DEF IsCalled
      <3> QED BY <3>3, <3>4
    <2>7. UNCHANGED <<defined, handle, waitlist>>
      BY <1>7 DEF ReplyThrows
    <2>8. ASSUME NEW k \in Key, NEW g \in Handle PROVE Told(g, k)'
      <3>1. Told(g, k)
        BY DEF NoWakeupLost, Told, IsCalled, IsLeft
      <3>2. Data(k)' = Data(k)
        BY <1>1 DEF Data, IsStream
      <3>3. CASE Waits(g, k) /\ g \in Range(j)
        <4>1. g # h
          BY <2>1, <3>3 DEF Waits, IsLeft
        <4>2. g \in Int /\ h \in Int /\ h <= g
          BY <2>1, <2>5, <3>3, StorageAssumption DEF Handle
        <4>3. h < g
          BY <4>1, <4>2
        <4> QED BY <2>1, <2>7, <4>3 DEF Told, IsLeft, Alive
      <3>4. CASE ~ (Waits(g, k) /\ g \in Range(j))
        BY <2>6, <2>7, <3>1, <3>2, <3>4 DEF Told, Waits, Missing, IsLeft, Alive
      <3> QED BY <3>3, <3>4
    <2> QED BY <2>3, <2>7, <2>8 DEF Queued, InOrder, NoWakeupLost, Told, IsCalled, IsLeft
  <1> QED BY <1>0, <1>4, <1>5, <1>6, <1>7 DEF RunJob

(* A step of any kind keeps waitlists and jobs in order, and loses no      *)
(* wake-up.                                                                *)
LEMMA WakeupStep ==
  ASSUME Shape, Queued, NoWakeupLost, [Next]_vars
  PROVE  Queued' /\ NoWakeupLost'
  <1> DEFINE Goal == InOrder' /\ Posted' /\ NoWakeupLost'
  <1>0. AllTopped'
    BY ToppedStep DEF Queued
  <1>1. ASSUME NEW k \in Key, NEW in \in Input, NEW time \in 1..MaxMs, XAdd(k, in, time)
        PROVE  Goal
    BY <1>1, XAddTells
  <1>2. ASSUME NEW k \in SetKey \cup PxKey, NEW px \in BOOLEAN, Set(k, px) \/ Get(k) PROVE Goal
    BY <1>2, ReplacedTells, StorageAssumption DEF Replaced
  <1>3. ASSUME NEW c \in Reader, NEW keys \in Request, NEW from \in From, NEW ms \in Timeout,
               XReadBlocks(c, keys, from, ms)
        PROVE  Goal
    BY <1>3, BlocksTells
  <1>4. ASSUME RunJob PROVE Goal
    BY <1>4, RunJobTells
  <1>5. ASSUME NEW h \in Handle, RunTimeout(h) PROVE Goal
    <2>1. UNCHANGED <<jobs, stored, nreads>>
      BY <1>5 DEF RunTimeout, storageVars
    <2>2. CASE Reply(h, "timeout")
      <3>1. \A g : IsCalled(g) => IsCalled(g)'
        BY <2>1 DEF IsCalled
      <3> QED BY <2>1, <2>2, <3>1, ReplyTells DEF Queued, Posted
    <2>3. CASE ReplyMiscasts(h)
      BY <2>1, <2>3 DEF ReplyMiscasts, Queued, InOrder, Posted, NoWakeupLost
    <2>4. CASE ReplyThrows(h)
      BY <2>1, <2>4 DEF ReplyThrows, Queued, InOrder, Posted, NoWakeupLost, Waits, Missing,
         Data, IsStream, Alive
    <2> QED BY <1>5, <2>2, <2>3, <2>4 DEF RunTimeout
  <1>6. ASSUME UNCHANGED <<defined, jobs, stored, waitlist, handle, nreads>> PROVE Goal
    BY <1>6 DEF Queued, InOrder, Posted, NoWakeupLost, Waits, Missing, Data, IsStream, Alive
  <1>7. ASSUME NEW c \in Reader, NEW keys \in Request, XReadMiscasts(c, keys) PROVE Goal
    BY <1>7 DEF XReadMiscasts, Queued, InOrder, Posted, NoWakeupLost
  <1>8. ASSUME NEW k \in Key, NEW left \in Bound, NEW right \in Bound,
               XRangeUndefined(k, left, right)
        PROVE  Goal
    BY <1>8 DEF XRangeUndefined, Queued, InOrder, Posted, NoWakeupLost
  <1>9. ASSUME NEW c \in Reader, NEW keys \in Request, NEW from \in From,
               XReadAtOnce(c, keys, from)
        PROVE  Goal
    BY <1>6, <1>9 DEF XReadAtOnce, storageVars
  <1>10. ASSUME JobsDone \/ PollDone \/ TimeoutsDone \/ Tick PROVE Goal
    BY <1>6, <1>10 DEF JobsDone, PollDone, TimeoutsDone, Tick, Turn, storageVars
  <1>11. ASSUME UNCHANGED vars PROVE Goal
    BY <1>6, <1>11 DEF vars, storageVars
  <1> HIDE DEF Goal
  <1>12. Goal
    BY <1>1, <1>2, <1>3, <1>4, <1>5, <1>7, <1>8, <1>9, <1>10, <1>11 DEF Next
  <1> QED BY <1>0, <1>12 DEF Goal, Queued

(* The state at first: nobody waits, and nothing is posted.                *)
LEMMA WakeupInit == Init => Queued /\ NoWakeupLost
  <1> SUFFICES ASSUME Init PROVE Queued /\ NoWakeupLost
    OBVIOUS
  <1>1. \A k \in Key : Data(k) = Empty /\ waitlist[k] = <<>>
    BY DEF Init, Data, IsStream
  <1>2. AllTopped
    BY <1>1 DEF Init, AllTopped, Topped, Empty, Ids
  <1>3. InOrder /\ NoWakeupLost
    BY <1>1 DEF InOrder, Sorted, NoWakeupLost, Waits, Range
  <1>4. Posted
    BY DEF Init, Posted
  <1> QED BY <1>2, <1>3, <1>4 DEF Queued

(* Waitlists and jobs are in order in every run, and no wake-up is lost.   *)
THEOREM QueuedCorrect == Spec => [](Queued /\ NoWakeupLost)
  <1>1. (Shape /\ Linked) /\ (Queued /\ NoWakeupLost) /\ [Next]_vars => (Queued /\ NoWakeupLost)'
    BY WakeupStep
  <1> QED BY LinkedCorrect, WakeupInit, <1>1, PTL DEF Spec

(* No wake-up is lost: a blocked XREAD for which an entry has arrived is   *)
(* in a job still to be run, unless an older XREAD was answered and is     *)
(* still in a waitlist; for any requests, ids that wrap included.          *)
THEOREM WakeupCorrect == Spec => []NoWakeupLost
  BY QueuedCorrect, PTL

(* A blocked XREAD for which an entry has arrived is in a job still to be  *)
(* run.                                                                    *)
AllCalled ==
    \A k \in Key, h \in Handle : defined /\ Waits(h, k) /\ Missing(h, k) => IsCalled(h)

(* If no request names a key twice, every blocked XREAD for which an entry *)
(* has arrived is in a job.                                                *)
THEOREM NoneStarves == ASSUME NoTwice PROVE Spec => []AllCalled
  <1>1. NoHandleLeft /\ NoWakeupLost => AllCalled
    BY DEF NoHandleLeft, NoWakeupLost, AllCalled, IsCalled, Alive
  <1> QED BY WakeupCorrect, NoneLeft, <1>1, PTL

-----------------------------------------------------------------------------
(* The entries between two places of what XADD returned.                   *)

(* The ids XADD returned for k, from the a-th to the b-th.                 *)
Stretch(k, a, b) == {log[k][i] : i \in a..b}

(* A stretch has as many ids as it is long.                                *)
LEMMA StretchSize ==
  ASSUME NEW k \in Key, Kept(k), NEW a \in 1..Len(log[k]) + 1, NEW b \in 0..Len(log[k]), a <= b + 1
  PROVE  IsFiniteSet(Stretch(k, a, b)) /\ Cardinality(Stretch(k, a, b)) = b - a + 1
  <1> DEFINE S == Stretch(k, a, b)
             n == b - a + 1
             f == [i \in 1..n |-> log[k][a + i - 1]]
  <1>1. n \in Nat /\ Len(log[k]) \in Nat
    BY DEF Kept
  <1>2. ASSUME NEW i \in 1..n PROVE a + i - 1 \in a..b /\ a + i - 1 \in 1..Len(log[k])
    BY <1>1
  <1>3. f \in [1..n -> S]
    BY <1>2 DEF Stretch
  <1>4. ASSUME NEW i \in 1..n, NEW j \in 1..n, f[i] = f[j] PROVE i = j
    <2>1. log[k][a + i - 1] \in Id /\ log[k][a + j - 1] \in Id
      BY <1>2 DEF Kept
    <2>2. log[k][a + i - 1] = log[k][a + j - 1]
      BY <1>4
    <2>3. ~ (a + i - 1 < a + j - 1) /\ ~ (a + j - 1 < a + i - 1)
      BY <1>2, <2>1, <2>2, LessIrreflexive DEF Kept
    <2> QED BY <1>1, <2>3
  <1>5. ASSUME NEW t \in S PROVE \E i \in 1..n : f[i] = t
    <2>1. PICK m \in a..b : t = log[k][m]
      BY <1>5 DEF Stretch
    <2>2. m - a + 1 \in 1..n /\ a + (m - a + 1) - 1 = m
      BY <2>1
    <2>3. f[m - a + 1] = t
      BY <2>1, <2>2
    <2> QED BY <2>2, <2>3
  <1> HIDE DEF f, S, n
  <1>6. f \in Bijection(1..n, S)
    BY <1>3, <1>4, <1>5, Fun_IsBij
  <1>7. ExistsBijection(1..n, S)
    BY <1>6, Fun_ExistsBij
  <1>8. Cardinality(S) = n
    BY <1>1, <1>7, FS_CountingElements
  <1>9. IsFiniteSet(S)
    BY <1>1, <1>7, FS_NatBijection
  <1> QED BY <1>8, <1>9 DEF S, n

(* The entries of a stretch are those XADD numbered from a to b, in order. *)
LEMMA StretchEntries ==
  ASSUME NEW k \in Key, Kept(k), IsStream(k),
         NEW a \in 1..Len(log[k]) + 1, NEW b \in 0..Len(log[k]), a <= b + 1
  PROVE  Entries(k, Stretch(k, a, b)) = [m \in 1..(b - a + 1) |-> a + m - 1]
  <1> DEFINE S == Stretch(k, a, b)
             below(x) == {j \in S : Less(j, x)}
             nth(n) == CHOOSE i \in S : Cardinality(below(i)) = n - 1
  <1>0. Len(log[k]) \in Nat /\ b - a + 1 \in Nat /\ a \in Int /\ b \in Int
    BY DEF Kept
  <1>1. ASSUME NEW m \in a..b PROVE Cardinality(below(log[k][m])) = m - a
    <2>1. below(log[k][m]) = Stretch(k, a, m - 1)
      <3>1. ASSUME NEW i \in a..b PROVE Less(log[k][i], log[k][m]) <=> i < m
        <4>1. i \in 1..Len(log[k]) /\ m \in 1..Len(log[k])
          BY <1>0
        <4>2. log[k][i] \in Id /\ log[k][m] \in Id
          BY <4>1 DEF Kept
        <4>3. CASE i < m
          BY <4>1, <4>3 DEF Kept
        <4>4. CASE i = m
          BY <4>2, <4>4, LessIrreflexive
        <4>5. CASE m < i
          <5>1. Less(log[k][m], log[k][i])
            BY <4>1, <4>5 DEF Kept
          <5>2. ~ Less(log[k][i], log[k][m])
            BY <4>2, <5>1, LessTransitive, LessIrreflexive
          <5> QED BY <4>5, <5>2
        <4> QED BY <4>3, <4>4, <4>5
      <3>2. \A i \in a..b : i < m <=> i \in a..m - 1
        OBVIOUS
      <3>3. \A i \in a..m - 1 : i \in a..b
        OBVIOUS
      <3> QED BY <3>1, <3>2, <3>3 DEF Stretch
    <2>2. m - 1 \in 0..Len(log[k]) /\ a <= (m - 1) + 1
      BY <1>0
    <2>3. Cardinality(Stretch(k, a, m - 1)) = (m - 1) - a + 1
      BY <2>2, StretchSize
    <2>4. (m - 1) - a + 1 = m - a
      BY <1>0
    <2> QED BY <2>1, <2>3, <2>4
  <1>2. ASSUME NEW n \in 1..(b - a + 1) PROVE nth(n) = log[k][a + n - 1]
    <2>1. a + n - 1 \in a..b
      BY <1>0
    <2>2. log[k][a + n - 1] \in S /\ Cardinality(below(log[k][a + n - 1])) = n - 1
      <3>1. Cardinality(below(log[k][a + n - 1])) = (a + n - 1) - a
        BY <1>1, <2>1
      <3> QED BY <2>1, <3>1 DEF Stretch
    <2>3. ASSUME NEW x \in S, Cardinality(below(x)) = n - 1 PROVE x = log[k][a + n - 1]
      <3>1. PICK m \in a..b : x = log[k][m]
        BY <2>3 DEF Stretch
      <3>2. m - a = n - 1
        BY <1>1, <2>3, <3>1
      <3>3. m = a + n - 1
        BY <3>2
      <3> QED BY <3>1, <3>3
    <2> HIDE DEF S, below
    <2> QED BY <2>2, <2>3
  <1>3. Cardinality(S) = b - a + 1
    BY StretchSize
  <1>4. ASSUME NEW n \in 1..(b - a + 1) PROVE Data(k)[log[k][a + n - 1]] = a + n - 1
    <2>1. a + n - 1 \in 1..Len(log[k])
      BY <1>0
    <2> QED BY <2>1 DEF Kept, Data
  <1>5. Entries(k, S) = [n \in 1..Cardinality(S) |-> Data(k)[nth(n)]]
    BY DEF Entries
  <1> HIDE DEF S, nth
  <1>6. Entries(k, S) = [n \in 1..(b - a + 1) |-> a + n - 1]
    BY <1>2, <1>3, <1>4, <1>5
  <1> QED BY <1>6 DEF S

(* What a stream holds is what XADD returned, from first to last.          *)
LEMMA HeldIds ==
  ASSUME NEW k \in Key, Kept(k), IsStream(k)
  PROVE  Ids(Data(k)) = Stretch(k, 1, Len(log[k])) /\ Ids(Data(k)) \subseteq Id
  <1>1. Len(log[k]) \in Nat /\ \A i \in 1..Len(log[k]) : log[k][i] \in Id
    BY DEF Kept
  <1> QED BY <1>1 DEF Kept, Data, Stretch

(* The order of what XADD returned is the order of the ids.                *)
LEMMA LogOrder ==
  ASSUME NEW k \in Key, Kept(k), NEW i \in 1..Len(log[k]), NEW j \in 1..Len(log[k])
  PROVE  log[k][i] \in Id /\ (Less(log[k][i], log[k][j]) <=> i < j)
  <1>1. log[k][i] \in Id /\ log[k][j] \in Id /\ i \in Int /\ j \in Int
    BY DEF Kept
  <1>2. CASE i < j
    BY <1>1, <1>2 DEF Kept
  <1>3. CASE i = j
    BY <1>1, <1>3, LessIrreflexive
  <1>4. CASE j < i
    <2>1. Less(log[k][j], log[k][i])
      BY <1>4 DEF Kept
    <2> QED BY <1>1, <1>4, <2>1, LessTransitive, LessIrreflexive
  <1> QED BY <1>1, <1>2, <1>3, <1>4

(* XRANGE between the ids two XADDs returned gives exactly what was added  *)
(* from the one to the other, in order; - and + give it all; and a range   *)
(* ends where it should if its bounds are in order.                        *)
THEOREM RangeCorrect == ASSUME NoWrap PROVE Spec => []RangeIsLog
  <1>1. ASSUME AllKept, NEW k \in Key, IsStream(k),
               NEW i \in 1..Len(log[k]), NEW j \in i..Len(log[k])
        PROVE  Entries(k, XRangeIds(Data(k), At(log[k][i]), At(log[k][j])))
                 = [m \in 1..(j - i + 1) |-> i + m - 1]
    <2>0. Kept(k)
      BY <1>1 DEF AllKept
    <2>1. Kept(k) /\ Len(log[k]) \in Nat
      BY <2>0 DEF Kept
    <2>2. i \in 1..Len(log[k]) + 1 /\ j \in 0..Len(log[k]) /\ i <= j + 1 /\ j \in 1..Len(log[k])
      BY <2>1
    <2>3. XRangeIds(Data(k), At(log[k][i]), At(log[k][j])) = Stretch(k, i, j)
      <3>1. ASSUME NEW m \in 1..Len(log[k])
            PROVE  ~ Less(log[k][m], log[k][i]) /\ ~ Less(log[k][j], log[k][m]) <=> m \in i..j
        <4>1. (Less(log[k][m], log[k][i]) <=> m < i) /\ (Less(log[k][j], log[k][m]) <=> j < m)
          BY <2>1, <2>2, LogOrder
        <4> QED BY <2>2, <4>1
      <3>2. \A m \in i..j : m \in 1..Len(log[k])
        BY <2>2
      <3>3. XRangeIds(Data(k), At(log[k][i]), At(log[k][j]))
              = {x \in Ids(Data(k)) : ~ Less(x, log[k][i]) /\ ~ Less(log[k][j], x)}
        BY DEF XRangeIds, FromLeft, ToRight, At
      <3>4. Ids(Data(k)) = {log[k][m] : m \in 1..Len(log[k])}
        BY <1>1, <2>1, HeldIds DEF Stretch
      <3> QED BY <3>1, <3>2, <3>3, <3>4 DEF Stretch
    <2> QED BY <1>1, <2>1, <2>2, <2>3, StretchEntries
  <1>2. ASSUME AllKept, NEW k \in Key, IsStream(k)
        PROVE  Entries(k, XRangeIds(Data(k), Leftmost, Rightmost)) = [m \in 1..Len(log[k]) |-> m]
    <2>0. Kept(k)
      BY <1>2 DEF AllKept
    <2>1. Kept(k) /\ Len(log[k]) \in Nat
      BY <2>0 DEF Kept
    <2>2. Ids(Data(k)) = Stretch(k, 1, Len(log[k])) /\ Ids(Data(k)) \subseteq Id
      BY <1>2, <2>1, HeldIds
    <2>3. \A x \in Id : ~ Less(x, Null)
      BY StreamAssumption DEF Id, Less, Null, StreamId
    <2>4. XRangeIds(Data(k), Leftmost, Rightmost) = Stretch(k, 1, Len(log[k]))
      BY <2>2, <2>3 DEF XRangeIds, FromLeft, ToRight, Leftmost, Rightmost
    <2>5. Entries(k, Stretch(k, 1, Len(log[k]))) = [m \in 1..(Len(log[k]) - 1 + 1) |-> 1 + m - 1]
      <3>1. 1 \in 1..Len(log[k]) + 1 /\ Len(log[k]) \in 0..Len(log[k]) /\ 1 <= Len(log[k]) + 1
        BY <2>1
      <3> QED BY <1>2, <2>1, <3>1, StretchEntries
    <2> QED BY <2>1, <2>4, <2>5
  <1>3. ASSUME AllKept, NEW k \in Key, IsStream(k), NEW i \in Id, NEW j \in Id
        PROVE  Less(j, i) \/ ~ Overruns(Data(k), At(i), At(j))
    <2>1. Ids(Data(k)) \subseteq Id
      BY <1>3, HeldIds DEF AllKept
    <2> QED BY <2>1, LessTransitive DEF Overruns, FromLeft, ToRight, At
  <1>4. AllKept => RangeIsLog
    BY <1>1, <1>2, <1>3 DEF RangeIsLog
  <1> QED BY KeptCorrect, <1>4, PTL

-----------------------------------------------------------------------------
(* What an XREAD finds.                                                    *)

(* The first m ids XADD returned for k are not above an id, the others are. *)
Cut(k, id, m) == /\ m \in 0..Len(log[k])
                 /\ \A i \in 1..Len(log[k]) : Less(id, log[k][i]) <=> m < i

(* Any id cuts what XADD returned in two.                                  *)
LEMMA CutExists ==
  ASSUME NEW k \in Key, Kept(k), NEW id \in Id
  PROVE  \E m \in 0..Len(log[k]) : Cut(k, id, m)
  <1> DEFINE I == {i \in 1..Len(log[k]) : ~ Less(id, log[k][i])}
  <1>1. Len(log[k]) \in Nat
    BY DEF Kept
  <1>2. CASE I = {}
    <2>1. Cut(k, id, 0)
      BY <1>1, <1>2 DEF Cut
    <2> QED BY <1>1, <2>1
  <1>3. CASE I # {}
    <2>1. PICK m \in I : \A i \in I : i <= m
      <3>1. I \subseteq 1..Len(log[k])
        OBVIOUS
      <3> HIDE DEF I
      <3> QED BY <1>1, <1>3, <3>1, LastIndex
    <2>2. m \in 1..Len(log[k]) /\ ~ Less(id, log[k][m])
      BY <2>1
    <2>3. ASSUME NEW i \in 1..Len(log[k]) PROVE Less(id, log[k][i]) <=> m < i
      <3>1. CASE i <= m
        <4>1. log[k][i] = log[k][m] \/ Less(log[k][i], log[k][m])
          BY <2>2, <3>1, LogOrder
        <4>2. ~ Less(id, log[k][i])
          BY <2>2, <4>1, LogOrder, LessTransitive
        <4> QED BY <2>2, <3>1, <4>2
      <3>2. CASE m < i
        BY <2>1, <2>2, <3>2
      <3> QED BY <2>2, <3>1, <3>2
    <2>4. Cut(k, id, m)
      BY <1>1, <2>2, <2>3 DEF Cut
    <2> QED BY <2>2, <2>4
  <1> QED BY <1>2, <1>3

(* The numbers from a to b.                                                *)
Run(a, b) == [j \in 1..(b - a + 1) |-> a + j - 1]

(* Two runs, the second of which goes on where the first one ends.         *)
LEMMA RunsJoin ==
  ASSUME NEW a \in Nat, NEW b \in Nat, NEW n \in Nat, a <= b + 1, b <= n
  PROVE  Run(a, b) \o Run(b + 1, n) = Run(a, n)
  <1> DEFINE s == Run(a, b)
             t == Run(b + 1, n)
  <1>1. s \in Seq(Nat) /\ Len(s) = b - a + 1 /\ \A j \in 1..(b - a + 1) : s[j] = a + j - 1
    BY DEF Run
  <1>2. t \in Seq(Nat) /\ Len(t) = n - b /\ \A j \in 1..(n - b) : t[j] = b + j
    BY DEF Run
  <1> HIDE DEF s, t
  <1> DEFINE u == s \o t
  <1>3. /\ u \in Seq(Nat) /\ Len(u) = Len(s) + Len(t)
        /\ \A j \in 1..Len(s) : u[j] = s[j]
        /\ \A j \in 1..Len(t) : u[Len(s) + j] = t[j]
    <2>1. s \in Seq(Nat) /\ t \in Seq(Nat)
      BY <1>1, <1>2
    <2> QED BY <2>1, Concatenated
  <1> HIDE DEF u
  <1>4. Len(u) = n - a + 1 /\ n - a + 1 \in Nat
    BY <1>1, <1>2, <1>3
  <1>5. ASSUME NEW j \in 1..(n - a + 1) PROVE u[j] = a + j - 1
    <2>0. j \in Int /\ b - a + 1 \in Int
      OBVIOUS
    <2>1. CASE j <= b - a + 1
      BY <1>1, <1>3, <2>1
    <2>2. CASE ~ (j <= b - a + 1)
      <3>1. j - (b - a + 1) \in 1..(n - b) /\ (b - a + 1) + (j - (b - a + 1)) = j
        BY <2>2
      <3>2. u[j] = t[j - (b - a + 1)]
        BY <1>1, <1>2, <1>3, <3>1
      <3> QED BY <1>2, <3>1, <3>2
    <2> QED BY <2>1, <2>2
  <1>6. u = [j \in 1..(n - a + 1) |-> a + j - 1]
    BY <1>3, <1>4, <1>5
  <1> QED BY <1>6 DEF s, t, u, Run

(* An XREAD after an id finds what follows the cut, in order.              *)
LEMMA ReadIs ==
  ASSUME NEW k \in Key, Kept(k), stored[k].type # "string",
         NEW id \in Id, NEW m \in 0..Len(log[k]), Cut(k, id, m)
  PROVE  /\ XReadIds(Data(k), id) = Stretch(k, m + 1, Len(log[k]))
         /\ Entries(k, XReadIds(Data(k), id)) = Run(m + 1, Len(log[k]))
  <1>0. Len(log[k]) \in Nat /\ \A i \in 1..Len(log[k]) : log[k][i] \in Id
    BY DEF Kept
  <1>1. CASE IsStream(k)
    <2>1. Ids(Data(k)) = {log[k][i] : i \in 1..Len(log[k])} /\ Ids(Data(k)) \subseteq Id
      BY <1>1, HeldIds DEF Stretch
    <2>2. XReadIds(Data(k), id) = {j \in Ids(Data(k)) : Less(id, j)}
      BY <2>1, LessTotal, LessIrreflexive, LessTransitive DEF XReadIds
    <2>3. \A i \in 1..Len(log[k]) : Less(id, log[k][i]) <=> i \in m + 1..Len(log[k])
      BY <1>0 DEF Cut
    <2>4. \A i \in m + 1..Len(log[k]) : i \in 1..Len(log[k])
      BY <1>0
    <2>5. XReadIds(Data(k), id) = Stretch(k, m + 1, Len(log[k]))
      BY <2>1, <2>2, <2>3, <2>4 DEF Stretch
    <2>6. m + 1 \in 1..Len(log[k]) + 1 /\ Len(log[k]) \in 0..Len(log[k]) /\ m + 1 <= Len(log[k]) + 1
      BY <1>0
    <2>7. Entries(k, Stretch(k, m + 1, Len(log[k]))) = Run(m + 1, Len(log[k]))
      BY <1>1, <2>6, StretchEntries DEF Run
    <2> QED BY <2>5, <2>7
  <1>2. CASE stored[k].type = "none"
    <2>1. Data(k) = Empty /\ Len(log[k]) = 0 /\ m = 0
      BY <1>2 DEF Data, IsStream, Kept
    <2>2. XReadIds(Data(k), id) = {}
      BY <2>1 DEF XReadIds, Ids, Empty
    <2>3. Stretch(k, m + 1, Len(log[k])) = {}
      BY <2>1 DEF Stretch
    <2>4. Entries(k, {}) = <<>>
      BY FS_EmptySet DEF Entries
    <2>5. Run(m + 1, Len(log[k])) = <<>>
      BY <2>1 DEF Run
    <2> QED BY <2>2, <2>3, <2>4, <2>5
  <1> QED BY <1>1, <1>2 DEF Kept, IsStream

(* The largest of a set of ids.                                            *)
Largest(ids) == CHOOSE i \in ids : \A j \in ids : ~ Less(i, j)

(* The largest id of a stretch is its last one.                            *)
LEMMA LargestOf ==
  ASSUME NEW k \in Key, Kept(k), NEW m \in 0..Len(log[k]), m < Len(log[k])
  PROVE  Largest(Stretch(k, m + 1, Len(log[k]))) = log[k][Len(log[k])]
  <1> DEFINE n == Len(log[k])
             ids == Stretch(k, m + 1, n)
  <1>1. n \in 1..n /\ n \in m + 1..n /\ \A i \in m + 1..n : i \in 1..n
    BY DEF Kept
  <1>2. log[k][n] \in ids /\ \A j \in ids : ~ Less(log[k][n], j)
    BY <1>1, LogOrder DEF Stretch
  <1>3. ASSUME NEW i \in ids, \A j \in ids : ~ Less(i, j) PROVE i = log[k][n]
    <2>1. PICK x \in m + 1..n : i = log[k][x]
      BY <1>3 DEF Stretch
    <2>2. ~ Less(log[k][x], log[k][n])
      BY <1>2, <1>3, <2>1
    <2>3. x = n
      BY <1>1, <2>2, LogOrder
    <2> QED BY <2>1, <2>3
  <1> HIDE DEF ids
  <1>4. Largest(ids) = log[k][n]
    BY <1>2, <1>3 DEF Largest
  <1> QED BY <1>4 DEF ids

-----------------------------------------------------------------------------
(* FlattenSeq of a sequence in which at most one member is not empty.      *)

Joins(f, s, n) == f = [i \in 1..n |-> IF i = 1 THEN s[i] ELSE f[i - 1] \o s[i]]

(* Only one function joins the members of a sequence.                      *)
LEMMA JoinsUnique ==
  ASSUME NEW n \in Nat, NEW s, NEW f, NEW g, Joins(f, s, n), Joins(g, s, n)
  PROVE  \A i \in 1..n : f[i] = g[i]
  <1> DEFINE D == {j \in 1..n : f[j] # g[j]}
  <1>1. SUFFICES ASSUME D # {} PROVE FALSE
    OBVIOUS
  <1>2. D \subseteq Nat
    OBVIOUS
  <1>3. PICK m \in D : \A y \in D : ~ (<<y, m>> \in OpToRel(<, Nat))
    <2> HIDE DEF D
    <2> QED BY <1>1, <1>2, NatLessThanWellFounded, WFMin
  <1>4. m \in 1..n /\ f[m] # g[m]
    BY <1>3
  <1>5. m # 1
    BY <1>4 DEF Joins
  <1>6. m - 1 \in 1..n /\ m - 1 \in Nat /\ m \in Nat /\ m - 1 < m
    BY <1>4, <1>5
  <1>7. m - 1 \notin D
    BY <1>3, <1>6 DEF OpToRel
  <1>8. f[m - 1] = g[m - 1]
    BY <1>6, <1>7
  <1>9. f[m] = f[m - 1] \o s[m] /\ g[m] = g[m - 1] \o s[m]
    BY <1>4, <1>5 DEF Joins
  <1> QED BY <1>4, <1>8, <1>9

(* That one member is what is left.                                        *)
LEMMA FlattenOne ==
  ASSUME NEW S, NEW s \in Seq(Seq(S)), NEW p \in Nat, NEW e \in Seq(S),
         \A i \in 1..Len(s) : s[i] = IF i = p THEN e ELSE <<>>
  PROVE  FlattenSeq(s) = IF p \in 1..Len(s) THEN e ELSE <<>>
  <1>0. PICK n \in Nat : n = Len(s)
    OBVIOUS
  <1>1. Len(s) = n /\ \A i \in 1..n : s[i] = IF i = p THEN e ELSE <<>>
    BY <1>0
  <1>2. CASE n = 0
    <2>1. s = <<>> /\ p \notin 1..Len(s)
      BY <1>1, <1>2
    <2> QED BY <1>1, <1>2, <2>1 DEF FlattenSeq
  <1>3. CASE n # 0
    <2> DEFINE g == [i \in 1..n |-> IF p \in 1..i THEN e ELSE <<>>]
               f == CHOOSE f : Joins(f, s, n)
    <2>1. ASSUME NEW i \in 1..n PROVE g[i] = IF i = 1 THEN s[i] ELSE g[i - 1] \o s[i]
      <3>1. CASE i = 1
        BY <1>1, <3>1
      <3>2. CASE i # 1
        <4>1. i - 1 \in 1..n /\ g[i - 1] = IF p \in 1..i - 1 THEN e ELSE <<>>
          BY <3>2
        <4>2. e \o <<>> = e /\ <<>> \o e = e /\ <<>> \o <<>> = <<>>
          OBVIOUS
        <4>3. CASE p \in 1..i - 1
          <5>1. s[i] = <<>> /\ g[i] = e /\ g[i - 1] = e
              BY <1>1, <4>1, <4>3
          <5> QED BY <3>2, <4>2, <5>1
        <4>4. CASE p = i
          <5>1. s[i] = e /\ g[i] = e /\ g[i - 1] = <<>>
              BY <1>1, <4>1, <4>4
          <5> QED BY <3>2, <4>2, <5>1
        <4>5. CASE p \notin 1..i
          <5>1. s[i] = <<>> /\ g[i] = <<>> /\ g[i - 1] = <<>>
              BY <1>1, <4>1, <4>5
          <5> QED BY <3>2, <4>2, <5>1
        <4>6. p \in 1..i - 1 \/ p = i \/ p \notin 1..i
          OBVIOUS
        <4> QED BY <4>3, <4>4, <4>5, <4>6
      <3> QED BY <3>1, <3>2
    <2>2. Joins(g, s, n)
      <3> DEFINE h == [i \in 1..n |-> IF i = 1 THEN s[i] ELSE g[i - 1] \o s[i]]
      <3>1. \A i \in 1..n : g[i] = h[i]
        BY <2>1
      <3>2. g = h
        BY <3>1
      <3> QED BY <3>2 DEF Joins
    <2>3. Joins(f, s, n)
      <3> HIDE DEF g
      <3> QED BY <2>2
    <2>4. f[n] = g[n]
      <3> HIDE DEF f, g
      <3>1. n \in 1..n
        BY <1>3
      <3> QED BY <2>2, <2>3, <3>1, JoinsUnique
    <2>5. FlattenSeq(s) = f[n]
      BY <1>1, <1>3 DEF FlattenSeq, Joins
    <2>6. g[n] = IF p \in 1..n THEN e ELSE <<>>
      BY <1>3
    <2> HIDE DEF f, g
    <2> QED BY <1>1, <2>4, <2>5, <2>6
  <1> QED BY <1>2, <1>3

-----------------------------------------------------------------------------
(* A reader receives what it asked for, in order.                          *)

Part == [key : Key, is_next_expected : BOOLEAN, id : Id]
OnePart(request) ==
    \A i, j \in DOMAIN request : request[i].key = request[j].key => i = j

(* What a reader received of k: the entries numbered from a to b, the      *)
(* first of them the first after the id it started at.                     *)
Got(r, k, a, b) ==
    /\ r.seen[k] = Run(a, b)
    /\ Less(r.base[k], log[k][a]) /\ (a > 1 => ~ Less(r.base[k], log[k][a - 1]))
    /\ r.cursor[k] = log[k][b]
Follows(r, k) ==
    \/ r.seen[k] = <<>> /\ r.cursor[k] = r.base[k]
    \/ \E a, b \in 1..Len(log[k]) : a <= b /\ Got(r, k, a, b)

(* A reader goes on from ids, and got what follows where it started.       *)
Reads(r) ==
    /\ DOMAIN r = ReaderFields
    /\ \A k \in Key : /\ r.base[k] \in Id /\ r.cursor[k] \in Id
                      /\ stored[k].type # "string" => Follows(r, k)

(* A request for what follows the last ids a reader got.                   *)
GoesOn(request, r) ==
    /\ request \in Seq(Part) /\ OnePart(request)
    /\ \A i \in DOMAIN request : /\ ~ request[i].is_next_expected
                                 /\ request[i].id = r.cursor[request[i].key]

(* The ids a result has for k, and its entries.                            *)
FoundFor(request, k) ==
    UNION {Found(request[i]) : i \in {j \in DOMAIN request : request[j].key = k}}
EntriesFor(request, k) ==
    FlattenSeq([i \in DOMAIN request |->
        IF request[i].key = k THEN Entries(k, Found(request[i])) ELSE <<>>])

(* A result has for a key that is named what XREAD finds after its id, and *)
(* nothing for other keys.                                                 *)
LEMMA ResultIs ==
  ASSUME AllKept, NEW r, NEW request, GoesOn(request, r), NEW k \in Key,
         stored[k].type # "string", r.cursor[k] \in Id,
         NEW m \in 0..Len(log[k]), Cut(k, r.cursor[k], m)
  PROVE  \/ FoundFor(request, k) = {} /\ EntriesFor(request, k) = <<>>
         \/ /\ FoundFor(request, k) = Stretch(k, m + 1, Len(log[k]))
            /\ EntriesFor(request, k) = Run(m + 1, Len(log[k]))
  <1> DEFINE n == Len(request)
             e(i) == IF request[i].key = k THEN Entries(k, Found(request[i])) ELSE <<>>
  <1>1. n \in Nat /\ DOMAIN request = 1..n
    BY DEF GoesOn
  <1>2. CASE \A i \in 1..n : request[i].key # k
    <2>1. FoundFor(request, k) = {}
      BY <1>1, <1>2 DEF FoundFor
    <2>2. EntriesFor(request, k) = <<>>
      <3> DEFINE s == [i \in 1..n |-> e(i)]
                 u == <<>>
      <3>1. u \in Seq(Nat) /\ 0 \in Nat /\ u = <<>>
        OBVIOUS
      <3>2. \A i \in 1..n : e(i) = u
        BY <1>2
      <3> HIDE DEF e, u
      <3>3. \A i \in 1..n : e(i) \in Seq(Nat)
        BY <3>1, <3>2
      <3>4. s \in Seq(Seq(Nat)) /\ Len(s) = n
        BY <1>1, <3>3
      <3>5. \A i \in 1..Len(s) : s[i] = IF i = 0 THEN u ELSE <<>>
        BY <1>1, <3>1, <3>2, <3>4
      <3> HIDE DEF s
      <3>6. FlattenSeq(s) = <<>>
        BY <3>1, <3>4, <3>5, FlattenOne
      <3> QED BY <1>1, <3>6 DEF EntriesFor, s, e
    <2> QED BY <2>1, <2>2
  <1>3. CASE \E i \in 1..n : request[i].key = k
    <2>1. PICK p \in 1..n : request[p].key = k
      BY <1>3
    <2>2. \A i \in 1..n : request[i].key = k <=> i = p
      BY <1>1, <2>1 DEF GoesOn, OnePart
    <2>3. Found(request[p]) = XReadIds(Data(k), r.cursor[k])
      BY <1>1, <2>1 DEF GoesOn, Found
    <2>4. /\ Found(request[p]) = Stretch(k, m + 1, Len(log[k]))
          /\ Entries(k, Found(request[p])) = Run(m + 1, Len(log[k]))
      BY <2>3, ReadIs DEF AllKept
    <2>5. FoundFor(request, k) = Found(request[p])
      BY <1>1, <2>2 DEF FoundFor
    <2>6. EntriesFor(request, k) = Run(m + 1, Len(log[k]))
      <3> DEFINE s == [i \in 1..n |-> e(i)]
                 u == Run(m + 1, Len(log[k]))
      <3>1. u \in Seq(Nat)
        <4>1. Len(log[k]) \in Nat
          BY DEF AllKept, Kept
        <4> QED BY <4>1 DEF Run
      <3> HIDE DEF u
      <3>2. \A i \in 1..n : e(i) = IF i = p THEN u ELSE <<>>
        BY <2>2, <2>4 DEF u
      <3>3. \A i \in 1..n : e(i) \in Seq(Nat)
        <4>1. <<>> \in Seq(Nat)
          OBVIOUS
        <4> HIDE DEF e
        <4> QED BY <3>1, <3>2, <4>1
      <3> HIDE DEF e
      <3>4. s \in Seq(Seq(Nat)) /\ Len(s) = n /\ p \in Nat
        BY <1>1, <3>3
      <3>5. \A i \in 1..Len(s) : s[i] = IF i = p THEN u ELSE <<>>
        BY <1>1, <3>2
      <3> HIDE DEF s
      <3>6. FlattenSeq(s) = u
        BY <3>1, <3>4, <3>5, FlattenOne
      <3> QED BY <1>1, <3>6 DEF EntriesFor, s, u, e
    <2> QED BY <2>4, <2>5, <2>6
  <1> QED BY <1>2, <1>3

(* Where what a reader got ends, what XREAD finds for it begins.           *)
LEMMA GoesOnAt ==
  ASSUME AllKept, NEW r, NEW k \in Key, r.cursor[k] \in Id, Follows(r, k),
         NEW m \in 0..Len(log[k]), Cut(k, r.cursor[k], m)
  PROVE  \/ r.seen[k] = <<>> /\ Cut(k, r.base[k], m)
         \/ \E a \in 1..Len(log[k]) : a <= m /\ Got(r, k, a, m)
  <1>1. ASSUME NEW a \in 1..Len(log[k]), NEW b \in 1..Len(log[k]), a <= b, Got(r, k, a, b)
        PROVE  b = m
    <2>1. Kept(k) /\ r.cursor[k] = log[k][b]
      BY <1>1 DEF AllKept, Got
    <2>2. Len(log[k]) \in Nat /\ m \in 0..Len(log[k])
      BY <2>1 DEF Kept
    <2>3. ~ m < b
      BY <2>1, LogOrder DEF Cut
    <2>4. b < m => b + 1 \in 1..Len(log[k]) /\ b + 1 <= m
      BY <2>2
    <2>5. ~ b < m
      <3> SUFFICES ASSUME b < m PROVE FALSE
        OBVIOUS
      <3>1. m \in 1..Len(log[k])
        BY <2>2
      <3>2. Less(log[k][b], log[k][m])
        BY <2>1, <3>1, LogOrder
      <3> QED BY <2>1, <2>2, <3>1, <3>2 DEF Cut
    <2> QED BY <2>2, <2>3, <2>5
  <1> QED BY <1>1 DEF Follows

(* A reader that receives a result still got what follows where it         *)
(* started, from the first to the last id it has.                          *)
LEMMA ReceiveReads ==
  ASSUME AllKept, NEW r, Reads(r), NEW request, GoesOn(request, r),
         ~ Miscast(request), NEW how
  PROVE  Reads(Receive(r, request, how))
  <1> DEFINE q == Receive(r, request, how)
  <1>1. /\ DOMAIN q = ReaderFields /\ q.base = r.base
        /\ \A k \in Key : /\ q.cursor[k] =
                               IF FoundFor(request, k) = {} THEN r.cursor[k]
                               ELSE Largest(FoundFor(request, k))
                          /\ q.seen[k] = r.seen[k] \o EntriesFor(request, k)
    BY DEF Receive, Reads, ReaderFields, FoundFor, EntriesFor, Largest
  <1> HIDE DEF q
  <1>2. ASSUME NEW k \in Key, stored[k].type = "string"
        PROVE  q.base[k] \in Id /\ q.cursor[k] \in Id
    <2>1. \A i \in DOMAIN request : request[i].key # k
      BY <1>2 DEF Miscast
    <2>2. FoundFor(request, k) = {}
      BY <2>1 DEF FoundFor
    <2> QED BY <1>1, <2>2 DEF Reads
  <1>3. ASSUME NEW k \in Key, stored[k].type # "string"
        PROVE  q.base[k] \in Id /\ q.cursor[k] \in Id /\ Follows(q, k)
    <2> DEFINE n == Len(log[k])
    <2>1. Kept(k) /\ r.base[k] \in Id /\ r.cursor[k] \in Id /\ Follows(r, k)
      BY <1>3 DEF Reads, AllKept
    <2>2. n \in Nat /\ \A i \in 1..n : log[k][i] \in Id
      BY <2>1 DEF Kept
    <2>3. PICK m \in 0..n : Cut(k, r.cursor[k], m)
      BY <2>1, CutExists
    <2>4. r.seen[k] \in Seq(Nat)
      <3>1. ASSUME NEW a \in 1..n, NEW b \in 1..n, a <= b PROVE Run(a, b) \in Seq(Nat)
        BY <3>1 DEF Run
      <3>2. CASE r.seen[k] = <<>>
        BY <3>2
      <3>3. CASE \E a, b \in 1..n : a <= b /\ Got(r, k, a, b)
        BY <3>1, <3>3 DEF Got
      <3> QED BY <2>1, <3>2, <3>3 DEF Follows
    <2>5. CASE FoundFor(request, k) = {} /\ EntriesFor(request, k) = <<>>
      <3> DEFINE s == r.seen[k]
      <3>0. s \in Seq(Nat)
        BY <2>4
      <3> HIDE DEF s
      <3>2. s \o <<>> = s
        BY <3>0
      <3>1. q.seen[k] = r.seen[k] /\ q.cursor[k] = r.cursor[k]
        BY <1>1, <2>5, <3>2 DEF s
      <3> QED BY <1>1, <2>1, <3>1 DEF Follows, Got
    <2>6. CASE /\ FoundFor(request, k) = Stretch(k, m + 1, n)
               /\ EntriesFor(request, k) = Run(m + 1, n)
      <3>1. CASE m = n
        <4>1. Stretch(k, m + 1, n) = {} /\ Run(m + 1, n) = <<>>
          BY <2>2, <3>1 DEF Stretch, Run
        <4> QED BY <2>5, <2>6, <4>1
      <3>2. CASE m # n
        <4>1. m \in 0..n /\ m < n /\ m \in Nat /\ n \in m + 1..n /\ n \in 1..n /\ m + 1 \in 1..n
          BY <2>2, <3>2
        <4>2. FoundFor(request, k) # {}
          BY <2>6, <4>1 DEF Stretch
        <4>3. q.cursor[k] = log[k][n]
          BY <1>1, <2>1, <2>6, <4>1, <4>2, LargestOf
        <4>4. q.seen[k] = r.seen[k] \o Run(m + 1, n)
          BY <1>1, <2>6
        <4>5. CASE r.seen[k] = <<>> /\ Cut(k, r.base[k], m)
          <5>1. q.seen[k] = Run(m + 1, n)
            <6>1. Run(m + 1, n) \in Seq(Nat)
              BY <2>2, <4>1 DEF Run
            <6> QED BY <4>4, <4>5, <6>1
          <5>2. Less(r.base[k], log[k][m + 1])
            BY <4>1, <4>5 DEF Cut
          <5>3. m + 1 > 1 => ~ Less(r.base[k], log[k][(m + 1) - 1])
            <6> SUFFICES ASSUME m + 1 > 1 PROVE ~ Less(r.base[k], log[k][m])
              BY <4>1
            <6>1. m \in 1..n
              BY <2>2, <4>1
            <6> QED BY <4>1, <4>5, <6>1 DEF Cut
          <5>4. Got(q, k, m + 1, n)
            BY <1>1, <4>3, <5>1, <5>2, <5>3 DEF Got
          <5>5. Follows(q, k)
            BY <4>1, <5>4 DEF Follows
          <5> QED BY <1>1, <2>1, <2>2, <4>1, <4>3, <5>5
        <4>6. CASE \E a \in 1..n : a <= m /\ Got(r, k, a, m)
          <5>1. PICK a \in 1..n : a <= m /\ Got(r, k, a, m)
            BY <4>6
          <5>2. q.seen[k] = Run(a, n)
            <6>1. a \in Nat /\ m \in Nat /\ n \in Nat /\ a <= m + 1 /\ m <= n
              BY <2>2, <4>1, <5>1
            <6>2. Run(a, m) \o Run(m + 1, n) = Run(a, n)
              BY <6>1, RunsJoin
            <6> QED BY <4>4, <5>1, <6>2 DEF Got
          <5>3. Got(q, k, a, n)
            BY <1>1, <4>3, <5>1, <5>2 DEF Got
          <5>4. Follows(q, k)
            BY <4>1, <5>1, <5>3 DEF Follows
          <5> QED BY <1>1, <2>1, <2>2, <4>1, <4>3, <5>4
        <4> QED BY <2>1, <2>3, <4>5, <4>6, GoesOnAt
      <3> QED BY <3>1, <3>2
    <2> QED BY <1>3, <2>1, <2>3, <2>5, <2>6, ResultIs
  <1>4. Reads(q)
    BY <1>1, <1>2, <1>3 DEF Reads
  <1> QED BY <1>4 DEF q

-----------------------------------------------------------------------------
(* Each step keeps what readers got.                                       *)

(* The handle of a reader asks for what follows the last ids it got.       *)
Going ==
    /\ \A c \in Reader : Reads(reader[c])
    /\ \A h \in Handle :
          handle[h].callback => GoesOn(handle[h].request, reader[handle[h].reader])

(* The request a reader sends.                                             *)
LEMMA AsksParts ==
  ASSUME NoTwice, NEW c \in Reader, Reads(reader[c]), NEW keys \in Request, NEW from \in From
  PROVE  LET request == Asks(c, keys, from)
         IN  /\ request \in Seq(Part) /\ OnePart(request)
             /\ \A i \in DOMAIN request :
                   /\ request[i].is_next_expected <=> from.kind = "next"
                   /\ from.kind = "cursor" => request[i].id = reader[c].cursor[request[i].key]
  <1> DEFINE request == Asks(c, keys, from)
             n == Len(keys)
  <1>1. keys \in Seq(Key) /\ n \in Nat /\ DOMAIN keys = 1..n /\ \A i \in 1..n : keys[i] \in Key
    <2>1. keys \in Seq(Key)
      BY StorageAssumption
    <2> QED BY <2>1
  <1>2. from \in ReadFrom /\ from.kind \in {"id", "next", "cursor"}
    BY StorageAssumption DEF ReadFrom
  <1>3. Null \in Id
    BY StreamAssumption DEF Null, StreamId, Id
  <1>4. DOMAIN request = 1..n
    BY <1>1 DEF Asks
  <1>5. ASSUME NEW i \in 1..n
        PROVE  /\ request[i] \in Part /\ request[i].key = keys[i]
               /\ request[i].is_next_expected <=> from.kind = "next"
               /\ from.kind = "cursor" => request[i].id = reader[c].cursor[request[i].key]
    <2>1. request[i].key = keys[i] /\ request[i].is_next_expected = (from.kind = "next")
      BY <1>1 DEF Asks
    <2>2. CASE from.kind = "id"
      <3>1. from.id \in Id
        BY <1>2, <2>2 DEF ReadFrom
      <3> QED BY <1>1, <2>1, <2>2, <3>1 DEF Asks, Part
    <2>3. CASE from.kind = "next"
      BY <1>1, <1>3, <2>1, <2>3 DEF Asks, Part
    <2>4. CASE from.kind = "cursor"
      <3>1. reader[c].cursor[keys[i]] \in Id
        BY <1>1 DEF Reads
      <3> QED BY <1>1, <2>1, <2>4, <3>1 DEF Asks, Part
    <2> QED BY <1>2, <2>2, <2>3, <2>4
  <1> HIDE DEF request
  <1>6. request \in Seq(Part)
    <2> DEFINE f == [i \in 1..n |-> request[i]]
    <2>1. f \in Seq(Part)
      BY <1>1, <1>5
    <2>2. request = f
      BY <1>4 DEF request, Asks
    <2> QED BY <2>1, <2>2
  <1>7. OnePart(request)
    BY <1>1, <1>4, <1>5 DEF OnePart, NoTwice
  <1> QED BY <1>4, <1>5, <1>6, <1>7 DEF request

(* A reader that starts at its request goes on with it.                    *)
LEMMA StartsReads ==
  ASSUME NEW c \in Reader, Reads(reader[c]), NEW request \in Seq(Part), OnePart(request),
         NEW from,
         \A i \in DOMAIN request :
            /\ ~ request[i].is_next_expected
            /\ from.kind = "cursor" => request[i].id = reader[c].cursor[request[i].key]
  PROVE  Reads(Starts(c, request, from)) /\ GoesOn(request, Starts(c, request, from))
  <1> DEFINE named == {request[i].key : i \in DOMAIN request}
             start(k) == request[CHOOSE i \in DOMAIN request : request[i].key = k].id
             r == reader[c]
             q == Restart(r, request)
  <1>1. CASE from.kind = "cursor"
    BY <1>1 DEF Starts, GoesOn
  <1>2. CASE from.kind # "cursor"
    <2>1. Starts(c, request, from) = q
      BY <1>2 DEF Starts
    <2>2. /\ DOMAIN q = ReaderFields
          /\ \A k \in Key : /\ q.base[k] = IF k \in named THEN start(k) ELSE r.base[k]
                            /\ q.cursor[k] = IF k \in named THEN start(k) ELSE r.cursor[k]
                            /\ q.seen[k] = IF k \in named THEN <<>> ELSE r.seen[k]
      BY DEF Restart, Reads, ReaderFields
    <2>3. \A i \in DOMAIN request : request[i] \in Part
      OBVIOUS
    <2>4. ASSUME NEW i \in DOMAIN request PROVE start(request[i].key) = request[i].id
      <3>1. (CHOOSE j \in DOMAIN request : request[j].key = request[i].key) = i
        BY DEF OnePart
      <3> QED BY <3>1
    <2>5. ASSUME NEW k \in named PROVE start(k) \in Id
      BY <2>3, <2>4 DEF Part
    <2> HIDE DEF q, start
    <2>6. ASSUME NEW k \in Key
          PROVE  /\ q.base[k] \in Id /\ q.cursor[k] \in Id
                 /\ stored[k].type # "string" => Follows(q, k)
      <3>1. CASE k \in named
        BY <2>2, <2>5, <3>1 DEF Follows
      <3>2. CASE k \notin named
        <4>1. q.base[k] = r.base[k] /\ q.cursor[k] = r.cursor[k] /\ q.seen[k] = r.seen[k]
          BY <2>2, <3>2
        <4> QED BY <4>1 DEF Reads, Follows, Got
      <3> QED BY <3>1, <3>2
    <2>7. ASSUME NEW i \in DOMAIN request PROVE request[i].id = q.cursor[request[i].key]
      <3>1. request[i].key \in Key /\ request[i].key \in named
        BY <2>3 DEF Part
      <3> QED BY <2>2, <2>4, <3>1
    <2> QED BY <2>1, <2>2, <2>6, <2>7 DEF Reads, GoesOn
  <1> QED BY <1>1, <1>2

(* The request a blocked XREAD keeps: $ is replaced.                       *)
LEMMA ResolvedParts ==
  ASSUME AllTopped, NEW request \in Seq(Part), OnePart(request)
  PROVE  LET resolved == [i \in DOMAIN request |-> Resolve(request[i])]
         IN  /\ resolved \in Seq(Part) /\ OnePart(resolved) /\ DOMAIN resolved = DOMAIN request
             /\ \A i \in DOMAIN request :
                   /\ ~ resolved[i].is_next_expected /\ resolved[i].key = request[i].key
                   /\ ~ request[i].is_next_expected => resolved[i].id = request[i].id
  <1> DEFINE resolved == [i \in DOMAIN request |-> Resolve(request[i])]
             n == Len(request)
  <1>1. n \in Nat /\ DOMAIN request = 1..n /\ \A i \in 1..n : request[i] \in Part
    OBVIOUS
  <1>2. ASSUME NEW k \in Key PROVE LastId(Data(k)) \in Id
    <2>1. Topped(Data(k))
      BY DEF AllTopped
    <2>2. CASE Ids(Data(k)) = {}
      BY <2>2, StreamAssumption DEF LastId, Null, StreamId, Id
    <2>3. CASE Ids(Data(k)) # {}
      <3>1. PICK t \in Id : IsTop(Data(k), t)
        BY <2>1, <2>3 DEF Topped
      <3> QED BY <2>1, <2>3, <3>1, TopIs DEF LastId, Topped
    <2> QED BY <2>2, <2>3
  <1>3. ASSUME NEW part \in Part
        PROVE  /\ Resolve(part) \in Part
               /\ ~ Resolve(part).is_next_expected /\ Resolve(part).key = part.key
               /\ ~ part.is_next_expected => Resolve(part).id = part.id
    <2>1. CASE part.is_next_expected
      <3>1. LastId(Data(part.key)) \in Id
        BY <1>2 DEF Part
      <3> QED BY <2>1, <3>1 DEF Resolve, Part
    <2>2. CASE ~ part.is_next_expected
      BY <2>2 DEF Resolve
    <2> QED BY <2>1, <2>2
  <1>4. resolved \in Seq(Part)
    BY <1>1, <1>3
  <1>5. \A i \in 1..n : resolved[i].key = request[i].key
    BY <1>1, <1>3
  <1>6. OnePart(resolved)
    BY <1>1, <1>5 DEF OnePart
  <1> QED BY <1>1, <1>3, <1>4, <1>6

(* What XADD returned only grows if no string expires, and a stream then   *)
(* never comes back after SET.                                             *)
LEMMA LogGrows ==
  ASSUME NoExpiry, AllKept, [Next]_vars, NEW k \in Key
  PROVE  /\ Len(log[k]) \in Nat /\ Len(log'[k]) \in Nat /\ Len(log[k]) <= Len(log'[k])
         /\ \A i \in 1..Len(log[k]) : log'[k][i] = log[k][i]
         /\ stored'[k].type # "string" => stored[k].type # "string"
  <1>0. Len(log[k]) \in Nat /\ log[k] \in Seq(Id)
    BY DEF AllKept, Kept
  <1>1. ASSUME NEW l \in Key, NEW in \in Input, NEW time \in 1..MaxMs, XAdd(l, in, time)
        PROVE  \/ \E id : log'[k] = Append(log[k], id) /\ stored[k].type # "string"
               \/ log'[k] = log[k] /\ stored'[k] = stored[k]
    BY <1>1 DEF XAdd, AllKept
  <1>2. ASSUME NEW l \in Key, NEW px, Set(l, px)
        PROVE  log'[k] = log[k] /\ (stored'[k] = stored[k] \/ stored'[k].type = "string")
    BY <1>2 DEF Set, Text, AllKept
  <1>3. ASSUME UNCHANGED storageVars PROVE log'[k] = log[k] /\ stored'[k] = stored[k]
    BY <1>3 DEF storageVars
  <1>4. ASSUME NEW id, log'[k] = Append(log[k], id)
        PROVE  /\ Len(log'[k]) = Len(log[k]) + 1
               /\ \A i \in 1..Len(log[k]) : log'[k][i] = log[k][i]
    BY <1>0, <1>4
  <1> QED BY <1>0, <1>1, <1>2, <1>3, <1>4, StoredStep

(* What a reader got stays what it got.                                    *)
LEMMA ReadsKept == ASSUME NoExpiry, AllKept, [Next]_vars, NEW r, Reads(r) PROVE Reads(r)'
  <1>1. ASSUME NEW k \in Key, stored'[k].type # "string" PROVE Follows(r, k)'
    <2>1. /\ Len(log[k]) \in Nat /\ Len(log'[k]) \in Nat /\ Len(log[k]) <= Len(log'[k])
          /\ \A i \in 1..Len(log[k]) : log'[k][i] = log[k][i]
          /\ Follows(r, k)
      BY <1>1, LogGrows DEF Reads
    <2>2. CASE r.seen[k] = <<>> /\ r.cursor[k] = r.base[k]
      BY <2>2 DEF Follows
    <2>3. ASSUME NEW a \in 1..Len(log[k]), NEW b \in 1..Len(log[k]), a <= b, Got(r, k, a, b)
          PROVE  Follows(r, k)'
      <3>1. a \in 1..Len(log'[k]) /\ b \in 1..Len(log'[k]) /\ log'[k][a] = log[k][a]
            /\ log'[k][b] = log[k][b] /\ (a > 1 => log'[k][a - 1] = log[k][a - 1])
        BY <2>1
      <3>2. Got(r, k, a, b)'
        BY <2>3, <3>1 DEF Got
      <3> QED BY <2>3, <3>1, <3>2 DEF Follows
    <2> QED BY <2>1, <2>2, <2>3 DEF Follows
  <1> QED BY <1>1 DEF Reads

(* Every step keeps what readers got, and what their handles ask for.      *)
LEMMA GoingStep ==
  ASSUME NoExpiry, NoTwice, AllKept, AllTopped, Shape, Linked, Going, [Next]_vars
  PROVE  Going'
  <1>1. ASSUME NEW c \in Reader, reader'[c] = reader[c] PROVE Reads(reader[c])'
    <2>1. PICK r : r = reader[c]
      OBVIOUS
    <2>2. Reads(r)'
      BY <2>1, ReadsKept DEF Going
    <2> QED BY <1>1, <2>1, <2>2
  <1>2. ASSUME NEW r, Reads(r), UNCHANGED storageVars PROVE Reads(r)'
    BY <1>2 DEF storageVars, Reads, Follows, Got
  <1>3. ASSUME NEW c \in Reader, NEW r, Reads(r), UNCHANGED storageVars, reader'[c] = r
        PROVE  Reads(reader[c])'
    BY <1>2, <1>3
  <1>4. ASSUME NEW c \in Reader, NEW keys \in Request, NEW from \in From,
               XReadAtOnce(c, keys, from)
        PROVE  Going'
    <2> DEFINE request == Asks(c, keys, from)
               r == Starts(c, request, from)
    <2>1. /\ reader[c].handle = 0 /\ ~ Miscast(request) /\ UNCHANGED <<storageVars, handle>>
          /\ \E i \in DOMAIN request : Found(request[i]) # {}
          /\ reader'[c] = Receive(r, request, "at once")
          /\ \A d \in Reader : d # c => reader'[d] = reader[d]
      BY <1>4 DEF XReadAtOnce, Shape
    <2>2. /\ request \in Seq(Part) /\ OnePart(request)
          /\ \A i \in DOMAIN request :
               /\ request[i].is_next_expected <=> from.kind = "next"
               /\ from.kind = "cursor" => request[i].id = reader[c].cursor[request[i].key]
      BY AsksParts DEF Going
    <2> HIDE DEF request
    <2>3. \A i \in DOMAIN request : ~ request[i].is_next_expected
      BY <2>1, <2>2 DEF Found
    <2>4. Reads(r) /\ GoesOn(request, r)
      BY <2>2, <2>3, StartsReads DEF Going
    <2>5. Reads(Receive(r, request, "at once"))
      BY <2>1, <2>4, ReceiveReads
    <2> HIDE DEF r
    <2>6. \A d \in Reader : Reads(reader[d])'
      BY <1>1, <1>3, <2>1, <2>5
    <2>7. ASSUME NEW h \in Handle, handle[h].callback PROVE handle[h].reader # c
      <3>1. h \in 1..nreads /\ reader[handle[h].reader].handle = h
        BY <2>7 DEF Linked
      <3>2. nreads \in Nat /\ h # 0
        BY <3>1, StorageAssumption DEF Shape
      <3> QED BY <2>1, <3>1, <3>2
    <2> QED BY <2>1, <2>6, <2>7 DEF Going, Linked
  <1>5. ASSUME NEW c \in Reader, NEW keys \in Request, NEW from \in From, NEW ms \in Timeout,
               XReadBlocks(c, keys, from, ms)
        PROVE  Going'
    <2> DEFINE request == Asks(c, keys, from)
               resolved == [i \in DOMAIN request |-> Resolve(request[i])]
               r == Starts(c, resolved, from)
    <2>0. nreads \in Nat /\ nreads < MaxReads /\ nreads + 1 \in Handle
      BY <1>5, StorageAssumption DEF Shape, Handle, XReadBlocks
    <2>1. PICK h \in Handle : h = nreads + 1
      BY <2>0
    <2>2. /\ reader[c].handle = 0 /\ UNCHANGED storageVars
          /\ reader'[c] = [r EXCEPT !.handle = h]
          /\ \A d \in Reader : d # c => reader'[d] = reader[d]
          /\ handle'[h].request = resolved /\ handle'[h].reader = c
          /\ \A g \in Handle : g # h => handle'[g] = handle[g]
      BY <1>5, <2>1 DEF XReadBlocks, Shape
    <2>3. /\ request \in Seq(Part) /\ OnePart(request)
          /\ \A i \in DOMAIN request :
               /\ request[i].is_next_expected <=> from.kind = "next"
               /\ from.kind = "cursor" => request[i].id = reader[c].cursor[request[i].key]
      BY AsksParts DEF Going
    <2> HIDE DEF request
    <2>4. /\ resolved \in Seq(Part) /\ OnePart(resolved) /\ DOMAIN resolved = DOMAIN request
          /\ \A i \in DOMAIN request :
                /\ ~ resolved[i].is_next_expected /\ resolved[i].key = request[i].key
                /\ ~ request[i].is_next_expected => resolved[i].id = request[i].id
      BY <2>3, ResolvedParts
    <2> HIDE DEF resolved
    <2>5. Reads(r) /\ GoesOn(resolved, r)
      <3>1. \A i \in DOMAIN resolved :
               /\ ~ resolved[i].is_next_expected
               /\ from.kind = "cursor" => resolved[i].id = reader[c].cursor[resolved[i].key]
        BY <2>3, <2>4
      <3> QED BY <2>4, <3>1, StartsReads DEF Going
    <2> HIDE DEF r
    <2> DEFINE q == [r EXCEPT !.handle = h]
    <2>6. DOMAIN q = DOMAIN r /\ (DOMAIN r = ReaderFields =>
             q.base = r.base /\ q.cursor = r.cursor /\ q.seen = r.seen)
      BY DEF ReaderFields
    <2> HIDE DEF q
    <2>7. Reads(q) /\ GoesOn(resolved, q)
      BY <2>5, <2>6 DEF Reads, GoesOn, Follows, Got
    <2>8. reader'[c] = q
      BY <2>2 DEF q
    <2>9. \A d \in Reader : Reads(reader[d])'
      BY <1>1, <1>3, <2>2, <2>7, <2>8
    <2>10. ASSUME NEW g \in Handle, handle'[g].callback
           PROVE  GoesOn(handle'[g].request, reader'[handle'[g].reader])
      <3>1. CASE g = h
        BY <2>2, <2>7, <2>8, <3>1
      <3>2. CASE g # h
        <4>1. handle'[g] = handle[g] /\ g \in 1..nreads /\ handle[g].reader \in Reader
              /\ reader[handle[g].reader].handle = g
          BY <2>2, <2>10, <3>2 DEF Linked
        <4>2. handle[g].reader # c
          BY <2>0, <2>2, <4>1
        <4> QED BY <2>2, <2>10, <4>1, <4>2 DEF Going
      <3> QED BY <3>1, <3>2
    <2> QED BY <2>9, <2>10 DEF Going
  <1>6. ASSUME NEW h \in Handle, NEW how, Reply(h, how), UNCHANGED storageVars
        PROVE  Going'
    <2> DEFINE c == handle[h].reader
               request == handle[h].request
    <2>1. c \in Reader /\ GoesOn(request, reader[c]) /\ ~ Miscast(request) /\ reader[c].handle = h
      BY <1>6 DEF Reply, Linked, Going
    <2>2. /\ reader'[c] = Receive(reader[c], request, how)
          /\ \A d \in Reader : d # c => reader'[d] = reader[d]
          /\ ~ handle'[h].callback /\ \A g \in Handle : g # h => handle'[g] = handle[g]
      BY <1>6, <2>1 DEF Reply, Shape, HandleFields
    <2>3. Reads(Receive(reader[c], request, how))
      BY <2>1, ReceiveReads DEF Going
    <2>4. PICK d \in Reader : d = c
      BY <2>1
    <2>5. \A e \in Reader : Reads(reader[e])'
      BY <1>1, <1>3, <1>6, <2>2, <2>3, <2>4
    <2>6. ASSUME NEW g \in Handle, handle'[g].callback
          PROVE  GoesOn(handle'[g].request, reader'[handle'[g].reader])
      <3>1. g # h /\ handle'[g] = handle[g]
        BY <2>2, <2>6
      <3>2. handle[g].reader \in Reader /\ reader[handle[g].reader].handle = g
        BY <2>6, <3>1 DEF Linked
      <3>3. handle[g].reader # c
        BY <2>1, <3>1, <3>2
      <3> QED BY <2>2, <2>6, <3>1, <3>2, <3>3 DEF Going
    <2> QED BY <2>5, <2>6 DEF Going
  <1>7. ASSUME UNCHANGED <<nreads, reader, handle, waitlist>> PROVE Going'
    BY <1>1, <1>7 DEF Going
  <1>8. ASSUME NEW h \in Handle, NEW how, Reply(h, how) PROVE UNCHANGED storageVars
    <2>1. ASSUME NEW k \in Key, NEW in \in Input, NEW time \in 1..MaxMs PROVE ~ XAdd(k, in, time)
      BY <1>8 DEF XAdd, Reply, Shape, HandleFields
    <2>2. ASSUME NEW k \in Key, NEW px PROVE ~ Set(k, px)
      BY <1>8 DEF Set, Reply, Shape, HandleFields
    <2> QED BY <2>1, <2>2, StoredStep
  <1> QED BY <1>4, <1>5, <1>6, <1>7, <1>8, LinkSteps

(* At first no reader got anything.                                        *)
LEMMA GoingInit == Init => Going
  <1> SUFFICES ASSUME Init PROVE Going
    OBVIOUS
  <1>1. \A c \in Reader : reader[c] = NewReader
    BY DEF Init
  <1>2. Null \in Id
    BY StreamAssumption DEF Null, StreamId, Id
  <1>3. Reads(NewReader)
    BY <1>2 DEF Reads, NewReader, ReaderFields, Follows
  <1>4. \A h \in Handle : ~ handle[h].callback
    BY DEF Init, NoHandle
  <1> QED BY <1>1, <1>3, <1>4 DEF Going

(* Every reader that goes on from its last ids gets every entry once and   *)
(* in order, in any run without wrapping ids, repeated keys or strings     *)
(* that expire.                                                            *)
THEOREM GoingCorrect == ASSUME NoWrap, NoTwice, NoExpiry PROVE Spec => []Going
  <1>1. AllKept /\ (Queued /\ NoWakeupLost) /\ (Shape /\ Linked) /\ Going /\ [Next]_vars => Going'
    BY GoingStep DEF Queued
  <1> QED BY KeptCorrect, QueuedCorrect, LinkedCorrect, GoingInit, <1>1, PTL DEF Spec

(* A reader that goes on from the last id it got receives every entry once *)
(* and in order, from the first one after the id it started at: nothing is *)
(* lost between the answer to one XREAD and the next XREAD, nor between    *)
(* an XADD and the job that answers it.  NoExpiry is needed: a stream that *)
(* is begun anew may have its ids below those the reader goes on from.     *)
THEOREM SeenCorrect == ASSUME NoWrap, NoTwice, NoExpiry PROVE Spec => []SeenInOrder
  <1>1. ASSUME AllKept, Going, NEW c \in Reader, NEW k \in Key,
               IsStream(k), reader[c].seen[k] # <<>>
        PROVE  LET seen == reader[c].seen[k]
               IN  /\ \A i \in DOMAIN seen : seen[i] = seen[1] + i - 1
                   /\ Less(reader[c].base[k], log[k][seen[1]])
                   /\ seen[1] > 1 => ~ Less(reader[c].base[k], log[k][seen[1] - 1])
                   /\ reader[c].cursor[k] = log[k][seen[Len(seen)]]
    <2> DEFINE r == reader[c]
               seen == r.seen[k]
    <2>1. Follows(r, k)
      BY <1>1 DEF Going, Reads, IsStream
    <2>2. PICK a \in 1..Len(log[k]), b \in 1..Len(log[k]) : a <= b /\ Got(r, k, a, b)
      BY <1>1, <2>1 DEF Follows
    <2>3. Len(log[k]) \in Nat
      BY <1>1 DEF AllKept, Kept
    <2>4. /\ DOMAIN seen = 1..(b - a + 1) /\ \A i \in 1..(b - a + 1) : seen[i] = a + i - 1
          /\ seen \in Seq(Nat) /\ Len(seen) = b - a + 1
      BY <2>2, <2>3 DEF Got, Run
    <2>5. 1 \in 1..(b - a + 1) /\ b - a + 1 \in 1..(b - a + 1)
      BY <2>2, <2>3
    <2>6. seen[1] = a /\ seen[Len(seen)] = b
      <3>1. seen[1] = a + 1 - 1 /\ seen[b - a + 1] = a + (b - a + 1) - 1
        BY <2>4, <2>5
      <3>2. a \in Int /\ b \in Int
        OBVIOUS
      <3>3. a + 1 - 1 = a /\ a + (b - a + 1) - 1 = b
        BY <3>2
      <3> QED BY <2>4, <3>1, <3>3
    <2> QED BY <2>2, <2>4, <2>6 DEF Got
  <1>2. AllKept /\ Going => SeenInOrder
    BY <1>1 DEF SeenInOrder
  <1> QED BY KeptCorrect, GoingCorrect, <1>2, PTL

-----------------------------------------------------------------------------
(* An XREAD for what comes next is woken only with data.                   *)

(* Readers ask for what comes next, or follows the last entry they got.    *)
NoIdGiven == From \subseteq [kind : {"next", "cursor"}]

(* An id that is 0-0 or was returned for k, so that any entry to come      *)
(* follows it.                                                             *)
Past(k, id) == id = Null \/ \E i \in 1..Len(log[k]) : id = log[k][i]
AsksPast(request) ==
    \A i \in DOMAIN request : /\ request[i].key \in Key /\ ~ request[i].is_next_expected
                              /\ Past(request[i].key, request[i].id)
Names(request, k) == \E i \in DOMAIN request : request[i].key = k

(* A handle that finds something if it is answered now, or ends all.       *)
Owed(h) == Miscast(handle[h].request) \/ \E k \in Key : Missing(h, k)

(* Every handle that was called is owed an answer with data.               *)
HasPast(r) == DOMAIN r = ReaderFields /\ \A k \in Key : Past(k, r.cursor[k])
HasData(r) == r.last.how = "woken" => r.last.data
Awaits(h) ==
    handle[h].callback =>
        /\ AsksPast(handle[h].request)
        /\ \A k \in Key : h \in Range(waitlist[k]) => Names(handle[h].request, k)
        /\ IsCalled(h) => Owed(h)
Awaited ==
    /\ \A c \in Reader : HasPast(reader[c]) /\ HasData(reader[c])
    /\ \A h \in Handle : Awaits(h)

(* The id of an entry is never 0-0.                                        *)
LEMMA AppendNotNull ==
  ASSUME NEW data, Ids(data) = {}, NEW in \in InputId, NEW time \in 1..MaxMs,
         AppendError(data, in) = "None"
  PROVE  AppendId(data, in, time) # Null
  <1>1. CASE in.kind = "full"
    BY <1>1 DEF AppendError, AppendId, StreamId, Null
  <1>2. CASE in.kind = "id_wildcard"
    BY <1>2 DEF AppendId, StreamId, Null
  <1>3. CASE in.kind = "general_wildcard"
    BY <1>3, StreamAssumption DEF AppendId, StreamId, Null
  <1> QED BY <1>1, <1>2, <1>3 DEF InputId

(* Every id but 0-0 follows 0-0.                                           *)
LEMMA AboveNull == ASSUME NEW id \in Id, id # Null PROVE Less(Null, id) /\ ~ Less(id, Null)
  <1>1. Null \in Id
    BY StreamAssumption DEF Null, StreamId, Id
  <1>2. ~ Less(id, Null)
    BY StreamAssumption DEF Null, StreamId, Id, Less
  <1> QED BY <1>1, <1>2, LessTotal

(* What an XADD adds follows every id of the past.                         *)
LEMMA AddsAfterPast ==
  ASSUME NoWrap, AllKept, NEW k \in Key, NEW in \in Input, NEW time \in 1..MaxMs,
         XAdd(k, in, time), NEW id, Past(k, id)
  PROVE  XReadIds(Data(k)', id) # {}
  <1> DEFINE n == Len(log[k])
             new == AppendId(Data(k), in, time)
  <1>0. Kept(k) /\ Kept(k)'
    BY XAddKeeps DEF AllKept
  <1>1. Kept(k) /\ Kept(k)' /\ n \in Nat /\ log[k] \in Seq(Id)
    <2>1. log[k] \in Seq(Id)
      BY <1>0 DEF Kept
    <2> QED BY <1>0, <2>1
  <1>2. /\ log'[k] = Append(log[k], new)
        /\ stored'[k] = Stream(Emplace(Data(k), new, n + 1))
        /\ stored[k].type # "string" /\ AppendError(Data(k), in) = "None"
    BY DEF XAdd, AllKept
  <1>3. /\ Len(log'[k]) = n + 1 /\ log'[k][n + 1] = new
        /\ \A i \in 1..n : log'[k][i] = log[k][i]
    BY <1>1, <1>2
  <1>4. IsStream(k)' /\ Data(k)' = stored'[k].data
    BY <1>2 DEF IsStream, Data, Stream
  <1>5. n + 1 \in 1..Len(log'[k]) /\ \A i \in 1..n : i \in 1..Len(log'[k]) /\ i < n + 1
    BY <1>1, <1>3
  <1>6. new \in Ids(Data(k)') /\ new \in Id
    BY <1>1, <1>3, <1>4, <1>5 DEF Kept
  <1>7. \A i \in 1..n : Less(log[k][i], new) /\ log[k][i] \in Id
    BY <1>1, <1>3, <1>5 DEF Kept
  <1>8. new # Null
    <2>1. CASE n = 0
      <3>1. stored[k].type = "none"
        BY <1>1, <1>2, <2>1 DEF Kept, IsStream
      <3>2. Ids(Data(k)) = {} /\ in \in InputId
        BY <3>1, StorageAssumption DEF Data, IsStream, Ids, Empty
      <3> QED BY <1>2, <3>2, AppendNotNull
    <2>2. CASE n # 0
      <3>1. 1 \in 1..n
        BY <1>1, <2>2
      <3>2. Null \in Id /\ ~ Less(log[k][1], Null)
        BY <1>7, <3>1, StreamAssumption DEF Null, StreamId, Id, Less
      <3> QED BY <1>7, <3>1, <3>2
    <2> QED BY <2>1, <2>2
  <1>9. id \in Id /\ Less(id, new)
    <2>1. Null \in Id
      BY StreamAssumption DEF Null, StreamId, Id
    <2> QED BY <1>6, <1>7, <1>8, <2>1, AboveNull DEF Past
  <1>10. new # id /\ ~ Less(new, id)
    BY <1>6, <1>9, LessIrreflexive, LessTransitive
  <1> QED BY <1>6, <1>10 DEF XReadIds

(* What is found for a key is in the past, and so is the largest of it.    *)
LEMMA LargestPast ==
  ASSUME AllKept, NEW request, NEW k \in Key, FoundFor(request, k) # {}
  PROVE  Past(k, Largest(FoundFor(request, k)))
  <1> DEFINE ids == FoundFor(request, k)
             I == {i \in 1..Len(log[k]) : log[k][i] \in ids}
  <1>0. Kept(k)
    BY DEF AllKept
  <1>1. Kept(k) /\ Len(log[k]) \in Nat
    BY <1>0 DEF Kept
  <1>2. ids \subseteq Ids(Data(k))
    BY DEF FoundFor, Found, XReadIds
  <1>3. IsStream(k)
    BY <1>2 DEF Data, Empty, Ids
  <1>4. ids \subseteq {log[k][i] : i \in 1..Len(log[k])}
    BY <1>1, <1>2, <1>3, HeldIds DEF Stretch
  <1>5. I # {} /\ I \subseteq 1..Len(log[k])
    BY <1>4
  <1>6. PICK m \in I : \A i \in I : i <= m
    <2> HIDE DEF I
    <2> QED BY <1>1, <1>5, LastIndex
  <1>7. log[k][m] \in ids /\ m \in 1..Len(log[k])
    BY <1>6
  <1>8. ASSUME NEW j \in ids PROVE ~ Less(log[k][m], j)
    <2>1. PICK i \in 1..Len(log[k]) : j = log[k][i]
      BY <1>4, <1>8
    <2>2. i <= m
      BY <1>6, <1>8, <2>1
    <2>3. ~ m < i
      BY <1>7, <2>2
    <2> QED BY <1>1, <1>7, <2>1, <2>3, LogOrder
  <1> HIDE DEF ids
  <1>9. Largest(ids) \in ids
    BY <1>7, <1>8 DEF Largest
  <1> QED BY <1>4, <1>9 DEF Past, ids

(* A reader that receives a result goes on from the past.                  *)
LEMMA ReceivePast ==
  ASSUME AllKept, NEW r, HasPast(r), NEW request, NEW how
  PROVE  /\ HasPast(Receive(r, request, how))
         /\ Receive(r, request, how).last.how = how
         /\ (\E k \in Key : FoundFor(request, k) # {}) => Receive(r, request, how).last.data
  <1> DEFINE q == Receive(r, request, how)
  <1>1. /\ DOMAIN q = ReaderFields
        /\ \A k \in Key : q.cursor[k] = IF FoundFor(request, k) = {} THEN r.cursor[k]
                                        ELSE Largest(FoundFor(request, k))
        /\ q.last = [how |-> how, data |-> \E k \in Key : FoundFor(request, k) # {}]
    BY DEF Receive, HasPast, ReaderFields, FoundFor, Largest
  <1> HIDE DEF q
  <1>2. HasPast(q)
    BY <1>1, LargestPast DEF HasPast
  <1> QED BY <1>1, <1>2 DEF q

(* A reader that starts at a request of the past goes on from the past.    *)
LEMMA StartsPast ==
  ASSUME NEW c \in Reader, HasPast(reader[c]), NEW request, NEW from,
         from.kind # "cursor" => AsksPast(request)
  PROVE  HasPast(Starts(c, request, from)) /\ Starts(c, request, from).last = reader[c].last
  <1> DEFINE named == {request[i].key : i \in DOMAIN request}
             start(k) == request[CHOOSE i \in DOMAIN request : request[i].key = k].id
             r == reader[c]
             q == Restart(r, request)
  <1>1. CASE from.kind = "cursor"
    BY <1>1 DEF Starts
  <1>2. CASE from.kind # "cursor"
    <2>1. Starts(c, request, from) = q
      BY <1>2 DEF Starts
    <2>2. /\ DOMAIN q = ReaderFields /\ q.last = r.last
          /\ \A k \in Key : q.cursor[k] = IF k \in named THEN start(k) ELSE r.cursor[k]
      BY DEF Restart, HasPast, ReaderFields
    <2>3. ASSUME NEW k \in named PROVE Past(k, start(k))
      <3> DEFINE i == CHOOSE i \in DOMAIN request : request[i].key = k
      <3>1. i \in DOMAIN request /\ request[i].key = k
        BY <2>3
      <3> HIDE DEF i
      <3>2. Past(k, request[i].id)
        BY <1>2, <3>1 DEF AsksPast
      <3> QED BY <3>2 DEF i
    <2> HIDE DEF q, start
    <2> QED BY <2>1, <2>2, <2>3 DEF HasPast
  <1> QED BY <1>1, <1>2

(* What was past is past after any step.                                   *)
LEMMA PastKept ==
  ASSUME NoExpiry, AllKept, [Next]_vars, NEW k \in Key, NEW id, Past(k, id)
  PROVE  Past(k, id)'
  <1>1. /\ Len(log[k]) \in Nat /\ Len(log'[k]) \in Nat /\ Len(log[k]) <= Len(log'[k])
        /\ \A i \in 1..Len(log[k]) : log'[k][i] = log[k][i]
    BY LogGrows
  <1>2. \A i \in 1..Len(log[k]) : i \in 1..Len(log'[k])
    BY <1>1
  <1> QED BY <1>1, <1>2 DEF Past

(* An answered job leaves nobody in a job who was not in one.              *)
LEMMA RestFrom ==
  ASSUME nreads \in Nat, Posted, jobs # <<>>, NEW g, NEW i \in DOMAIN Rest, g \in Range(Rest[i])
  PROVE  IsCalled(g)
  <1> DEFINE S == Seq(1..nreads)
             j == Head(jobs)
             t == Tail(jobs)
  <1>1. /\ t \in Seq(S) /\ Len(jobs) \in Nat \ {0} /\ Len(t) = Len(jobs) - 1
        /\ j = jobs[1] /\ j \in S
        /\ \A m \in 1..Len(jobs) - 1 : t[m] = jobs[m + 1]
    <2>1. jobs \in Seq(S)
      BY DEF Posted
    <2> HIDE DEF S
    <2> QED BY <2>1, TailIs
  <1>2. /\ DOMAIN t = 1..Len(t) /\ DOMAIN jobs = 1..Len(jobs)
        /\ 1 \in 1..Len(jobs) /\ \A m \in 1..Len(t) : m + 1 \in 1..Len(jobs)
    BY <1>1
  <1>3. ASSUME NEW m \in DOMAIN t, g \in Range(t[m]) PROVE IsCalled(g)
    BY <1>1, <1>2, <1>3 DEF IsCalled
  <1>4. ASSUME g \in Range(Tail(j)) PROVE IsCalled(g)
    <2>1. j # <<>>
      BY <1>1, <1>2 DEF Posted
    <2>2. /\ Tail(j) \in S /\ Len(j) \in Nat \ {0} /\ Len(Tail(j)) = Len(j) - 1
          /\ \A m \in 1..Len(j) - 1 : Tail(j)[m] = j[m + 1]
      <3> DEFINE I == 1..nreads
      <3>1. j \in Seq(I)
        BY <1>1
      <3> HIDE DEF I, j
      <3>2. /\ Tail(j) \in Seq(I) /\ Len(j) \in Nat \ {0} /\ Len(Tail(j)) = Len(j) - 1
            /\ \A m \in 1..Len(j) - 1 : Tail(j)[m] = j[m + 1]
        BY <2>1, <3>1, TailIs
      <3> QED BY <3>2 DEF I
    <2>3. DOMAIN Tail(j) = 1..Len(Tail(j)) /\ DOMAIN j = 1..Len(j)
      BY <1>1, <2>2
    <2>4. PICK m \in 1..Len(Tail(j)) : g = Tail(j)[m]
      BY <1>4, <2>3 DEF Range
    <2>5. m + 1 \in DOMAIN j /\ g = j[m + 1]
      BY <2>2, <2>3, <2>4
    <2> QED BY <1>1, <1>2, <2>5 DEF IsCalled, Range
  <1>5. CASE Len(j) = 1
    BY <1>3, <1>5 DEF Rest
  <1>6. CASE Len(j) # 1
    <2> DEFINE u == <<Tail(j)>>
    <2>1. Rest = u \o t
      BY <1>6 DEF Rest
    <2> HIDE DEF t
    <2>2. Tail(j) \in S
      <3>1. j # <<>>
        BY <1>1, <1>2 DEF Posted
      <3> DEFINE I == 1..nreads
      <3>2. j \in Seq(I)
        BY <1>1
      <3> HIDE DEF I, j
      <3>3. Tail(j) \in Seq(I)
        BY <3>1, <3>2, TailIs
      <3> QED BY <3>3 DEF I
    <2> HIDE DEF S, j
    <2>3. u \in Seq(S) /\ Len(u) = 1 /\ u[1] = Tail(j)
      BY <2>2
    <2>4. u \in Seq(S) /\ t \in Seq(S)
      BY <1>1, <2>3
    <2> HIDE DEF u
    <2>5. /\ u \o t \in Seq(S) /\ Len(u \o t) = Len(u) + Len(t)
          /\ \A m \in 1..Len(u) : (u \o t)[m] = u[m]
          /\ \A m \in 1..Len(t) : (u \o t)[Len(u) + m] = t[m]
      BY <2>4, Concatenated
    <2>6. DOMAIN (u \o t) = 1..Len(u \o t)
      BY <2>5
    <2>7. i \in 1..1 + Len(t) /\ Len(t) \in Nat
      BY <1>1, <2>1, <2>3, <2>5, <2>6
    <2>8. CASE i = 1
      <3>1. Rest[i] = Tail(j)
        BY <2>1, <2>3, <2>5, <2>8
      <3> QED BY <1>4, <3>1
    <2>9. CASE i # 1
      <3>1. i - 1 \in 1..Len(t) /\ 1 + (i - 1) = i
        BY <2>7, <2>9
      <3>2. Rest[i] = t[i - 1]
        BY <2>1, <2>3, <2>5, <3>1
      <3> QED BY <1>2, <1>3, <3>1, <3>2
    <2> QED BY <2>8, <2>9
  <1> QED BY <1>5, <1>6

(* Who waits for a key names it: only an XREAD that names it joins.        *)
LEMMA JoinedNames ==
  ASSUME NEW n \in Nat, NEW k, waitlist[k] \in Seq(1..n), NEW keys \in Request,
         n + 1 \in Range(Joined(n + 1, keys, k))
  PROVE  \E j \in DOMAIN keys : keys[j] = k
  <1> SUFFICES ASSUME \A j \in DOMAIN keys : keys[j] # k PROVE FALSE
    OBVIOUS
  <1> DEFINE named == {j \in DOMAIN keys : keys[j] = k}
             s == waitlist[k]
  <1>1. named = {}
    OBVIOUS
  <1>2. Cardinality(named) = 0
    BY <1>1, FS_EmptySet
  <1>3. [i \in 1..Cardinality(named) |-> n + 1] = <<>>
    <2> HIDE DEF named
    <2> QED BY <1>2
  <1>4. Joined(n + 1, keys, k) = s \o <<>>
    BY <1>3 DEF Joined
  <1>5. s \in Seq(1..n)
    OBVIOUS
  <1> HIDE DEF s
  <1>6. s \o <<>> = s
    BY <1>5
  <1>7. n + 1 \in Range(s)
    BY <1>4, <1>6
  <1>8. PICK i \in 1..Len(s) : s[i] = n + 1
    BY <1>5, <1>7 DEF Range
  <1>9. s[i] \in 1..n
    BY <1>5, ElementAt
  <1> QED BY <1>8, <1>9

(* What a handle is owed after a step that leaves its request alone.       *)
LEMMA OwedKept ==
  ASSUME NoWrap, NoExpiry, AllKept, [Next]_vars, NEW h, handle'[h] = handle[h],
         AsksPast(handle[h].request), Owed(h)
  PROVE  Owed(h)'
  <1>1. ASSUME NEW k \in Key, NEW in \in Input, NEW time \in 1..MaxMs, XAdd(k, in, time)
        PROVE  Owed(h)'
    <2>1. /\ \A l \in Key : l # k => stored'[l] = stored[l]
          /\ stored[k].type # "string"
          /\ stored'[k] = Stream(Emplace(Data(k), AppendId(Data(k), in, time), Len(log[k]) + 1))
      BY <1>1 DEF XAdd, AllKept
    <2>2. CASE Miscast(handle[h].request)
      <3>1. PICK i \in DOMAIN handle[h].request :
                   stored[handle[h].request[i].key].type = "string"
        BY <2>2 DEF Miscast
      <3>2. handle[h].request[i].key \in Key
        BY DEF AsksPast
      <3> QED BY <2>1, <3>1, <3>2 DEF Owed, Miscast
    <2>3. ASSUME NEW l \in Key, Missing(h, l) PROVE Missing(h, l)'
      <3>1. CASE l = k
        <4>1. Data(k)' = Emplace(Data(k), AppendId(Data(k), in, time), Len(log[k]) + 1)
          BY <2>1 DEF Data, IsStream, Stream
        <4>2. Ids(Data(k)) \subseteq Ids(Data(k)')
          BY <4>1 DEF Ids, Emplace
        <4>3. \A id : XReadIds(Data(k), id) \subseteq XReadIds(Data(k)', id)
          BY <4>2 DEF XReadIds
        <4> QED BY <2>3, <3>1, <4>3 DEF Missing
      <3>2. CASE l # k
        <4>1. Data(l)' = Data(l)
          BY <2>1, <3>2 DEF Data, IsStream
        <4> QED BY <2>3, <4>1 DEF Missing
      <3> QED BY <3>1, <3>2
    <2> QED BY <2>2, <2>3 DEF Owed
  <1>2. ASSUME NEW k \in Key, NEW px, Set(k, px) PROVE Owed(h)'
    <2>1. /\ \A l \in Key : l # k => stored'[l] = stored[l]
          /\ stored'[k].type = "string"
      BY <1>2 DEF Set, Text, AllKept
    <2>2. CASE Miscast(handle[h].request)
      <3>1. PICK i \in DOMAIN handle[h].request :
                   stored[handle[h].request[i].key].type = "string"
        BY <2>2 DEF Miscast
      <3>2. handle[h].request[i].key \in Key
        BY DEF AsksPast
      <3>3. stored'[handle[h].request[i].key].type = "string"
        BY <2>1, <3>1, <3>2
      <3> QED BY <3>3 DEF Owed, Miscast
    <2>3. ASSUME NEW l \in Key, Missing(h, l) PROVE Owed(h)'
      <3>1. CASE l = k
        <4>1. PICK i \in DOMAIN handle[h].request : handle[h].request[i].key = k
          BY <2>3, <3>1 DEF Missing
        <4> QED BY <2>1, <4>1 DEF Owed, Miscast
      <3>2. CASE l # k
        <4>1. Data(l)' = Data(l)
          BY <2>1, <3>2 DEF Data, IsStream
        <4>2. Missing(h, l)'
          BY <2>3, <4>1 DEF Missing
        <4> QED BY <4>2 DEF Owed
      <3> QED BY <3>1, <3>2
    <2> QED BY <2>2, <2>3 DEF Owed
  <1>3. ASSUME UNCHANGED storageVars PROVE Owed(h)'
    BY <1>3 DEF storageVars, Owed, Miscast, Missing, Data, IsStream
  <1> QED BY <1>1, <1>2, <1>3, StoredStep

(* A handle that is left alone, and that no job comes to call, is owed     *)
(* what it was.                                                            *)
LEMMA AwaitsKept ==
  ASSUME NoWrap, NoExpiry, AllKept, [Next]_vars, NEW h, handle'[h] = handle[h], Awaits(h),
         \A k \in Key : h \in Range(waitlist'[k]) => h \in Range(waitlist[k]),
         IsCalled(h)' => IsCalled(h)
  PROVE  Awaits(h)'
  <1> SUFFICES ASSUME handle[h].callback
               PROVE  /\ AsksPast(handle[h].request)'
                      /\ \A k \in Key : h \in Range(waitlist'[k]) => Names(handle'[h].request, k)
                      /\ IsCalled(h)' => Owed(h)'
    BY DEF Awaits
  <1>1. AsksPast(handle[h].request)
    BY DEF Awaits
  <1>2. AsksPast(handle[h].request)'
    <2>1. PICK request : request = handle[h].request
      OBVIOUS
    <2>2. AsksPast(request)'
      BY <1>1, <2>1, PastKept DEF AsksPast
    <2> QED BY <2>1, <2>2
  <1>3. IsCalled(h)' => Owed(h)'
    BY <1>1, OwedKept DEF Awaits
  <1> QED BY <1>2, <1>3 DEF Awaits

(* A reader that is left alone goes on from the past.                      *)
LEMMA HasPastKept ==
  ASSUME NoExpiry, AllKept, [Next]_vars, NEW r, HasPast(r) PROVE HasPast(r)'
  BY PastKept DEF HasPast

(* An XADD owes data to everyone it calls.                                 *)
LEMMA XAddAwaits ==
  ASSUME NoWrap, NoExpiry, AllKept, Shape, InOrder, Posted, Awaited,
         NEW k \in Key, NEW in \in Input, NEW time \in 1..MaxMs, XAdd(k, in, time)
  PROVE  Awaited'
  <1>1. UNCHANGED <<waitlist, handle, reader, nreads>> /\ [Next]_vars
    BY DEF XAdd, Next
  <1>2. ASSUME NEW h, IsCalled(h)' PROVE IsCalled(h) \/ h \in Range(waitlist[k])
    <2>1. jobs \in Seq(Seq(1..nreads)) /\ waitlist[k] \in Seq(1..nreads)
      BY DEF Posted, Shape
    <2>2. jobs' = jobs \/ jobs' = Append(jobs, waitlist[k])
      BY DEF XAdd, Post
    <2>3. CASE jobs' = Append(jobs, waitlist[k])
      <3> DEFINE S == Seq(1..nreads)
                 w == waitlist[k]
      <3>0. jobs \in Seq(S) /\ w \in S /\ jobs' = Append(jobs, w)
        BY <2>1, <2>3
      <3> HIDE DEF S, w
      <3>1. /\ DOMAIN jobs' = 1..Len(jobs) + 1 /\ DOMAIN jobs = 1..Len(jobs) /\ Len(jobs) \in Nat
            /\ jobs'[Len(jobs) + 1] = w
            /\ \A i \in 1..Len(jobs) : jobs'[i] = jobs[i]
        BY <3>0
      <3>2. PICK i \in 1..Len(jobs) + 1 : h \in Range(jobs'[i])
        BY <1>2, <3>1 DEF IsCalled
      <3>3. CASE i = Len(jobs) + 1
        BY <3>1, <3>2, <3>3 DEF w
      <3>4. CASE i # Len(jobs) + 1
        <4>1. i \in 1..Len(jobs)
          BY <3>1, <3>4
        <4> QED BY <3>1, <3>2, <4>1 DEF IsCalled
      <3> QED BY <3>3, <3>4
    <2> QED BY <1>2, <2>2, <2>3 DEF IsCalled
  <1>3. ASSUME NEW h \in Handle, handle[h].callback, h \in Range(waitlist[k]) PROVE Owed(h)'
    <2>1. AsksPast(handle[h].request) /\ Names(handle[h].request, k)
      BY <1>3 DEF Awaited, Awaits
    <2>2. PICK i \in DOMAIN handle[h].request : handle[h].request[i].key = k
      BY <2>1 DEF Names
    <2>3. Past(k, handle[h].request[i].id)
      BY <2>1, <2>2 DEF AsksPast
    <2>4. XReadIds(Data(k)', handle[h].request[i].id) # {}
      <3>1. PICK id : id = handle[h].request[i].id
        OBVIOUS
      <3> QED BY <2>3, <3>1, AddsAfterPast
    <2>5. Missing(h, k)'
      BY <1>1, <2>2, <2>4 DEF Missing
    <2> QED BY <2>5 DEF Owed
  <1>4. ASSUME NEW h \in Handle, handle[h].callback
        PROVE  AsksPast(handle[h].request)' /\ (IsCalled(h) => Owed(h)')
    <2>1. AsksPast(handle[h].request) /\ (IsCalled(h) => Owed(h))
      BY <1>4 DEF Awaited, Awaits
    <2>2. PICK request : request = handle[h].request
      OBVIOUS
    <2>3. AsksPast(request)'
      BY <1>1, <2>1, <2>2, PastKept DEF AsksPast
    <2>4. IsCalled(h) => Owed(h)'
      BY <1>1, <2>1, OwedKept
    <2> QED BY <1>1, <2>2, <2>3, <2>4
  <1>5. ASSUME NEW h \in Handle PROVE Awaits(h)'
    BY <1>1, <1>2, <1>3, <1>4 DEF Awaited, Awaits
  <1>6. ASSUME NEW c \in Reader PROVE HasPast(reader[c])' /\ HasData(reader[c])'
    <2>1. PICK r : r = reader[c]
      OBVIOUS
    <2>2. HasPast(r)'
      BY <1>1, <2>1, HasPastKept DEF Awaited
    <2> QED BY <1>1, <2>1, <2>2 DEF Awaited, HasData
  <1> QED BY <1>5, <1>6 DEF Awaited

(* What an XREAD finds for a part with an id.                              *)
LEMMA FoundParts ==
  ASSUME NEW request, NEW i \in DOMAIN request, ~ request[i].is_next_expected,
         XReadIds(Data(request[i].key), request[i].id) # {}
  PROVE  FoundFor(request, request[i].key) # {}
  <1>1. Found(request[i]) # {}
    BY DEF Found
  <1>2. Found(request[i]) \in {Found(request[j]) :
            j \in {j \in DOMAIN request : request[j].key = request[i].key}}
    OBVIOUS
  <1> QED BY <1>1, <1>2 DEF FoundFor

(* An XREAD answered at once starts from the past.                         *)
LEMMA AtOnceAwaits ==
  ASSUME NoWrap, NoExpiry, NoIdGiven, AllKept, Shape, Awaited,
         NEW c \in Reader, NEW keys \in Request, NEW from \in From, XReadAtOnce(c, keys, from)
  PROVE  Awaited'
  <1> DEFINE request == Asks(c, keys, from)
             r == Starts(c, request, from)
  <1>1. /\ UNCHANGED <<storageVars, handle, jobs, waitlist, nreads>> /\ [Next]_vars
        /\ \E i \in DOMAIN request : Found(request[i]) # {}
        /\ reader'[c] = Receive(r, request, "at once")
        /\ \A d \in Reader : d # c => reader'[d] = reader[d]
    BY DEF XReadAtOnce, Shape, Next
  <1>2. from.kind = "cursor"
    <2>1. from.kind \in {"next", "cursor"}
      BY DEF NoIdGiven
    <2>2. \A i \in DOMAIN request : request[i].is_next_expected = (from.kind = "next")
      BY DEF Asks
    <2>3. from.kind # "next"
      BY <1>1, <2>2 DEF Found
    <2> QED BY <2>1, <2>3
  <1>3. HasPast(r)
    BY <1>2, StartsPast DEF Awaited
  <1> HIDE DEF r, request
  <1>4. PICK q : q = Receive(r, request, "at once")
    OBVIOUS
  <1>5. HasPast(q) /\ q.last.how = "at once"
    <2>1. HasPast(Receive(r, request, "at once"))
      BY <1>3, ReceivePast
    <2>2. Receive(r, request, "at once").last.how = "at once"
      BY <1>3 DEF Receive, HasPast, ReaderFields
    <2> QED BY <1>4, <2>1, <2>2
  <1>6. HasPast(q)'
    BY <1>1, <1>5, HasPastKept
  <1>7. ASSUME NEW d \in Reader PROVE HasPast(reader[d])' /\ HasData(reader[d])'
    <2>1. CASE d = c
      BY <1>1, <1>4, <1>5, <1>6, <2>1 DEF HasData
    <2>2. CASE d # c
      <3>1. PICK s : s = reader[d]
        OBVIOUS
      <3>2. HasPast(s)'
        BY <1>1, <3>1, HasPastKept DEF Awaited
      <3> QED BY <1>1, <2>2, <3>1, <3>2 DEF Awaited, HasData
    <2> QED BY <2>1, <2>2
  <1>8. ASSUME NEW h \in Handle PROVE Awaits(h)'
    <2>1. IsCalled(h)' => IsCalled(h)
      BY <1>1 DEF IsCalled
    <2> QED BY <1>1, <2>1, AwaitsKept DEF Awaited
  <1> QED BY <1>7, <1>8 DEF Awaited

(* The last id of a stream was returned for its key.                       *)
LEMMA LastPast == ASSUME AllKept, AllTopped, NEW k \in Key PROVE Past(k, LastId(Data(k)))
  <1>0. Kept(k)
    BY DEF AllKept
  <1>1. CASE Ids(Data(k)) = {}
    BY <1>1 DEF LastId, Past
  <1>2. CASE Ids(Data(k)) # {}
    <2>1. IsStream(k)
      BY <1>2 DEF Data, Empty, Ids
    <2>2. Ids(Data(k)) = Stretch(k, 1, Len(log[k])) /\ Ids(Data(k)) \subseteq Id
      BY <1>0, <2>1, HeldIds
    <2>3. PICK t \in Id : IsTop(Data(k), t)
      BY <1>2 DEF AllTopped, Topped
    <2>4. LastId(Data(k)) = t /\ t \in Ids(Data(k))
      BY <1>2, <2>2, <2>3, TopIs DEF LastId, IsTop
    <2> QED BY <2>2, <2>4 DEF Past, Stretch
  <1> QED BY <1>1, <1>2

(* An XREAD that blocks asks for what follows the past.                    *)
LEMMA BlocksAwaits ==
  ASSUME NoWrap, NoExpiry, NoIdGiven, AllKept, Shape, Queued, Awaited,
         NEW c \in Reader, NEW keys \in Request, NEW from \in From, NEW ms \in Timeout,
         XReadBlocks(c, keys, from, ms)
  PROVE  Awaited'
  <1> DEFINE request == Asks(c, keys, from)
             resolved == [i \in DOMAIN request |-> Resolve(request[i])]
             r == Starts(c, resolved, from)
  <1>0. nreads \in Nat /\ nreads + 1 \in Handle
    BY StorageAssumption DEF Shape, Handle, XReadBlocks
  <1>1. PICK h \in Handle : h = nreads + 1
    BY <1>0
  <1>2. /\ UNCHANGED <<storageVars, jobs>> /\ [Next]_vars
        /\ reader'[c] = [r EXCEPT !.handle = h]
        /\ \A d \in Reader : d # c => reader'[d] = reader[d]
        /\ handle'[h].request = resolved
        /\ \A g \in Handle : g # h => handle'[g] = handle[g]
        /\ waitlist' = [k \in Key |-> Joined(h, keys, k)]
    BY <1>1 DEF XReadBlocks, Shape, Next
  <1>3. \A i \in DOMAIN keys : keys[i] \in Key
    BY StorageAssumption
  <1>4. DOMAIN request = DOMAIN keys
    BY DEF Asks
  <1>5. ASSUME NEW i \in DOMAIN keys
        PROVE  /\ resolved[i].key = keys[i] /\ ~ resolved[i].is_next_expected
               /\ Past(keys[i], resolved[i].id)
    <2>1. /\ request[i].key = keys[i] /\ request[i].is_next_expected = (from.kind = "next")
          /\ DOMAIN request[i] = {"key", "is_next_expected", "id"}
      BY DEF Asks
    <2>2. CASE from.kind = "next"
      <3>1. /\ resolved[i].key = request[i].key /\ ~ resolved[i].is_next_expected
            /\ resolved[i].id = LastId(Data(request[i].key))
        BY <1>4, <2>1, <2>2 DEF Resolve
      <3>2. Past(keys[i], LastId(Data(keys[i])))
        BY <1>3, LastPast DEF Queued
      <3>3. resolved[i].id = LastId(Data(keys[i]))
        BY <2>1, <3>1
      <3> HIDE DEF resolved, request
      <3> QED BY <2>1, <3>1, <3>2, <3>3
    <2>3. CASE from.kind = "cursor"
      <3>1. resolved[i] = request[i]
        BY <1>4, <2>1, <2>3 DEF Resolve
      <3>2. request[i].id = reader[c].cursor[keys[i]]
        BY <2>3 DEF Asks
      <3>3. Past(keys[i], reader[c].cursor[keys[i]])
        BY <1>3 DEF Awaited, HasPast
      <3> QED BY <2>1, <2>3, <3>1, <3>2, <3>3
    <2> QED BY <2>2, <2>3 DEF NoIdGiven
  <1>6. DOMAIN resolved = DOMAIN keys
    BY <1>4
  <1> HIDE DEF request, resolved
  <1>7. AsksPast(resolved)
    BY <1>3, <1>5, <1>6 DEF AsksPast
  <1>8. HasPast(r) /\ r.last = reader[c].last
    BY <1>7, StartsPast DEF Awaited
  <1> HIDE DEF r
  <1>9. PICK q : q = [r EXCEPT !.handle = h]
    OBVIOUS
  <1>10. HasPast(q) /\ q.last = reader[c].last
    BY <1>8, <1>9 DEF HasPast, ReaderFields
  <1>11. HasPast(q)'
    BY <1>2, <1>10, HasPastKept
  <1>12. ASSUME NEW d \in Reader PROVE HasPast(reader[d])' /\ HasData(reader[d])'
    <2>1. CASE d = c
      BY <1>2, <1>9, <1>10, <1>11, <2>1 DEF Awaited, HasData
    <2>2. CASE d # c
      <3>1. PICK s : s = reader[d]
        OBVIOUS
      <3>2. HasPast(s)'
        BY <1>2, <3>1, HasPastKept DEF Awaited
      <3> QED BY <1>2, <2>2, <3>1, <3>2 DEF Awaited, HasData
    <2> QED BY <2>1, <2>2
  <1>13. ASSUME NEW g \in Handle, NEW k \in Key, g \in Range(waitlist'[k])
         PROVE  /\ g # h => g \in Range(waitlist[k])
                /\ g = h => Names(resolved, k)
    <2>1. waitlist[k] \in Seq(1..nreads) /\ Sorted(waitlist[k])
      BY DEF Shape, Queued, InOrder
    <2>2. waitlist'[k] = Joined(nreads + 1, keys, k)
      BY <1>1, <1>2
    <2>3. Range(Joined(nreads + 1, keys, k)) \subseteq Range(waitlist[k]) \cup {nreads + 1}
      BY <1>0, <2>1, JoinedKeeps
    <2>4. g = h => \E j \in DOMAIN keys : keys[j] = k
      BY <1>0, <1>1, <1>13, <2>1, <2>2, JoinedNames
    <2> QED BY <1>1, <1>5, <1>6, <1>13, <2>2, <2>3, <2>4 DEF Names
  <1>14. ~ IsCalled(h)'
    <2>1. ASSUME NEW i \in DOMAIN jobs, h \in Range(jobs[i]) PROVE FALSE
      <3> DEFINE S == 1..nreads
      <3>1. jobs \in Seq(Seq(S))
        BY DEF Queued, Posted
      <3> HIDE DEF S
      <3>2. jobs[i] \in Seq(S)
        BY <3>1
      <3>3. h \in S
        BY <2>1, <3>2 DEF Range
      <3> QED BY <1>0, <1>1, <3>3 DEF S
    <2> QED BY <1>2, <2>1 DEF IsCalled
  <1>15. ASSUME NEW g \in Handle PROVE Awaits(g)'
    <2>1. CASE g = h
      <3>1. PICK asked : asked = resolved
        OBVIOUS
      <3>2. AsksPast(asked)'
        BY <1>2, <1>7, <3>1 DEF AsksPast, Past, storageVars
      <3>3. \A k \in Key : h \in Range(waitlist'[k]) => Names(asked, k)
        BY <1>13, <3>1
      <3> QED BY <1>2, <1>14, <2>1, <3>1, <3>2, <3>3 DEF Awaits, Names
    <2>2. CASE g # h
      <3>1. IsCalled(g)' => IsCalled(g)
        BY <1>2 DEF IsCalled
      <3> QED BY <1>2, <1>13, <2>2, <3>1, AwaitsKept DEF Awaited
    <2> QED BY <2>1, <2>2
  <1> QED BY <1>12, <1>15 DEF Awaited

(* An answer to a handle that a job calls has data.                        *)
LEMMA ReplyAwaits ==
  ASSUME NoWrap, NoExpiry, AllKept, Shape, Linked, InOrder, Awaited, [Next]_vars,
         NEW h \in Handle, NEW how, Reply(h, how), how = "woken" => IsCalled(h),
         \A g : IsCalled(g)' => IsCalled(g)
  PROVE  Awaited'
  <1> DEFINE c == handle[h].reader
             request == handle[h].request
  <1>1. /\ handle[h].callback /\ ~ Miscast(request) /\ c \in Reader
        /\ reader'[c] = Receive(reader[c], request, how)
        /\ \A d \in Reader : d # c => reader'[d] = reader[d]
    BY DEF Reply, Shape, Linked
  <1>2. AsksPast(request) /\ (IsCalled(h) => \E k \in Key : Missing(h, k)) /\ HasPast(reader[c])
    BY <1>1 DEF Awaited, Awaits, Owed
  <1>3. ASSUME how = "woken" PROVE \E k \in Key : FoundFor(request, k) # {}
    <2>1. PICK k \in Key : Missing(h, k)
      BY <1>2, <1>3
    <2>2. PICK i \in DOMAIN request :
              request[i].key = k /\ XReadIds(Data(k), request[i].id) # {}
      BY <2>1 DEF Missing
    <2>3. ~ request[i].is_next_expected
      BY <1>2 DEF AsksPast
    <2> HIDE DEF request
    <2> QED BY <2>2, <2>3, FoundParts
  <1>4. PICK r : r = reader[c]
    OBVIOUS
  <1> HIDE DEF request
  <1>5. PICK q : q = Receive(r, request, how)
    OBVIOUS
  <1>6. HasPast(q)
    BY <1>2, <1>4, <1>5, ReceivePast
  <1>7. HasPast(q)'
    BY <1>6, HasPastKept
  <1>8. HasData(q)
    <2>1. q.last = [how |-> how, data |-> \E k \in Key : FoundFor(request, k) # {}]
      BY <1>2, <1>4, <1>5 DEF Receive, HasPast, ReaderFields, FoundFor
    <2> QED BY <1>3, <2>1 DEF HasData
  <1>9. ASSUME NEW d \in Reader PROVE HasPast(reader[d])' /\ HasData(reader[d])'
    <2>1. CASE d = c
      BY <1>1, <1>4, <1>5, <1>7, <1>8, <2>1 DEF HasData
    <2>2. CASE d # c
      <3>1. PICK s : s = reader[d]
        OBVIOUS
      <3>2. HasPast(s)'
        BY <3>1, HasPastKept DEF Awaited
      <3> QED BY <1>1, <2>2, <3>1, <3>2 DEF Awaited, HasData
    <2> QED BY <2>1, <2>2
  <1>10. /\ \A g \in Handle : g # h => handle'[g] = handle[g]
         /\ handle'[h].callback = FALSE
         /\ \A k \in Key : Range(waitlist'[k]) \subseteq Range(waitlist[k])
    BY ReplyOrder
  <1>11. ASSUME NEW g \in Handle PROVE Awaits(g)'
    <2>1. CASE g = h
      BY <1>10, <2>1 DEF Awaits
    <2>2. CASE g # h
      BY <1>10, <2>2, AwaitsKept DEF Awaited
    <2> QED BY <2>1, <2>2
  <1> QED BY <1>9, <1>11 DEF Awaited

(* A step that leaves readers, handles and waitlists alone and calls       *)
(* nobody.                                                                 *)
LEMMA StillAwaited ==
  ASSUME NoWrap, NoExpiry, AllKept, Awaited, [Next]_vars, UNCHANGED <<reader, handle, waitlist>>,
         \A g : IsCalled(g)' => IsCalled(g)
  PROVE  Awaited'
  <1>1. ASSUME NEW d \in Reader PROVE HasPast(reader[d])' /\ HasData(reader[d])'
    <2>1. PICK s : s = reader[d]
      OBVIOUS
    <2>2. HasPast(s)'
      BY <2>1, HasPastKept DEF Awaited
    <2> QED BY <2>1, <2>2 DEF Awaited, HasData
  <1>2. \A g \in Handle : Awaits(g)'
    BY AwaitsKept DEF Awaited
  <1> QED BY <1>1, <1>2 DEF Awaited

(* A job answers with data, and calls fewer handles after it.              *)
LEMMA RunJobAwaits ==
  ASSUME NoWrap, NoExpiry, AllKept, Shape, Linked, Queued, Awaited, RunJob
  PROVE  Awaited'
  <1> DEFINE S == Seq(1..nreads)
             h == Head(Head(jobs))
  <1>1. jobs # <<>> /\ nreads \in Nat /\ [Next]_vars
    <2>1. jobs # <<>> /\ nreads \in Nat
      BY StorageAssumption DEF RunJob, Shape
    <2>2. [Next]_vars
      BY DEF Next
    <2> QED BY <2>1, <2>2
  <1>2. /\ jobs \in Seq(S) /\ Tail(jobs) \in Seq(S) /\ Len(jobs) \in Nat \ {0}
        /\ Len(Tail(jobs)) = Len(jobs) - 1 /\ Head(jobs) = jobs[1] /\ Head(jobs) \in S
        /\ \A i \in 1..Len(jobs) - 1 : Tail(jobs)[i] = jobs[i + 1]
    <2>1. jobs \in Seq(S)
      BY DEF Queued, Posted
    <2> HIDE DEF S
    <2> QED BY <1>1, <2>1, TailIs
  <1>3. /\ DOMAIN jobs = 1..Len(jobs) /\ DOMAIN Tail(jobs) = 1..Len(Tail(jobs))
        /\ 1 \in DOMAIN jobs /\ \A i \in DOMAIN Tail(jobs) : i + 1 \in DOMAIN jobs
    BY <1>2
  <1>4. IsCalled(h)
    <2>1. Head(jobs) # <<>>
      BY <1>2, <1>3 DEF Queued, Posted
    <2>2. h \in Range(Head(jobs))
      <3>1. Len(Head(jobs)) \in Nat \ {0} /\ h = Head(jobs)[1] /\ DOMAIN Head(jobs) = 1..Len(Head(jobs))
        BY <1>2, <2>1
      <3>2. 1 \in DOMAIN Head(jobs)
        BY <3>1
      <3> QED BY <3>1, <3>2 DEF Range
    <2> QED BY <1>2, <1>3, <2>2 DEF IsCalled
  <1>5. ASSUME jobs' = Rest PROVE \A g : IsCalled(g)' => IsCalled(g)
    BY <1>1, <1>5, RestFrom DEF Queued, IsCalled
  <1>6. ASSUME jobs' = Tail(jobs) PROVE \A g : IsCalled(g)' => IsCalled(g)
    BY <1>2, <1>3, <1>6 DEF IsCalled
  <1> HIDE DEF h
  <1>7. CASE Alive(h) /\ jobs' = Rest /\ Reply(h, "woken")
    <2>1. h \in Handle
      BY <1>7, AliveIsHandle
    <2> QED BY <1>1, <1>4, <1>5, <1>7, <2>1, ReplyAwaits DEF Queued
  <1>8. CASE jobs' = Rest /\ UNCHANGED <<reader, handle, waitlist>>
    BY <1>1, <1>5, <1>8, StillAwaited
  <1>9. CASE jobs' = Tail(jobs) /\ UNCHANGED <<reader, handle, waitlist>>
    BY <1>1, <1>6, <1>9, StillAwaited
  <1> QED BY <1>7, <1>8, <1>9 DEF RunJob, ReplyMiscasts, ReplyThrows, h

(* Every step keeps what is owed to the handles that are called.           *)
LEMMA AwaitedStep ==
  ASSUME NoWrap, NoExpiry, NoIdGiven, AllKept, Shape, Linked, Queued, Awaited, [Next]_vars
  PROVE  Awaited'
  <1>1. ASSUME NEW k \in Key, NEW in \in Input, NEW time \in 1..MaxMs, XAdd(k, in, time)
        PROVE  Awaited'
    BY <1>1, XAddAwaits DEF Queued
  <1>2. ASSUME NEW c \in Reader, NEW keys \in Request, NEW from \in From,
               XReadAtOnce(c, keys, from)
        PROVE  Awaited'
    BY <1>2, AtOnceAwaits
  <1>3. ASSUME NEW c \in Reader, NEW keys \in Request, NEW from \in From, NEW ms \in Timeout,
               XReadBlocks(c, keys, from, ms)
        PROVE  Awaited'
    BY <1>3, BlocksAwaits
  <1>4. ASSUME UNCHANGED jobs PROVE \A g : IsCalled(g)' => IsCalled(g)
    BY <1>4 DEF IsCalled
  <1>5. ASSUME UNCHANGED <<jobs, reader, handle, waitlist>> PROVE Awaited'
    BY <1>4, <1>5, StillAwaited
  <1>6. ASSUME NEW h \in Handle, RunTimeout(h) PROVE Awaited'
    <2>1. CASE Reply(h, "timeout")
      BY <1>4, <1>6, <2>1, ReplyAwaits DEF RunTimeout, Queued
    <2>2. CASE ReplyMiscasts(h) \/ ReplyThrows(h)
      BY <1>5, <1>6, <2>2 DEF RunTimeout, ReplyMiscasts, ReplyThrows
    <2> QED BY <1>6, <2>1, <2>2 DEF RunTimeout
  <1>7. ASSUME NEW k, (\E px \in BOOLEAN : Set(k, px)) \/ Get(k) PROVE Awaited'
    BY <1>5, <1>7 DEF Set, Get
  <1>8. ASSUME NEW c \in Reader, NEW keys \in Request, XReadMiscasts(c, keys) PROVE Awaited'
    BY <1>5, <1>8 DEF XReadMiscasts
  <1>9. ASSUME NEW k \in Key, NEW left \in Bound, NEW right \in Bound,
               XRangeUndefined(k, left, right)
        PROVE  Awaited'
    BY <1>5, <1>9 DEF XRangeUndefined
  <1>10. ASSUME JobsDone \/ PollDone \/ TimeoutsDone \/ Tick PROVE Awaited'
    BY <1>5, <1>10 DEF JobsDone, PollDone, TimeoutsDone, Tick, Turn
  <1>11. ASSUME UNCHANGED vars PROVE Awaited'
    BY <1>5, <1>11 DEF vars
  <1> QED
    BY <1>1, <1>2, <1>3, <1>6, <1>7, <1>8, <1>9, <1>10, <1>11, RunJobAwaits DEF Next

(* At first nobody waits.                                                  *)
LEMMA AwaitedInit == Init => Awaited
  BY DEF Init, Awaited, Awaits, HasPast, HasData, Past, NewReader, NoHandle, ReaderFields

(* An XREAD for what comes next is woken only with data: when a job calls  *)
(* a handle, the entry it was posted for is after every id the handle asks *)
(* from.  NoExpiry is needed: an XADD that begins a stream anew posts a    *)
(* job whatever its id is.                                                 *)
THEOREM WokenCorrect == ASSUME NoWrap, NoIdGiven, NoExpiry PROVE Spec => []WokenWithData
  <1>1. AllKept /\ (Queued /\ NoWakeupLost) /\ (Shape /\ Linked) /\ Awaited /\ [Next]_vars
            => Awaited'
    BY AwaitedStep
  <1>2. Awaited => WokenWithData
    BY DEF Awaited, HasData, WokenWithData
  <1> QED BY KeptCorrect, QueuedCorrect, LinkedCorrect, AwaitedInit, <1>1, <1>2, PTL DEF Spec
=============================================================================
