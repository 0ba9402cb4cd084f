----------------------------- MODULE WaitProofs -----------------------------
(***************************************************************************)
(* Theorems of Replication that rest on those of ReplicationProofs.        *)
(*                                                                         *)
(* The stream between the master and a replica: the two byte counters      *)
(* differ by exactly what is in it, and the replica ends up with exactly   *)
(* what the master has.                                                    *)
(*                                                                         *)
(* WAIT: what StorageMiddleware asked for with its own GETACK always       *)
(* covers its goal, so only the answer to an older GETACK can take a       *)
(* replica off the list uncounted.                                         *)
(*                                                                         *)
(* Replication implements WaitPromise: every step of the master, of a      *)
(* client and of a replica is a step of the promise, or leaves it alone.   *)
(***************************************************************************)
EXTENDS ReplicationProofs, FunctionTheorems

-----------------------------------------------------------------------------
(* Messages of one type in a stream are counted by their places.           *)

Places(s, T) == {i \in 1..Len(s) : s[i].type = T}
Num(s, T) == Cardinality(Places(s, T))

LEMMA NumType ==
    ASSUME NEW s, NEW T, Len(s) \in Nat
    PROVE  IsFiniteSet(Places(s, T)) /\ Num(s, T) \in Nat
  <1>1. IsFiniteSet(1..Len(s))
    BY FS_Interval
  <1>2. Places(s, T) \in SUBSET (1..Len(s))
    BY DEF Places
  <1>3. IsFiniteSet(Places(s, T))
    BY <1>1, <1>2, FS_Subset
  <1>. QED  BY <1>3, FS_CardinalityType DEF Num

LEMMA NumGrown ==
    ASSUME NEW s, NEW t, NEW m, NEW T, Len(s) \in Nat, Grown(s, t, m)
    PROVE  Num(t, T) = IF m.type = T THEN Num(s, T) + 1 ELSE Num(s, T)
  <1>1. /\ Len(t) = Len(s) + 1 /\ t[Len(s) + 1] = m
        /\ \A i \in 1..Len(s) : t[i] = s[i]
    BY DEF Grown
  <1>2. 1..Len(t) = (1..Len(s)) \cup {Len(s) + 1} /\ Len(s) + 1 \notin 1..Len(s)
    BY <1>1
  <1>3. CASE m.type = T
    <2>1. Places(t, T) = Places(s, T) \cup {Len(s) + 1}
      BY <1>1, <1>2, <1>3 DEF Places
    <2>2. Len(s) + 1 \notin Places(s, T)
      BY <1>2 DEF Places
    <2>3. IsFiniteSet(Places(s, T))
      BY NumType
    <2>4. Cardinality(Places(s, T) \cup {Len(s) + 1}) = Cardinality(Places(s, T)) + 1
      BY <2>2, <2>3, FS_AddElement
    <2>. QED  BY <1>3, <2>1, <2>4 DEF Num
  <1>4. CASE m.type # T
    <2>1. Places(t, T) = Places(s, T)
      BY <1>1, <1>2, <1>4 DEF Places
    <2>. QED  BY <1>4, <2>1 DEF Num
  <1>. QED  BY <1>3, <1>4

LEMMA NumShrunk ==
    ASSUME NEW s, NEW t, NEW T, Len(s) \in Nat, Shrunk(s, t)
    PROVE  Num(s, T) = IF s[1].type = T THEN Num(t, T) + 1 ELSE Num(t, T)
  <1>1. /\ Len(s) >= 1 /\ Len(t) = Len(s) - 1 /\ Len(t) \in Nat
        /\ \A i \in 1..Len(t) : t[i] = s[i + 1]
    BY DEF Shrunk
  <1>. DEFINE rest == Places(s, T) \ {1}
              shift == [i \in Places(t, T) |-> i + 1]
  <1>2. shift \in Bijection(Places(t, T), rest)
    <2>1. ASSUME NEW i \in Places(t, T) PROVE i \in Nat /\ i + 1 \in rest
      BY <1>1 DEF Places
    <2>2. ASSUME NEW j \in rest PROVE \E i \in Places(t, T) : shift[i] = j
      <3>1. j \in 1..Len(s) /\ j # 1 /\ s[j].type = T
        BY DEF Places
      <3>2. j - 1 \in 1..Len(t) /\ (j - 1) + 1 = j
        BY <1>1, <3>1
      <3>3. j - 1 \in Places(t, T)
        BY <1>1, <3>1, <3>2 DEF Places
      <3>. QED  BY <3>2, <3>3
    <2>3. shift \in [Places(t, T) -> rest]
      BY <2>1
    <2>4. \A i, j \in Places(t, T) : shift[i] = shift[j] => i = j
      BY <2>1
    <2>. QED  BY <2>2, <2>3, <2>4, Fun_IsBij
  <1>3. Cardinality(rest) = Num(t, T)
    <2>1. ExistsBijection(Places(t, T), rest)
      BY <1>2, Fun_ExistsBij
    <2>. QED  BY <1>1, <2>1, NumType, FS_Bijection DEF Num
  <1>4. 1 \in Places(s, T) <=> s[1].type = T
    BY <1>1 DEF Places
  <1>5. IsFiniteSet(Places(s, T)) /\ Num(s, T) \in Nat
    BY NumType
  <1>6. Cardinality(rest) = IF s[1].type = T THEN Num(s, T) - 1 ELSE Num(s, T)
    BY <1>4, <1>5, FS_RemoveElement DEF Num
  <1>. QED  BY <1>3, <1>5, <1>6

(* A stream that differs only in messages of other types.                  *)
LEMMA NumSame ==
    ASSUME NEW s, NEW t, NEW T, Len(s) \in Nat, Len(t) \in Nat, Len(t) >= Len(s),
           \A i \in 1..Len(t) : IF i <= Len(s) THEN t[i] = s[i] ELSE t[i].type # T
    PROVE  Num(t, T) = Num(s, T)
  <1>1. Places(t, T) = Places(s, T)
    BY DEF Places
  <1>. QED  BY <1>1 DEF Num

-----------------------------------------------------------------------------
(* The bytes of the pushed commands in a stream.                           *)

Bytes(s) == SetSize * Num(s, "SET") + GetAckSize * Num(s, "GETACK")

LEMMA OneMore ==
    ASSUME NEW a \in Nat, NEW n \in Nat
    PROVE  a * (n + 1) = a * n + a /\ a * n \in Nat
  OBVIOUS

LEMMA Products ==
    ASSUME NEW s, Len(s) \in Nat
    PROVE  SetSize * Num(s, "SET") \in Nat /\ GetAckSize * Num(s, "GETACK") \in Nat
  BY NumType, OneMore, ReplicationAssumption

(* One SET, or one GETACK, more makes the sum larger by its size.          *)
LEMMA BytesOfSet ==
    ASSUME NEW s, NEW t, Len(s) \in Nat, Len(t) \in Nat,
           Num(t, "SET") = Num(s, "SET") + 1, Num(t, "GETACK") = Num(s, "GETACK")
    PROVE  Bytes(t) = Bytes(s) + SetSize
  <1>. DEFINE a == SetSize * Num(s, "SET")
              b == GetAckSize * Num(s, "GETACK")
  <1>1. a \in Nat /\ b \in Nat /\ SetSize \in Nat
    BY Products, ReplicationAssumption
  <1>2. SetSize * Num(t, "SET") = a + SetSize
    BY NumType, OneMore, ReplicationAssumption
  <1>3. Bytes(s) = a + b /\ Bytes(t) = (a + SetSize) + b
    BY <1>2 DEF Bytes
  <1>. HIDE DEF a, b
  <1>. QED  BY <1>1, <1>3

LEMMA BytesOfGetAck ==
    ASSUME NEW s, NEW t, Len(s) \in Nat, Len(t) \in Nat,
           Num(t, "SET") = Num(s, "SET"), Num(t, "GETACK") = Num(s, "GETACK") + 1
    PROVE  Bytes(t) = Bytes(s) + GetAckSize
  <1>. DEFINE a == SetSize * Num(s, "SET")
              b == GetAckSize * Num(s, "GETACK")
  <1>1. a \in Nat /\ b \in Nat /\ GetAckSize \in Nat
    BY Products, ReplicationAssumption
  <1>2. GetAckSize * Num(t, "GETACK") = b + GetAckSize
    BY NumType, OneMore, ReplicationAssumption
  <1>3. Bytes(s) = a + b /\ Bytes(t) = a + (b + GetAckSize)
    BY <1>2 DEF Bytes
  <1>. HIDE DEF a, b
  <1>. QED  BY <1>1, <1>3

LEMMA BytesType == ASSUME NEW s, Len(s) \in Nat PROVE Bytes(s) \in Nat
  <1>. DEFINE a == SetSize * Num(s, "SET")
              b == GetAckSize * Num(s, "GETACK")
  <1>1. a \in Nat /\ b \in Nat /\ Bytes(s) = a + b
    BY Products DEF Bytes
  <1>. HIDE DEF a, b
  <1>. QED  BY <1>1

LEMMA BytesGrown ==
    ASSUME NEW s, NEW t, NEW m, Len(s) \in Nat, Grown(s, t, m), m.type \in Pushed
    PROVE  Bytes(t) = Bytes(s) + Size(m) /\ Bytes(s) \in Nat
  <1>1. Len(t) \in Nat
    BY DEF Grown
  <1>2. CASE m.type = "SET"
    <2>1. Num(t, "SET") = Num(s, "SET") + 1 /\ Num(t, "GETACK") = Num(s, "GETACK")
      BY <1>2, NumGrown
    <2>. QED  BY <1>1, <1>2, <2>1, BytesOfSet, BytesType DEF Size
  <1>3. CASE m.type = "GETACK"
    <2>1. Num(t, "SET") = Num(s, "SET") /\ Num(t, "GETACK") = Num(s, "GETACK") + 1
      BY <1>3, NumGrown
    <2>. QED  BY <1>1, <1>3, <2>1, BytesOfGetAck, BytesType DEF Size
  <1>. QED  BY <1>2, <1>3 DEF Pushed

LEMMA BytesShrunk ==
    ASSUME NEW s, NEW t, Len(s) \in Nat, Shrunk(s, t)
    PROVE  /\ Bytes(s) = IF s[1].type \in Pushed THEN Bytes(t) + Size(s[1]) ELSE Bytes(t)
           /\ Bytes(t) \in Nat
  <1>1. Len(t) \in Nat /\ Bytes(t) \in Nat
    BY BytesType DEF Shrunk
  <1>2. CASE s[1].type = "SET"
    <2>1. Num(s, "SET") = Num(t, "SET") + 1 /\ Num(s, "GETACK") = Num(t, "GETACK")
      BY <1>2, NumShrunk
    <2>. QED  BY <1>1, <1>2, <2>1, BytesOfSet DEF Size, Pushed
  <1>3. CASE s[1].type = "GETACK"
    <2>1. Num(s, "SET") = Num(t, "SET") /\ Num(s, "GETACK") = Num(t, "GETACK") + 1
      BY <1>3, NumShrunk
    <2>. QED  BY <1>1, <1>3, <2>1, BytesOfGetAck DEF Size, Pushed
  <1>4. CASE s[1].type \notin Pushed
    <2>1. Num(s, "SET") = Num(t, "SET") /\ Num(s, "GETACK") = Num(t, "GETACK")
      BY <1>4, NumShrunk DEF Pushed
    <2>. QED  BY <1>1, <1>4, <2>1 DEF Bytes
  <1>. QED  BY <1>2, <1>3, <1>4 DEF Pushed

LEMMA BytesSame ==
    ASSUME NEW s, NEW t, Len(s) \in Nat, Len(t) \in Nat, Len(t) >= Len(s),
           \A i \in 1..Len(t) : IF i <= Len(s) THEN t[i] = s[i] ELSE t[i].type \notin Pushed
    PROVE  Bytes(t) = Bytes(s)
  BY NumSame DEF Bytes, Pushed

LEMMA BytesEmpty ==
    ASSUME NEW s, Len(s) = 0
    PROVE  Bytes(s) = 0
  <1>1. \A T : Places(s, T) = {}
    BY DEF Places
  <1>2. Num(s, "SET") = 0 /\ Num(s, "GETACK") = 0
    BY <1>1, FS_EmptySet DEF Num
  <1>. QED  BY <1>2, ReplicationAssumption DEF Bytes

-----------------------------------------------------------------------------
(* Only SET and WAIT push, and both count what they push.                  *)

NotPushed(q) ==
    /\ pushed'[q] = pushed[q]
    /\ \A i \in 1..Len(toReplica'[q]) :
         i > Len(toReplica[q]) => toReplica'[q][i].type \notin Pushed

LEMMA OtherSteps ==
    ASSUME TypeOK, HandshakeInv, NEW q \in Replica,
           \/ \E c \in Client : ClientCloses(c)
           \/ \E w \in WaitId : WaitTimeout(w)
           \/ \E r \in Replica : ReplicaStep(r)
           \/ UNCHANGED vars
    PROVE  NotPushed(q)
  <1>0. Len(toReplica[q]) \in Nat
    BY LenType
  <1>p. UNCHANGED pushed
    BY DEF ClientCloses, WaitTimeout, ReplicaStep, MasterPing, MasterReplConf,
           MasterPsync, MasterAck, MasterCloses, MasterWritesToDead, ReplicaJams,
           ReplicaConnects, ReplicaHandshake, ReplicaProcess, ReplicaDies,
           masterVars, vars
  <1>1. ASSUME NEW r \in Replica, MasterPing(r) \/ MasterReplConf(r) \/ MasterPsync(r)
        PROVE  NotPushed(q)
    <2>1. PICK ms \in Seq(ToReplicaMsg) : Answers(ms) /\ Tell(r, ms)
      BY <1>1, MasterAnswers
    <2>2. CASE q # r
      BY <1>0, <1>p, <2>1, <2>2, TellStream DEF NotPushed
    <2>3. CASE q = r
      <3>1. /\ Len(ms) \in Nat /\ Len(toReplica'[q]) = Len(toReplica[q]) + Len(ms)
            /\ \A j \in 1..Len(ms) : toReplica'[q][Len(toReplica[q]) + j] = ms[j]
        BY <2>1, <2>3, TellStream, LenProperties
      <3>2. ASSUME NEW i \in 1..Len(toReplica'[q]), i > Len(toReplica[q])
            PROVE  toReplica'[q][i].type \notin Pushed
        <4>. DEFINE j == i - Len(toReplica[q])
        <4>1. j \in 1..Len(ms) /\ Len(toReplica[q]) + j = i
          BY <1>0, <3>1, <3>2
        <4>. QED  BY <2>1, <3>1, <4>1 DEF Answers
      <3>. QED  BY <1>p, <3>2 DEF NotPushed
    <2>. QED  BY <2>2, <2>3
  <1>2. CASE Len(toReplica'[q]) \in Nat /\ Len(toReplica'[q]) <= Len(toReplica[q])
    BY <1>0, <1>p, <1>2 DEF NotPushed
  <1>3. ASSUME NEW r \in Replica, ReplicaHandshake(r) \/ ReplicaProcess(r)
        PROVE  Len(toReplica'[q]) \in Nat /\ Len(toReplica'[q]) <= Len(toReplica[q])
    <2>1. ReplicaReads(r) /\ ReplicaRead(r)
      BY <1>3 DEF ReplicaHandshake, ReplicaProcess
    <2>. QED  BY <1>0, <2>1, ReadStream DEF Shrinks, Shrunk
  <1>4. ASSUME NEW r \in Replica, MasterCloses(r) \/ ReplicaDies(r)
        PROVE  Len(toReplica'[q]) \in Nat /\ Len(toReplica'[q]) <= Len(toReplica[q])
    <2>1. toReplica' = [toReplica EXCEPT ![r] = <<>>]
      BY <1>4 DEF MasterCloses, ReplicaDies
    <2>. QED  BY <1>0, <2>1, EmptySeq DEF TypeOK
  <1>5. ASSUME \/ \E c \in Client : ClientCloses(c)
               \/ \E w \in WaitId : WaitTimeout(w)
               \/ \E r \in Replica : \/ MasterAck(r) \/ MasterWritesToDead(r) \/ ReplicaJams(r)
                                     \/ ReplicaConnects(r)
               \/ UNCHANGED vars
        PROVE  Len(toReplica'[q]) \in Nat /\ Len(toReplica'[q]) <= Len(toReplica[q])
    <2>1. UNCHANGED toReplica
      BY <1>5 DEF ClientCloses, WaitTimeout, MasterAck, MasterWritesToDead, ReplicaJams,
                  ReplicaConnects, vars
    <2>. QED  BY <1>0, <2>1
  <1>. QED  BY <1>1, <1>2, <1>3, <1>4, <1>5 DEF ReplicaStep

(* What is pushed to an open connection is counted in full.                *)
Gap(r) == conn[r] = "open" => pushed[r] = bytesIn[r] + Bytes(toReplica[r])

LEMMA GapStep ==
    ASSUME TypeOK, TypeOK', HandshakeInv, StreamInv, [Next]_vars, NEW q \in Replica, Gap(q)
    PROVE  Gap(q)'
  <1>0. /\ Len(toReplica[q]) \in Nat /\ bytesIn[q] \in Nat /\ pushed[q] \in Nat
        /\ Len(toReplica'[q]) \in Nat
    <2>1. toReplica'[q] \in Seq(ToReplicaMsg)
      BY DEF TypeOK
    <2>. QED  BY <2>1, LenType, LenProperties DEF TypeOK
  <1>1. ASSUME NEW m, m.type \in Pushed, pushed'[q] = pushed[q] + Size(m), Grows(q, m),
               UNCHANGED <<bytesIn, conn>>
        PROVE  Gap(q)'
    <2>1. Bytes(toReplica'[q]) = Bytes(toReplica[q]) + Size(m) /\ Bytes(toReplica[q]) \in Nat
      BY <1>0, <1>1, BytesGrown DEF Grows
    <2>. QED  BY <1>0, <1>1, <2>1, SizeType DEF Gap
  <1>2. ASSUME NEW c \in Client, NEW k \in Key, NEW h \in Hole, Set(c, k, h)
        PROVE  Gap(q)'
    <2>1. UNCHANGED <<bytesIn, conn>>
      BY <1>2 DEF Set, replicaVars
    <2>2. CASE reg[q] = "WRITE"
      <3>. DEFINE m == SetMsg(k, nsets + 1, pushed[q] + SetSize)
      <3>1. m.type \in Pushed /\ Size(m) = SetSize
        BY DEF SetMsg, Pushed, Size
      <3>2. pushed'[q] = pushed[q] + SetSize /\ Grows(q, m)
        BY <1>2, <2>2, SetStream
      <3>. HIDE DEF m
      <3>. QED  BY <1>1, <2>1, <3>1, <3>2
    <2>3. CASE reg[q] # "WRITE"
      BY <1>2, <2>1, <2>3, SetStream DEF Gap
    <2>. QED  BY <2>2, <2>3
  <1>3. ASSUME NEW c \in Client, NEW count \in Count, NEW w \in WaitId, Wait(c, count, w)
        PROVE  Gap(q)'
    <2>1. UNCHANGED <<bytesIn, conn>>
      BY <1>3 DEF Wait, replicaVars
    <2>. DEFINE m == GetAckMsg(pushed[q] + GetAckSize)
    <2>2. m.type \in Pushed /\ Size(m) = GetAckSize
      BY DEF GetAckMsg, Pushed, Size
    <2>3. \/ pushed'[q] = pushed[q] + GetAckSize /\ Grows(q, m)
          \/ pushed'[q] = pushed[q] /\ toReplica'[q] = toReplica[q]
      BY <1>3, WaitStream
    <2>. HIDE DEF m
    <2>4. CASE pushed'[q] = pushed[q] /\ toReplica'[q] = toReplica[q]
      BY <2>1, <2>4 DEF Gap
    <2>. QED  BY <1>1, <2>1, <2>2, <2>3, <2>4
  <1>4. ASSUME NotPushed(q)
        PROVE  Gap(q)'
    <2>0. pushed'[q] = pushed[q]
      BY <1>4 DEF NotPushed
    <2>1. CASE conn'[q] = conn[q] /\ Still(q) /\ toReplica'[q] = toReplica[q]
      BY <2>0, <2>1 DEF Gap, Still
    <2>2. CASE conn'[q] = conn[q] /\ Push(q)
      <3>1. PICK m : m.type \in Pushed /\ Grown(toReplica[q], toReplica'[q], m)
        BY <2>2 DEF Push, Grows
      <3>2. /\ Len(toReplica[q]) + 1 \in 1..Len(toReplica'[q])
            /\ toReplica'[q][Len(toReplica[q]) + 1] = m
            /\ Len(toReplica[q]) + 1 > Len(toReplica[q])
        BY <1>0, <3>1 DEF Grown
      <3>. QED  BY <1>4, <3>1, <3>2 DEF NotPushed
    <2>3. CASE conn'[q] = conn[q] /\ Answer(q)
      <3>1. Bytes(toReplica'[q]) = Bytes(toReplica[q])
        BY <1>0, <2>3, BytesSame DEF Answer
      <3>. QED  BY <2>0, <2>3, <3>1 DEF Gap, Answer, Still
    <2>4. CASE conn[q] = "open" /\ Take(q)
      <3>1. Bytes(toReplica'[q]) = Bytes(toReplica[q])
        BY <1>0, <2>4, BytesShrunk DEF Take, Shrinks
      <3>. QED  BY <2>0, <2>4, <3>1 DEF Gap, Take, Still
    <2>5. CASE conn[q] = "open" /\ Process(q)
      <3>1. /\ Bytes(toReplica[q]) = Bytes(toReplica'[q]) + Size(toReplica[q][1])
            /\ Bytes(toReplica'[q]) \in Nat
        BY <1>0, <2>5, BytesShrunk DEF Process, Shrinks
      <3>2. bytesIn'[q] = bytesIn[q] + Size(toReplica[q][1])
        BY <2>5 DEF Process
      <3>3. pushed[q] = bytesIn[q] + Bytes(toReplica[q])
        BY <2>5 DEF Gap
      <3>4. pushed[q] = bytesIn'[q] + Bytes(toReplica'[q])
        BY <1>0, <3>1, <3>2, <3>3, SizeType
      <3>. QED  BY <2>0, <3>4 DEF Gap
    <2>6. CASE conn[q] = "off" /\ Still(q) /\ toReplica'[q] = <<>>
      <3>1. pushed[q] = 0 /\ bytesIn[q] <= pushed[q]
        BY <2>6 DEF HandshakeInv, StreamInv
      <3>2. bytesIn'[q] = 0
        BY <1>0, <2>6, <3>1 DEF Still
      <3>3. Bytes(toReplica'[q]) = 0
        BY <2>6, EmptySeq, BytesEmpty
      <3>. QED  BY <2>0, <3>1, <3>2, <3>3 DEF Gap
    <2>7. CASE conn'[q] \in {"dead", "closed"}
      BY <2>7 DEF Gap
    <2>. QED  BY <2>1, <2>2, <2>3, <2>4, <2>5, <2>6, <2>7, EveryStep DEF Kinds
  <1>5. \/ \E c \in Client, k \in Key, h \in Hole : Set(c, k, h)
        \/ \E c \in Client, count \in Count, w \in WaitId : Wait(c, count, w)
        \/ /\ \/ \E c \in Client : ClientCloses(c)
              \/ \E w \in WaitId : WaitTimeout(w)
              \/ \E r \in Replica : ReplicaStep(r)
              \/ UNCHANGED vars
    BY Zenon DEF Next
  <1>. QED  BY <1>2, <1>3, <1>4, <1>5, OtherSteps

(* The offsets of a connection agree at both ends: what the master counts  *)
(* when StorageMiddleware::push sends a command, and what ReplicaTalker    *)
(* counts when it has processed one, differ by exactly the commands that   *)
(* are under way, for any sizes and in any order of SETs and GETACKs.      *)
THEOREM OffsetsCorrect == Spec => []OffsetsAgree
  <1>1. Init => \A r \in Replica : Gap(r)
    BY DEF Init, Gap
  <1>2. TypeOK /\ TypeOK' /\ Inv /\ (\A r \in Replica : Gap(r)) /\ [Next]_vars
        => (\A r \in Replica : Gap(r))'
    BY GapStep DEF Inv
  <1>3. TypeOK /\ (\A r \in Replica : Gap(r)) => OffsetsAgree
    <2>. SUFFICES ASSUME TypeOK, NEW r \in Replica, Gap(r), conn[r] = "open"
                  PROVE  pushed[r] = bytesIn[r]
                                       + SetSize * Cardinality(InFlight(r, "SET"))
                                       + GetAckSize * Cardinality(InFlight(r, "GETACK"))
      BY DEF OffsetsAgree
    <2>1. /\ InFlight(r, "SET") = Places(toReplica[r], "SET")
          /\ InFlight(r, "GETACK") = Places(toReplica[r], "GETACK")
      BY DEF InFlight, Places
    <2>. DEFINE a == SetSize * Num(toReplica[r], "SET")
                b == GetAckSize * Num(toReplica[r], "GETACK")
    <2>2. a \in Nat /\ b \in Nat /\ bytesIn[r] \in Nat
      BY LenType, Products DEF TypeOK
    <2>3. pushed[r] = bytesIn[r] + (a + b)
      BY DEF Gap, Bytes
    <2>4. /\ SetSize * Cardinality(InFlight(r, "SET")) = a
          /\ GetAckSize * Cardinality(InFlight(r, "GETACK")) = b
      BY <2>1 DEF Num
    <2>. HIDE DEF a, b
    <2>. QED  BY <2>2, <2>3, <2>4
  <1>. QED  BY <1>1, <1>2, <1>3, InvCorrect, PTL DEF Spec

-----------------------------------------------------------------------------
(* A replica has, or is about to have, nothing but what it was pushed.     *)

(* The SETs of k in the stream s are no newer than write n.                *)
UpTo(s, k, n) == \A i \in 1..Len(s) : s[i].type = "SET" /\ s[i].key = k => s[i].write <= n

WriteInv ==
    \A r \in Replica :
        /\ joined[r] <= nsets
        /\ \A k \in Key :
             /\ conn[r] \in {"off", "open"} => rstore[r][k] <= PushedWrite(r, k)
             /\ conn[r] = "open" => UpTo(toReplica[r], k, PushedWrite(r, k))

LEMMA UpToGrown ==
    ASSUME NEW s, NEW t, NEW m, NEW k, NEW n, Len(s) \in Nat, Grown(s, t, m), UpTo(s, k, n),
           m.type = "SET" /\ m.key = k => m.write <= n
    PROVE  UpTo(t, k, n)
  <1>1. /\ Len(t) = Len(s) + 1 /\ t[Len(s) + 1] = m
        /\ \A i \in 1..Len(s) : t[i] = s[i]
    BY DEF Grown
  <1>2. \A i \in 1..Len(t) : i \in 1..Len(s) \/ i = Len(s) + 1
    BY <1>1
  <1>. QED  BY <1>1, <1>2 DEF UpTo

LEMMA UpToShrunk ==
    ASSUME NEW s, NEW t, NEW k, NEW n, Len(s) \in Nat, Shrunk(s, t), UpTo(s, k, n)
    PROVE  UpTo(t, k, n) /\ (s[1].type = "SET" /\ s[1].key = k => s[1].write <= n)
  <1>1. 1 \in 1..Len(s) /\ \A i \in 1..Len(t) : i + 1 \in 1..Len(s) /\ t[i] = s[i + 1]
    BY DEF Shrunk
  <1>. QED  BY <1>1 DEF UpTo

LEMMA UpToMore ==
    ASSUME NEW s, NEW k, NEW n \in Nat, NEW m \in Nat, n <= m, Typed(s), UpTo(s, k, n)
    PROVE  UpTo(s, k, m)
  BY DEF UpTo, Typed

(* While a connection stays, the last write pushed to it only gets newer:  *)
(* a second PSYNC, which would start it anew, is never sent.               *)
LEMMA PushedWriteGrows ==
    ASSUME TypeOK, HandshakeInv, OrderInv, [Next]_vars, NEW q \in Replica, NEW k \in Key,
           conn'[q] \in {"off", "open"}
    PROVE  PushedWrite(q, k)' >= PushedWrite(q, k)
  <1>0. PushedWrite(q, k) \in Nat /\ store[k] \in Nat /\ nsets \in Nat /\ store[k] <= nsets
    BY PushedWriteType DEF TypeOK, OrderInv
  <1>1. CASE reg[q] # "WRITE"
    <2>1. PushedWrite(q, k) = 0
      BY <1>1 DEF PushedWrite
    <2>2. PushedWrite(q, k)' = 0 \/ PushedWrite(q, k)' = PushedWrite(q, k)
      BY <1>1, PushedWriteStep
    <2>. QED  BY <2>1, <2>2
  <1>2. ASSUME reg[q] = "WRITE", conn[q] = "open",
               \A r \in Replica : ~ (r = q /\ MasterPsync(r)) /\ ~ (r = q /\ MasterCloses(r))
        PROVE  reg'[q] = "WRITE" /\ joined'[q] = joined[q]
    <2>1. ASSUME NEW r \in Replica, MasterPsync(r)
          PROVE  reg'[q] = "WRITE" /\ joined'[q] = joined[q]
      BY <1>2, <2>1 DEF MasterPsync, TypeOK
    <2>2. ASSUME NEW r \in Replica, MasterCloses(r)
          PROVE  reg'[q] = "WRITE" /\ joined'[q] = joined[q]
      BY <1>2, <2>2 DEF MasterCloses, TypeOK
    <2>3. ASSUME NEW r \in Replica, MasterReplConf(r) \/ MasterAck(r)
          PROVE  reg'[q] = "WRITE" /\ joined'[q] = joined[q]
      BY <1>2, <2>3 DEF MasterReplConf, MasterAck, AddReplica, TypeOK
    <2>4. ASSUME \/ \E c \in Client, l \in Key, h \in Hole : Set(c, l, h)
                 \/ \E c \in Client, count \in Count, w \in WaitId : Wait(c, count, w)
                 \/ \E c \in Client : ClientCloses(c)
                 \/ \E w \in WaitId : WaitTimeout(w)
                 \/ \E r \in Replica : \/ MasterPing(r) \/ MasterWritesToDead(r) \/ ReplicaJams(r)
                                       \/ ReplicaConnects(r) \/ ReplicaHandshake(r)
                                       \/ ReplicaProcess(r) \/ ReplicaDies(r)
                 \/ UNCHANGED vars
          PROVE  reg'[q] = "WRITE" /\ joined'[q] = joined[q]
      <3>1. UNCHANGED <<reg, joined>>
        BY <2>4 DEF Set, Wait, ClientCloses, WaitTimeout, MasterPing, MasterWritesToDead, ReplicaJams,
                    ReplicaConnects, ReplicaHandshake, ReplicaProcess, ReplicaDies,
                    masterVars, vars
      <3>. QED  BY <1>2, <3>1
    <2>. QED  BY <2>1, <2>2, <2>3, <2>4 DEF Next, ReplicaStep
  <1>3. CASE reg[q] = "WRITE"
    <2>1. conn[q] = "open"
      <3>1. conn[q] # "off"
        BY <1>3 DEF HandshakeInv
      <3>. QED  BY <3>1, EveryStep DEF Kinds
    <2>2. Stage(q) /\ rstate[q] \in RState
      BY <2>1 DEF HandshakeInv, TypeOK
    <2>3. ~ MasterPsync(q)
      <3>. SUFFICES ASSUME MasterPsync(q) PROVE FALSE
        OBVIOUS
      <3>1. /\ Shrunk(toMaster[q], toMaster'[q]) /\ toMaster[q][1].type = "PSYNC"
            /\ Len(toMaster[q]) \in Nat
        BY ReadMaster, LenType DEF MasterPsync
      <3>2. 1 \in 1..Len(toMaster[q])
        BY <3>1 DEF Shrunk
      <3>. QED  BY <1>3, <2>2, <3>1, <3>2 DEF Stage, Exchange, Only, AllAcks, RState
    <2>4. ~ MasterCloses(q)
      BY <2>1 DEF MasterCloses
    <2>5. reg'[q] = "WRITE" /\ joined'[q] = joined[q]
      BY <1>2, <1>3, <2>1, <2>3, <2>4
    <2>6. store'[k] \in Nat /\ store'[k] >= store[k]
      <3>1. store \in [Key -> Nat]
        BY DEF TypeOK
      <3>2. ASSUME NEW l \in Key, store' = [store EXCEPT ![l] = nsets + 1]
            PROVE  store'[k] \in Nat /\ store'[k] >= store[k]
        BY <1>0, <3>1, <3>2
      <3>. QED  BY <1>0, <3>2, StoreStep
    <2>7. joined[q] \in Nat
      BY DEF TypeOK
    <2>. QED  BY <1>0, <1>3, <2>5, <2>6, <2>7 DEF PushedWrite
  <1>. QED  BY <1>1, <1>3

LEMMA WriteStep ==
    ASSUME TypeOK, TypeOK', HandshakeInv, OrderInv, WriteInv, [Next]_vars
    PROVE  WriteInv'
  <1>1. ASSUME NEW q \in Replica PROVE joined'[q] <= nsets'
    <2>0. joined[q] \in Nat /\ nsets \in Nat /\ joined[q] <= nsets
      BY DEF TypeOK, WriteInv
    <2>1. joined'[q] = joined[q] \/ (joined'[q] = nsets /\ nsets' = nsets)
      <3>1. ASSUME NEW r \in Replica, MasterPsync(r)
            PROVE  joined'[q] = joined[q] \/ (joined'[q] = nsets /\ nsets' = nsets)
        BY <3>1 DEF MasterPsync, TypeOK
      <3>2. ASSUME \/ \E c \in Client, l \in Key, h \in Hole : Set(c, l, h)
                   \/ \E c \in Client, count \in Count, w \in WaitId : Wait(c, count, w)
                   \/ \E c \in Client : ClientCloses(c)
                   \/ \E w \in WaitId : WaitTimeout(w)
                   \/ \E r \in Replica : \/ MasterPing(r) \/ MasterWritesToDead(r) \/ ReplicaJams(r)
                                         \/ MasterReplConf(r) \/ MasterAck(r)
                                         \/ MasterCloses(r) \/ ReplicaConnects(r)
                                         \/ ReplicaHandshake(r) \/ ReplicaProcess(r)
                                         \/ ReplicaDies(r)
                   \/ UNCHANGED vars
            PROVE  UNCHANGED joined
        BY <3>2 DEF Set, Wait, ClientCloses, WaitTimeout, MasterPing, MasterWritesToDead, ReplicaJams,
                    MasterReplConf, MasterAck, MasterCloses, ReplicaConnects,
                    ReplicaHandshake, ReplicaProcess, ReplicaDies, masterVars, vars
      <3>. QED  BY <3>1, <3>2 DEF Next, ReplicaStep
    <2>. QED  BY <2>0, <2>1, SetsGrow
  <1>2. ASSUME NEW q \in Replica, NEW k \in Key
        PROVE  /\ conn'[q] \in {"off", "open"} => rstore'[q][k] <= PushedWrite(q, k)'
               /\ conn'[q] = "open" => UpTo(toReplica'[q], k, PushedWrite(q, k)')
    <2>. SUFFICES ASSUME conn'[q] \in {"off", "open"}
                  PROVE  /\ rstore'[q][k] <= PushedWrite(q, k)'
                         /\ conn'[q] = "open" => UpTo(toReplica'[q], k, PushedWrite(q, k)')
      OBVIOUS
    <2>. DEFINE n == PushedWrite(q, k)
                m == PushedWrite(q, k)'
    <2>1. m >= n
      BY PushedWriteGrows
    <2>2. n \in Nat /\ m \in Nat
      <3>1. store'[k] \in Nat
        BY DEF TypeOK
      <3>. QED  BY <3>1, PushedWriteType DEF PushedWrite
    <2>3. /\ rstore[q][k] \in Nat /\ rstore'[q][k] \in Nat
          /\ rstore[q] \in [Key -> Nat] /\ rstore'[q] \in [Key -> Nat]
          /\ Len(toReplica[q]) \in Nat /\ Typed(toReplica[q])
          /\ Typed(toReplica'[q])
      <3>1. rstore[q] \in [Key -> Nat] /\ rstore'[q] \in [Key -> Nat]
        BY DEF TypeOK
      <3>2. Len(toReplica'[q]) \in Nat
            /\ \A i \in 1..Len(toReplica'[q]) : toReplica'[q][i] \in ToReplicaMsg
        BY LenProperties, ElementOfSeq DEF TypeOK
      <3>3. Typed(toReplica'[q])
        BY <3>2 DEF Typed, ToReplicaMsg, Pushed
      <3>. QED  BY <3>1, <3>3, TypedStream, LenType
    <2>4. /\ conn[q] \in {"off", "open"} => rstore[q][k] <= n
          /\ conn[q] = "open" => UpTo(toReplica[q], k, n)
      BY DEF WriteInv
    <2>. HIDE DEF n
    <2>5. ASSUME NEW c \in Client, NEW l \in Key, NEW h \in Hole, Set(c, l, h)
          PROVE  rstore'[q][k] <= m /\ (conn'[q] = "open" => UpTo(toReplica'[q], k, m))
      <3>1. UNCHANGED <<conn, reg, joined, rstore>> /\ store' = [store EXCEPT ![l] = nsets + 1]
        BY <2>5 DEF Set, replicaVars
      <3>2. rstore'[q][k] <= m
        BY <2>1, <2>2, <2>3, <2>4, <3>1
      <3>3. CASE reg[q] = "WRITE"
        <4>. DEFINE x == SetMsg(l, nsets + 1, pushed[q] + SetSize)
        <4>1. Grown(toReplica[q], toReplica'[q], x) /\ x.key = l /\ x.write = nsets + 1
          BY <2>5, <3>3, SetStream DEF Grows, SetMsg
        <4>. HIDE DEF x
        <4>2. l = k => m = nsets + 1
          BY <3>1, <3>3 DEF PushedWrite, WriteInv, TypeOK
        <4>3. conn[q] = "open" => UpTo(toReplica[q], k, m)
          BY <2>1, <2>2, <2>3, <2>4, UpToMore
        <4>4. x.key = k => x.write <= m
          BY <2>2, <4>1, <4>2
        <4>. QED  BY <2>3, <3>1, <3>2, <4>1, <4>3, <4>4, UpToGrown
      <3>4. CASE reg[q] # "WRITE"
        <4>1. toReplica'[q] = toReplica[q]
          BY <2>5, <3>4, SetStream
        <4>. QED  BY <2>1, <2>2, <2>3, <2>4, <3>1, <3>2, <4>1, UpToMore
      <3>. QED  BY <3>3, <3>4
    <2>6. ASSUME ~ \E c \in Client, l \in Key, h \in Hole : Set(c, l, h)
          PROVE  rstore'[q][k] <= m /\ (conn'[q] = "open" => UpTo(toReplica'[q], k, m))
      <3>1. CASE Still(q) /\ toReplica'[q] = toReplica[q] /\ conn'[q] = conn[q]
        BY <2>1, <2>2, <2>3, <2>4, <3>1, UpToMore DEF Still
      <3>2. CASE Push(q) /\ conn'[q] = conn[q]
        <4>1. PICK x \in ToReplicaMsg :
                /\ Grown(toReplica[q], toReplica'[q], x)
                /\ x.type = "SET" => nsets' = nsets + 1
          BY <3>2 DEF Push, Grows
        <4>2. nsets' = nsets
          BY <2>6 DEF Next, ReplicaStep, Wait, ClientCloses, WaitTimeout, MasterPing,
                      MasterReplConf, MasterPsync, MasterAck, MasterCloses,
                      MasterWritesToDead, ReplicaJams, ReplicaConnects, ReplicaHandshake,
                      ReplicaProcess, ReplicaDies, masterVars, vars
        <4>3. x.type # "SET"
          BY <4>1, <4>2 DEF TypeOK
        <4>4. conn[q] = "open" => UpTo(toReplica[q], k, m)
          BY <2>1, <2>2, <2>3, <2>4, UpToMore
        <4>5. conn[q] = "open" => UpTo(toReplica'[q], k, m)
          BY <2>3, <4>1, <4>3, <4>4, UpToGrown
        <4>. QED  BY <2>1, <2>2, <2>3, <2>4, <3>2, <4>5 DEF Push, Still
      <3>3. CASE Answer(q) /\ conn'[q] = conn[q]
        <4>1. conn[q] = "open" => UpTo(toReplica'[q], k, n)
          BY <2>3, <2>4, <3>3 DEF Answer, UpTo, Pushed
        <4>2. conn[q] = "open" => UpTo(toReplica'[q], k, m)
          BY <2>1, <2>2, <2>3, <4>1, UpToMore
        <4>. QED  BY <2>1, <2>2, <2>3, <2>4, <3>3, <4>2 DEF Answer, Still
      <3>4. CASE (Take(q) \/ Process(q)) /\ conn[q] = "open"
        <4>1. Shrunk(toReplica[q], toReplica'[q]) /\ 1 \in 1..Len(toReplica[q])
          BY <2>3, <3>4 DEF Take, Process, Shrinks, Shrunk
        <4>2. /\ UpTo(toReplica'[q], k, n)
              /\ toReplica[q][1].type = "SET" /\ toReplica[q][1].key = k
                   => toReplica[q][1].write <= n
          BY <2>3, <2>4, <3>4, <4>1, UpToShrunk
        <4>3. UpTo(toReplica'[q], k, m)
          BY <2>1, <2>2, <2>3, <4>2, UpToMore
        <4>4. rstore'[q][k] <= n
          BY <2>2, <2>3, <2>4, <3>4, <4>1, <4>2 DEF Take, Process, Still, Typed
        <4>. QED  BY <2>1, <2>2, <2>3, <4>3, <4>4
      <3>5. CASE conn[q] = "off" /\ Still(q) /\ toReplica'[q] = <<>>
        <4>1. UpTo(toReplica'[q], k, m)
          BY <3>5, EmptySeq DEF UpTo
        <4>. QED  BY <2>1, <2>2, <2>3, <2>4, <3>5, <4>1 DEF Still
      <3>. QED  BY <3>1, <3>2, <3>3, <3>4, <3>5, EveryStep DEF Kinds
    <2>. QED  BY <2>5, <2>6
  <1>. QED  BY <1>1, <1>2 DEF WriteInv

LEMMA WriteInit == Init => WriteInv
  BY DEF Init, WriteInv, PushedWrite

(* The last SET of k in the stream, if there is one, carries the last      *)
(* write to k the replica was pushed; if there is none, the replica has it.*)
LEMMA LastWrite ==
    ASSUME TypeOK, StoreInv, OrderInv, WriteInv, NEW r \in Replica, NEW k \in Key,
           conn[r] = "open",
           NEW sets, sets = {i \in InFlight(r, "SET") : toReplica[r][i].key = k}
    PROVE  IF sets = {} THEN rstore[r][k] = PushedWrite(r, k)
           ELSE toReplica[r][CHOOSE i \in sets : \A j \in sets : j <= i].write
                  = PushedWrite(r, k)
  <1>. DEFINE n == PushedWrite(r, k)
              s == toReplica[r]
  <1>1. /\ n \in Nat /\ rstore[r][k] \in Nat /\ rstore[r][k] <= n
        /\ Typed(s) /\ Len(s) \in Nat
    <2>1. rstore[r] \in [Key -> Nat]
      BY DEF TypeOK
    <2>. QED  BY <2>1, PushedWriteType, TypedStream, LenType DEF WriteInv
  <1>2. \A i \in sets : /\ i \in 1..Len(s) /\ s[i].type = "SET" /\ s[i].key = k
                        /\ s[i].write \in Nat /\ s[i].write <= n
                        /\ rstore[r][k] < s[i].write
    BY <1>1 DEF InFlight, WriteInv, UpTo, OrderInv, Ordered, Typed
  <1>3. CASE rstore[r][k] = n
    <2>1. sets = {}
      BY <1>1, <1>2, <1>3
    <2>. QED  BY <1>3, <2>1
  <1>4. CASE rstore[r][k] < n
    <2>1. Carries(s, k, n, pushed[r])
      BY <1>4 DEF StoreInv, Covers
    <2>2. PICK i \in 1..Len(s) : s[i].type = "SET" /\ s[i].key = k /\ s[i].write = n
      BY <2>1 DEF Carries
    <2>3. i \in sets
      BY <2>2 DEF InFlight
    <2>4. ASSUME NEW j \in sets PROVE j <= i
      <3>1. ~ (i < j)
        <4>1. i < j => s[i].write < s[j].write
          BY <1>2, <2>2 DEF OrderInv, Ordered
        <4>. QED  BY <1>1, <1>2, <2>2, <4>1
      <3>. QED  BY <1>2, <3>1
    <2>. DEFINE last == CHOOSE x \in sets : \A j \in sets : j <= x
    <2>5. last \in sets /\ \A j \in sets : j <= last
      BY <2>3, <2>4
    <2>. HIDE DEF last
    <2>6. last = i
      BY <1>2, <2>3, <2>4, <2>5
    <2>. QED  BY <2>2, <2>3, <2>6 DEF last
  <1>. QED  BY <1>1, <1>3, <1>4

(* A connected replica converges: for each key, the last SET under way or, *)
(* when none is, its own store has exactly the last write the master       *)
(* pushed to it.  StoreInv says no write is lost on the way, WriteInv that *)
(* nothing else gets there, OrderInv that the last one wins.               *)
THEOREM ConvergesCorrect == Spec => []ReplicaConverges
  <1>1. TypeOK /\ TypeOK' /\ Inv /\ WriteInv /\ [Next]_vars => WriteInv'
    BY WriteStep DEF Inv
  <1>2. TypeOK /\ Inv /\ WriteInv => ReplicaConverges
    <2>. SUFFICES ASSUME TypeOK, Inv, WriteInv, NEW r \in Replica, NEW k \in Key,
                         conn[r] = "open"
                  PROVE  LET sets == {i \in InFlight(r, "SET") : toReplica[r][i].key = k}
                             final == IF sets = {} THEN rstore[r][k]
                                      ELSE toReplica[r][CHOOSE i \in sets :
                                                          \A j \in sets : j <= i].write
                         IN  final = PushedWrite(r, k)
      BY DEF ReplicaConverges
    <2>. QED  BY LastWrite DEF Inv
  <1>. QED  BY <1>1, <1>2, WriteInit, InvCorrect, PTL DEF Spec

-----------------------------------------------------------------------------
(* The stretches of the pushed commands, which StreamInv keeps apart, have *)
(* no gaps: each begins where the one before it, or the count b, ends, and *)
(* the last reaches the count p.                                           *)
Tight(s, b, p) ==
    /\ \A i \in 1..Len(s) : s[i].type \in Pushed =>
         \/ s[i].end <= b + Size(s[i])
         \/ \E j \in 1..Len(s) : /\ j < i /\ s[j].type \in Pushed
                                 /\ s[i].end <= s[j].end + Size(s[i])
    /\ p <= b \/ \E j \in 1..Len(s) : s[j].type \in Pushed /\ p <= s[j].end

TightAt(r) == conn[r] = "open" => Tight(toReplica[r], bytesIn[r], pushed[r])
TightInv == \A r \in Replica : TightAt(r)

LEMMA TightGrown ==
    ASSUME NEW s, NEW t, NEW m, NEW b \in Nat, NEW p \in Nat, Typed(s), Grown(s, t, m),
           m.type \in Pushed, m.end = p + Size(m), Tight(s, b, p)
    PROVE  Tight(t, b, p + Size(m))
  <1>1. Len(s) \in Nat /\ Len(t) = Len(s) + 1 /\ t[Len(s) + 1] = m /\ Size(m) \in Nat
    BY SizeType DEF Typed, Grown
  <1>2. \A i \in 1..Len(t) : i # Len(s) + 1 => i \in 1..Len(s) /\ t[i] = s[i]
    BY <1>1 DEF Grown
  <1>3. \A j \in 1..Len(s) : j \in 1..Len(t) /\ t[j] = s[j] /\ j < Len(s) + 1
    BY <1>1 DEF Grown
  <1>4. ASSUME NEW i \in 1..Len(t), t[i].type \in Pushed
        PROVE  \/ t[i].end <= b + Size(t[i])
               \/ \E j \in 1..Len(t) : /\ j < i /\ t[j].type \in Pushed
                                       /\ t[i].end <= t[j].end + Size(t[i])
    <2>1. CASE i = Len(s) + 1
      <3>1. t[i] = m /\ m.end = p + Size(m)
        BY <1>1, <2>1
      <3>2. CASE p <= b
        BY <1>1, <3>1, <3>2
      <3>3. ASSUME NEW j \in 1..Len(s), s[j].type \in Pushed, p <= s[j].end
            PROVE  j \in 1..Len(t) /\ j < i /\ t[j].type \in Pushed
                   /\ t[i].end <= t[j].end + Size(t[i])
        <4>1. s[j].end \in Nat
          BY <3>3 DEF Typed
        <4>. QED  BY <1>1, <1>3, <2>1, <3>1, <3>3, <4>1
      <3>. QED  BY <3>2, <3>3 DEF Tight
    <2>2. CASE i # Len(s) + 1
      <3>1. i \in 1..Len(s) /\ t[i] = s[i]
        BY <1>2, <2>2
      <3>. QED  BY <1>3, <1>4, <3>1 DEF Tight
    <2>. QED  BY <2>1, <2>2
  <1>5. /\ Len(s) + 1 \in 1..Len(t) /\ t[Len(s) + 1].type \in Pushed
        /\ p + Size(m) <= t[Len(s) + 1].end
    BY <1>1
  <1>. QED  BY <1>4, <1>5 DEF Tight

LEMMA TightShrunk ==
    ASSUME NEW s, NEW t, NEW b \in Nat, NEW c \in Nat, NEW p \in Nat, Typed(s), Shrunk(s, t),
           \/ c = b /\ s[1].type \notin Pushed
           \/ s[1].type \in Pushed /\ c = b + Size(s[1]),
           Tight(s, b, p)
    PROVE  Tight(t, c, p) /\ (s[1].type \in Pushed => s[1].end <= b + Size(s[1]))
  <1>1. Len(s) \in Nat /\ 1 \in 1..Len(s) /\ Len(t) = Len(s) - 1
    BY DEF Typed, Shrunk
  <1>2. \A i \in 1..Len(t) : i + 1 \in 1..Len(s) /\ t[i] = s[i + 1]
    BY <1>1 DEF Shrunk
  <1>3. \A j \in 1..Len(s) : j # 1 => j - 1 \in 1..Len(t) /\ t[j - 1] = s[j]
    <2>1. \A j \in 1..Len(s) : j # 1 => j - 1 \in 1..Len(t) /\ (j - 1) + 1 = j
      BY <1>1
    <2>. QED  BY <1>2, <2>1
  <1>4. s[1].type \in Pushed => s[1].end <= c /\ s[1].end \in Nat
    <2>1. \A j \in 1..Len(s) : ~ (j < 1)
      BY <1>1
    <2>. QED  BY <1>1, <2>1 DEF Tight, Typed
  <1>5. b <= c
    BY SizeType
  <1>6. ASSUME NEW i \in 1..Len(t), t[i].type \in Pushed
        PROVE  \/ t[i].end <= c + Size(t[i])
               \/ \E j \in 1..Len(t) : /\ j < i /\ t[j].type \in Pushed
                                       /\ t[i].end <= t[j].end + Size(t[i])
    <2>1. i + 1 \in 1..Len(s) /\ t[i] = s[i + 1] /\ t[i].end \in Nat /\ Size(t[i]) \in Nat
      BY <1>2, <1>6, SizeType DEF Typed
    <2>2. CASE s[i + 1].end <= b + Size(s[i + 1])
      BY <1>5, <2>1, <2>2
    <2>3. ASSUME NEW j \in 1..Len(s), j < i + 1, s[j].type \in Pushed,
                 s[i + 1].end <= s[j].end + Size(s[i + 1])
          PROVE  \/ t[i].end <= c + Size(t[i])
                 \/ \E k \in 1..Len(t) : /\ k < i /\ t[k].type \in Pushed
                                         /\ t[i].end <= t[k].end + Size(t[i])
      <3>1. CASE j = 1
        BY <1>4, <2>1, <2>3, <3>1
      <3>2. CASE j # 1
        <4>1. j - 1 \in 1..Len(t) /\ t[j - 1] = s[j] /\ j - 1 < i
          BY <1>3, <2>3, <3>2
        <4>. QED  BY <2>1, <2>3, <4>1
      <3>. QED  BY <3>1, <3>2
    <2>. QED  BY <1>6, <2>1, <2>2, <2>3 DEF Tight
  <1>7. p <= c \/ \E j \in 1..Len(t) : t[j].type \in Pushed /\ p <= t[j].end
    <2>1. CASE p <= b
      BY <1>5, <2>1
    <2>2. ASSUME NEW j \in 1..Len(s), s[j].type \in Pushed, p <= s[j].end
          PROVE  p <= c \/ \E k \in 1..Len(t) : t[k].type \in Pushed /\ p <= t[k].end
      BY <1>3, <1>4, <2>2
    <2>. QED  BY <2>1, <2>2 DEF Tight
  <1>8. s[1].type \in Pushed => s[1].end <= b + Size(s[1])
    BY <1>4
  <1>. QED  BY <1>6, <1>7, <1>8 DEF Tight

LEMMA TightAnswered ==
    ASSUME NEW s, NEW t, NEW b, NEW p, Len(s) \in Nat, Len(t) \in Nat, Len(t) >= Len(s),
           \A i \in 1..Len(t) : IF i <= Len(s) THEN t[i] = s[i] ELSE t[i].type \notin Pushed,
           Tight(s, b, p)
    PROVE  Tight(t, b, p)
  <1>1. \A i \in 1..Len(t) : t[i].type \in Pushed => i \in 1..Len(s) /\ t[i] = s[i]
    OBVIOUS
  <1>2. \A j \in 1..Len(s) : j \in 1..Len(t) /\ t[j] = s[j]
    OBVIOUS
  <1>. QED  BY <1>1, <1>2 DEF Tight

LEMMA TightStep ==
    ASSUME TypeOK, TypeOK', HandshakeInv, StreamInv, [Next]_vars, NEW q \in Replica,
           TightAt(q)
    PROVE  TightAt(q)'
  <1>0. /\ Len(toReplica[q]) \in Nat /\ bytesIn[q] \in Nat /\ pushed[q] \in Nat
        /\ bytesIn'[q] \in Nat /\ Typed(toReplica[q])
    BY LenType, TypedStream DEF TypeOK
  <1>1. ASSUME NEW m, m.type \in Pushed, pushed'[q] = pushed[q] + Size(m), Grows(q, m),
               m.end = pushed[q] + Size(m), UNCHANGED <<bytesIn, conn>>
        PROVE  TightAt(q)'
    BY <1>0, <1>1, TightGrown DEF TightAt, Grows
  <1>2. ASSUME NEW c \in Client, NEW k \in Key, NEW h \in Hole, Set(c, k, h)
        PROVE  TightAt(q)'
    <2>1. UNCHANGED <<bytesIn, conn>>
      BY <1>2 DEF Set, replicaVars
    <2>2. CASE reg[q] = "WRITE"
      <3>. DEFINE m == SetMsg(k, nsets + 1, pushed[q] + SetSize)
      <3>1. m.type \in Pushed /\ Size(m) = SetSize /\ m.end = pushed[q] + SetSize
        BY DEF SetMsg, Pushed, Size
      <3>2. pushed'[q] = pushed[q] + SetSize /\ Grows(q, m)
        BY <1>2, <2>2, SetStream
      <3>. HIDE DEF m
      <3>. QED  BY <1>1, <2>1, <3>1, <3>2
    <2>3. CASE reg[q] # "WRITE"
      BY <1>2, <2>1, <2>3, SetStream DEF TightAt
    <2>. QED  BY <2>2, <2>3
  <1>3. ASSUME NEW c \in Client, NEW count \in Count, NEW w \in WaitId, Wait(c, count, w)
        PROVE  TightAt(q)'
    <2>1. UNCHANGED <<bytesIn, conn>>
      BY <1>3 DEF Wait, replicaVars
    <2>. DEFINE m == GetAckMsg(pushed[q] + GetAckSize)
    <2>2. m.type \in Pushed /\ Size(m) = GetAckSize /\ m.end = pushed[q] + GetAckSize
      BY DEF GetAckMsg, Pushed, Size
    <2>3. \/ pushed'[q] = pushed[q] + GetAckSize /\ Grows(q, m)
          \/ pushed'[q] = pushed[q] /\ toReplica'[q] = toReplica[q]
      BY <1>3, WaitStream
    <2>. HIDE DEF m
    <2>4. CASE pushed'[q] = pushed[q] /\ toReplica'[q] = toReplica[q]
      BY <2>1, <2>4 DEF TightAt
    <2>. QED  BY <1>1, <2>1, <2>2, <2>3, <2>4
  <1>4. ASSUME NotPushed(q)
        PROVE  TightAt(q)'
    <2>0. pushed'[q] = pushed[q] /\ Len(toReplica'[q]) \in Nat
      <3>1. toReplica'[q] \in Seq(ToReplicaMsg)
        BY DEF TypeOK
      <3>. QED  BY <1>4, <3>1, LenProperties DEF NotPushed
    <2>1. CASE conn'[q] = conn[q] /\ Still(q) /\ toReplica'[q] = toReplica[q]
      BY <2>0, <2>1 DEF TightAt, Still
    <2>2. CASE conn'[q] = conn[q] /\ Push(q)
      <3>1. PICK m : m.type \in Pushed /\ Grown(toReplica[q], toReplica'[q], m)
        BY <2>2 DEF Push, Grows
      <3>2. /\ Len(toReplica[q]) + 1 \in 1..Len(toReplica'[q])
            /\ toReplica'[q][Len(toReplica[q]) + 1] = m
            /\ Len(toReplica[q]) + 1 > Len(toReplica[q])
        BY <1>0, <3>1 DEF Grown
      <3>. QED  BY <1>4, <3>1, <3>2 DEF NotPushed
    <2>3. CASE conn'[q] = conn[q] /\ Answer(q)
      BY <1>0, <2>0, <2>3, TightAnswered DEF Answer, Still, TightAt
    <2>4. CASE conn[q] = "open" /\ (Take(q) \/ Process(q))
      <3>1. /\ Shrunk(toReplica[q], toReplica'[q])
            /\ \/ bytesIn'[q] = bytesIn[q] /\ toReplica[q][1].type \notin Pushed
               \/ /\ toReplica[q][1].type \in Pushed
                  /\ bytesIn'[q] = bytesIn[q] + Size(toReplica[q][1])
        BY <2>4 DEF Take, Process, Still, Shrinks
      <3>. QED  BY <1>0, <2>0, <2>4, <3>1, TightShrunk DEF TightAt
    <2>5. CASE conn[q] = "off" /\ Still(q) /\ toReplica'[q] = <<>>
      <3>1. pushed[q] = 0 /\ Len(toReplica'[q]) = 0
        BY <2>5, EmptySeq DEF HandshakeInv
      <3>. QED  BY <1>0, <2>0, <2>5, <3>1 DEF TightAt, Tight, Still
    <2>6. CASE conn'[q] \in {"dead", "closed"}
      BY <2>6 DEF TightAt
    <2>. QED  BY <2>1, <2>2, <2>3, <2>4, <2>5, <2>6, EveryStep DEF Kinds
  <1>5. \/ \E c \in Client, k \in Key, h \in Hole : Set(c, k, h)
        \/ \E c \in Client, count \in Count, w \in WaitId : Wait(c, count, w)
        \/ /\ \/ \E c \in Client : ClientCloses(c)
              \/ \E w \in WaitId : WaitTimeout(w)
              \/ \E r \in Replica : ReplicaStep(r)
              \/ UNCHANGED vars
    BY Zenon DEF Next
  <1>. QED  BY <1>2, <1>3, <1>4, <1>5, OtherSteps

-----------------------------------------------------------------------------
(* A replica on the list of a WAIT that it owed nothing when the WAIT was  *)
(* issued: all that comes from it covers the goal.                         *)

AsksBeyond(s, g) ==
    \A i \in 1..Len(s) : s[i].type = "GETACK" => g + GetAckSize <= s[i].end
ReportsBeyond(s, g) == \A i \in 1..Len(s) : s[i].type = "ACK" => g <= s[i].offset

Awaits(w, r) == Pending(w) /\ r \in wait[w].waitlist /\ r \notin wait[w].owing

Fresh(w, r) ==
    Awaits(w, r) =>
        /\ acked[r] < wait[w].goal[r]
        /\ wait[w].goal[r] <= pushed[r]
        /\ conn[r] = "open" => AsksBeyond(toReplica[r], wait[w].goal[r])
        /\ ReportsBeyond(toMaster[r], wait[w].goal[r])

FreshInv == \A w \in WaitId, r \in Replica : Fresh(w, r)

(* What a step leaves of a WAIT that still listens for r afterwards.       *)
LEMMA StillWaiting ==
    ASSUME TypeOK, [Next]_vars, NEW w \in WaitId, NEW r \in Replica,
           Pending(w)', r \in wait'[w].waitlist,
           ~ \E c \in Client, count \in Count : Wait(c, count, w)
    PROVE  /\ Pending(w) /\ r \in wait[w].waitlist
           /\ wait'[w].goal = wait[w].goal /\ wait'[w].owing = wait[w].owing
           /\ acked'[r] = acked[r]
  <1>. DEFINE Kept == /\ Pending(w) /\ r \in wait[w].waitlist
                      /\ wait'[w].goal = wait[w].goal /\ wait'[w].owing = wait[w].owing
                      /\ acked'[r] = acked[r]
  <1>0. wait[w] \in WaitRecord
    BY DEF TypeOK
  <1>1. CASE wait'[w] = wait[w] /\ acked' = acked
    BY <1>1 DEF Pending
  <1>2. ASSUME NEW c \in Client, NEW count \in Count, NEW v \in WaitId, Wait(c, count, v)
        PROVE  Kept
    <2>1. v # w
      BY <1>2
    <2>2. wait'[w] = wait[w] /\ acked' = acked
      BY <1>2, <2>1 DEF Wait, TypeOK
    <2>. QED  BY <1>1, <2>2
  <1>3. ASSUME NEW v \in WaitId, WaitTimeout(v)
        PROVE  Kept
    <2>1. wait' = [wait EXCEPT ![v].state = "timeout"] /\ acked' = acked
      BY <1>3 DEF WaitTimeout, masterVars
    <2>2. v # w
      BY <2>1, <1>0 DEF Pending, TypeOK, WaitRecord
    <2>3. wait'[w] = wait[w]
      BY <2>1, <2>2 DEF TypeOK
    <2>. QED  BY <1>1, <2>1, <2>3
  <1>4. ASSUME NEW q \in Replica, MasterAck(q)
        PROVE  Kept
    <2>. DEFINE n == Head(toMaster[q]).offset
    <2>1. CASE wait' = wait /\ acked' = acked
      BY <1>1, <2>1
    <2>2. CASE /\ acked' = [acked EXCEPT ![q] = n]
               /\ wait' = [v \in WaitId |-> UpdateReplicaAck(wait[v], q, n)]
      <3>1. wait'[w] = UpdateReplicaAck(wait[w], q, n)
        BY <2>2
      <3>. HIDE DEF n
      <3>2. CASE wait[w].state # "pending" \/ q \notin wait[w].waitlist
        <4>1. wait'[w] = wait[w]
          BY <3>1, <3>2 DEF UpdateReplicaAck
        <4>2. q # r
          BY <3>2, <4>1 DEF Pending
        <4>. QED  BY <2>2, <4>1, <4>2 DEF Pending, TypeOK
      <3>3. CASE wait[w].state = "pending" /\ q \in wait[w].waitlist
        <4>1. /\ wait'[w].waitlist = wait[w].waitlist \ {q}
              /\ wait'[w].goal = wait[w].goal /\ wait'[w].owing = wait[w].owing
          BY <1>0, <3>1, <3>3 DEF UpdateReplicaAck, WaitRecord
        <4>2. q # r /\ r \in wait[w].waitlist
          BY <4>1
        <4>. QED  BY <2>2, <3>3, <4>1, <4>2 DEF Pending, TypeOK
      <3>. QED  BY <3>2, <3>3
    <2>. QED  BY <1>4, <2>1, <2>2 DEF MasterAck
  <1>5. ASSUME \/ \E c \in Client, k \in Key, h \in Hole : Set(c, k, h)
               \/ \E c \in Client : ClientCloses(c)
               \/ \E q \in Replica :
                    \/ MasterPing(q) \/ MasterReplConf(q) \/ MasterPsync(q)
                    \/ MasterCloses(q) \/ MasterWritesToDead(q) \/ ReplicaJams(q) \/ ReplicaConnects(q)
                    \/ ReplicaHandshake(q) \/ ReplicaProcess(q) \/ ReplicaDies(q)
               \/ UNCHANGED vars
        PROVE  Kept
    <2>1. UNCHANGED <<wait, acked>>
      BY <1>5 DEF Set, ClientCloses, MasterPing, MasterReplConf, MasterPsync, MasterCloses,
                  MasterWritesToDead, ReplicaJams, ReplicaConnects, ReplicaHandshake, ReplicaProcess,
                  ReplicaDies, masterVars, vars
    <2>. QED  BY <1>1, <2>1
  <1>. QED  BY <1>2, <1>3, <1>4, <1>5 DEF Next, ReplicaStep

(* The questions to a replica still lie behind the goal.                   *)
LEMMA AsksStep ==
    ASSUME TypeOK, HandshakeInv, [Next]_vars, NEW r \in Replica, NEW g \in Nat,
           g <= pushed[r], conn[r] = "open" => AsksBeyond(toReplica[r], g),
           conn'[r] = "open"
    PROVE  AsksBeyond(toReplica'[r], g)
  <1>0. Len(toReplica[r]) \in Nat /\ pushed[r] \in Nat
    BY LenType DEF TypeOK
  <1>1. conn[r] = "open" => AsksBeyond(toReplica[r], g)
    OBVIOUS
  <1>2. ASSUME NEW m, Grown(toReplica[r], toReplica'[r], m), conn[r] = "open",
               m.type = "GETACK" => m.end = pushed[r] + GetAckSize
        PROVE  AsksBeyond(toReplica'[r], g)
    <2>1. \A i \in 1..Len(toReplica'[r]) :
            (i \in 1..Len(toReplica[r]) /\ toReplica'[r][i] = toReplica[r][i])
              \/ toReplica'[r][i] = m
      <3>1. \A i \in 1..Len(toReplica'[r]) : i \in 1..Len(toReplica[r])
                                                \/ i = Len(toReplica[r]) + 1
        BY <1>0, <1>2 DEF Grown
      <3>. QED  BY <1>2, <3>1 DEF Grown
    <2>2. m.type = "GETACK" => g + GetAckSize <= m.end
      BY <1>0, <1>2, ReplicationAssumption
    <2>. QED  BY <1>1, <1>2, <2>1, <2>2 DEF AsksBeyond
  <1>3. conn[r] = "off" => Len(toReplica[r]) = 0
    BY EmptySeq DEF HandshakeInv
  <1>4. CASE conn[r] = "off" /\ toReplica'[r] = toReplica[r]
    BY <1>3, <1>4 DEF AsksBeyond
  <1>5. ASSUME NEW c \in Client, NEW k \in Key, NEW h \in Hole, Set(c, k, h)
        PROVE  AsksBeyond(toReplica'[r], g)
    <2>1. conn' = conn
      BY <1>5 DEF Set
    <2>. DEFINE m == SetMsg(k, nsets + 1, pushed[r] + SetSize)
    <2>2. m.type # "GETACK"
      BY DEF SetMsg
    <2>3. Grown(toReplica[r], toReplica'[r], m) \/ toReplica'[r] = toReplica[r]
      BY <1>5, SetStream DEF Grows
    <2>. HIDE DEF m
    <2>. QED  BY <1>1, <1>2, <2>1, <2>2, <2>3
  <1>6. ASSUME NEW c \in Client, NEW count \in Count, NEW w \in WaitId, Wait(c, count, w)
        PROVE  AsksBeyond(toReplica'[r], g)
    <2>1. conn' = conn
      BY <1>6 DEF Wait
    <2>. DEFINE m == GetAckMsg(pushed[r] + GetAckSize)
    <2>2. m.end = pushed[r] + GetAckSize
      BY DEF GetAckMsg
    <2>3. Grown(toReplica[r], toReplica'[r], m) \/ toReplica'[r] = toReplica[r]
      BY <1>6, WaitStream DEF Grows
    <2>. HIDE DEF m
    <2>. QED  BY <1>1, <1>2, <2>1, <2>2, <2>3
  <1>7. ASSUME NotPushed(r)
        PROVE  AsksBeyond(toReplica'[r], g)
    <2>1. CASE conn'[r] = conn[r] /\ toReplica'[r] = toReplica[r]
      BY <1>1, <2>1
    <2>2. CASE conn'[r] = conn[r] /\ Push(r)
      <3>1. PICK m : m.type \in Pushed /\ Grown(toReplica[r], toReplica'[r], m)
        BY <2>2 DEF Push, Grows
      <3>2. /\ Len(toReplica[r]) + 1 \in 1..Len(toReplica'[r])
            /\ toReplica'[r][Len(toReplica[r]) + 1] = m
            /\ Len(toReplica[r]) + 1 > Len(toReplica[r])
        BY <1>0, <3>1 DEF Grown
      <3>. QED  BY <1>7, <3>1, <3>2 DEF NotPushed
    <2>3. CASE conn'[r] = conn[r] /\ Answer(r)
      <3>1. \A i \in 1..Len(toReplica'[r]) : toReplica'[r][i].type = "GETACK" =>
               i \in 1..Len(toReplica[r]) /\ toReplica'[r][i] = toReplica[r][i]
        BY <1>0, <2>3 DEF Answer, Pushed
      <3>. QED  BY <1>1, <2>3, <3>1 DEF AsksBeyond
    <2>4. CASE conn[r] = "open" /\ (Take(r) \/ Process(r))
      <3>1. \A i \in 1..Len(toReplica'[r]) :
               i + 1 \in 1..Len(toReplica[r]) /\ toReplica'[r][i] = toReplica[r][i + 1]
        BY <1>0, <2>4 DEF Take, Process, Shrinks, Shrunk
      <3>. QED  BY <1>1, <2>4, <3>1 DEF AsksBeyond
    <2>5. CASE toReplica'[r] = <<>>
      BY <2>5, EmptySeq DEF AsksBeyond
    <2>. QED  BY <2>1, <2>2, <2>3, <2>4, <2>5, EveryStep DEF Kinds
  <1>8. \/ \E c \in Client, k \in Key, h \in Hole : Set(c, k, h)
        \/ \E c \in Client, count \in Count, w \in WaitId : Wait(c, count, w)
        \/ /\ \/ \E c \in Client : ClientCloses(c)
              \/ \E w \in WaitId : WaitTimeout(w)
              \/ \E q \in Replica : ReplicaStep(q)
              \/ UNCHANGED vars
    BY Zenon DEF Next
  <1>. QED  BY <1>5, <1>6, <1>7, <1>8, OtherSteps

(* The answers under way still cover the goal: a new one reports the count *)
(* of bytes before its question, which is where that question begins.      *)
LEMMA ReportsStep ==
    ASSUME TypeOK, HandshakeInv, TightInv, [Next]_vars, NEW r \in Replica, NEW g \in Nat,
           conn[r] = "open" => AsksBeyond(toReplica[r], g),
           ReportsBeyond(toMaster[r], g)
    PROVE  ReportsBeyond(toMaster'[r], g)
  <1>0. /\ Len(toReplica[r]) \in Nat /\ Len(toMaster[r]) \in Nat /\ bytesIn[r] \in Nat
        /\ Typed(toReplica[r])
    BY LenType, TypedStream DEF TypeOK
  <1>1. ReportsBeyond(toMaster[r], g)
    OBVIOUS
  <1>2. ASSUME NEW m, Grown(toMaster[r], toMaster'[r], m), m.type = "ACK" => g <= m.offset
        PROVE  ReportsBeyond(toMaster'[r], g)
    <2>1. \A i \in 1..Len(toMaster'[r]) : i \in 1..Len(toMaster[r])
                                             \/ i = Len(toMaster[r]) + 1
      BY <1>0, <1>2 DEF Grown
    <2>. QED  BY <1>1, <1>2, <2>1 DEF ReportsBeyond, Grown
  <1>3. CASE Quiet(r)
    BY <1>1, <1>3 DEF Quiet
  <1>4. CASE Note(r)
    <2>1. \A i \in 1..Len(toMaster'[r]) :
            i + 1 \in 1..Len(toMaster[r]) /\ toMaster'[r][i] = toMaster[r][i + 1]
      BY <1>0, <1>4 DEF Note, Shrunk
    <2>. QED  BY <1>1, <2>1 DEF ReportsBeyond
  <1>5. CASE toMaster'[r] = <<>>
    BY <1>5, EmptySeq DEF ReportsBeyond
  <1>6. CASE Report(r)
    <2>1. PICK m \in ToMasterMsg : /\ Grown(toMaster[r], toMaster'[r], m)
                                   /\ m.type = "ACK" => m.offset = bytesIn[r]
      BY <1>6 DEF Report
    <2>2. CASE m.type # "ACK"
      BY <1>2, <2>1, <2>2
    <2>3. CASE m.type = "ACK"
      <3>0. Len(toMaster'[r]) = Len(toMaster[r]) + 1
            /\ toMaster'[r][Len(toMaster[r]) + 1] = m
        BY <2>1 DEF Grown
      <3>1. ASSUME NEW q \in Replica, ReplicaProcess(q)
            PROVE  ReportsBeyond(toMaster'[r], g)
        <4>1. ReplicaReads(q) /\ ReplicaRead(q)
          BY <3>1 DEF ReplicaProcess
        <4>2. q = r /\ Head(toReplica[q]).type = "GETACK"
          <5>1. AckMsg(bytesIn[q]) \in ToMasterMsg
            BY DEF AckMsg, ToMasterMsg, TypeOK
          <5>2. \/ Head(toReplica[q]).type = "GETACK" /\ ReplicaSay(q, <<AckMsg(bytesIn[q])>>)
                \/ ReplicaSay(q, <<>>)
            BY <3>1 DEF ReplicaProcess
          <5>. QED  BY <1>0, <3>0, <5>1, <5>2, SayMaster
        <4>3. /\ conn[r] = "open" /\ toReplica[r][1].type = "GETACK"
              /\ Shrunk(toReplica[r], toReplica'[r])
          BY <4>1, <4>2, ReadStream DEF ReplicaReads, Shrinks
        <4>4. 1 \in 1..Len(toReplica[r])
          BY <1>0, <4>3 DEF Shrunk
        <4>5. toReplica[r][1].end <= bytesIn[r] + GetAckSize
          <5>1. ~ \E j \in 1..Len(toReplica[r]) : j < 1
            OBVIOUS
          <5>2. Size(toReplica[r][1]) = GetAckSize /\ toReplica[r][1].type \in Pushed
            BY <4>3 DEF Size, Pushed
          <5>3. Tight(toReplica[r], bytesIn[r], pushed[r])
            BY <4>3 DEF TightInv, TightAt
          <5>. QED  BY <4>4, <5>1, <5>2, <5>3 DEF Tight
        <4>6. g + GetAckSize <= toReplica[r][1].end /\ toReplica[r][1].end \in Nat
          BY <4>3, <4>4, <1>0 DEF AsksBeyond, Typed, Pushed
        <4>7. g <= bytesIn[r]
          BY <1>0, <4>5, <4>6, ReplicationAssumption
        <4>. QED  BY <1>2, <2>1, <2>3, <4>7
      <3>2. ASSUME NEW q \in Replica, ReplicaHandshake(q)
            PROVE  FALSE
        <4>1. /\ Plain("REPLCONF") \in ToMasterMsg /\ Plain("REPLCONF").type # "ACK"
              /\ Plain("PSYNC") \in ToMasterMsg /\ Plain("PSYNC").type # "ACK"
          BY DEF Plain, ToMasterMsg
        <4>2. rstate[q] \in RState /\ rstate[q] # "WAIT_SERVER_COMMANDS"
          BY <3>2 DEF ReplicaHandshake, TypeOK
        <4>3. \/ toMaster' = toMaster
              \/ ReplicaSay(q, <<Plain("REPLCONF")>>)
              \/ ReplicaSay(q, <<Plain("PSYNC")>>)
              \/ ReplicaSay(q, <<>>)
          BY <3>2, <4>2 DEF ReplicaHandshake, Handshake, RState
        <4>. QED  BY <1>0, <2>3, <3>0, <4>1, <4>3, SayMaster DEF Grown
      <3>3. ASSUME NEW q \in Replica, ReplicaConnects(q)
            PROVE  FALSE
        <4>1. Plain("PING") \in ToMasterMsg /\ Plain("PING").type # "ACK"
          BY DEF Plain, ToMasterMsg
        <4>2. ReplicaSay(q, <<Plain("PING")>>)
          BY <3>3 DEF ReplicaConnects
        <4>. QED  BY <1>0, <2>3, <3>0, <4>1, <4>2, SayMaster DEF Grown
      <3>4. ASSUME NEW q \in Replica,
                   MasterPing(q) \/ MasterReplConf(q) \/ MasterPsync(q) \/ MasterAck(q)
            PROVE  FALSE
        <4>1. Reads(q) /\ Read(q)
          BY <3>4 DEF MasterPing, MasterReplConf, MasterPsync, MasterAck
        <4>. QED  BY <1>0, <3>0, <4>1, ReadMaster DEF Shrunk
      <3>5. ASSUME NEW q \in Replica, MasterCloses(q)
            PROVE  FALSE
        <4>1. toMaster' = [toMaster EXCEPT ![q] = <<>>]
          BY <3>5 DEF MasterCloses
        <4>2. toMaster'[r] = <<>> \/ toMaster'[r] = toMaster[r]
          BY <4>1 DEF TypeOK
        <4>. QED  BY <1>0, <3>0, <4>2, EmptySeq
      <3>6. ASSUME \/ \E c \in Client, k \in Key, h \in Hole : Set(c, k, h)
                   \/ \E c \in Client, count \in Count, w \in WaitId : Wait(c, count, w)
                   \/ \E c \in Client : ClientCloses(c)
                   \/ \E w \in WaitId : WaitTimeout(w)
                   \/ \E q \in Replica : MasterWritesToDead(q) \/ ReplicaJams(q) \/ ReplicaDies(q)
                   \/ UNCHANGED vars
            PROVE  FALSE
        <4>1. UNCHANGED toMaster
          BY <3>6 DEF Set, Wait, ClientCloses, WaitTimeout, MasterWritesToDead, ReplicaJams, ReplicaDies,
                      vars
        <4>. QED  BY <1>0, <3>0, <4>1
      <3>. QED  BY <3>1, <3>2, <3>3, <3>4, <3>5, <3>6 DEF Next, ReplicaStep
    <2>. QED  BY <2>2, <2>3
  <1>. QED  BY <1>3, <1>4, <1>5, <1>6, EveryAckStep DEF AckKinds

LEMMA FreshStep ==
    ASSUME TypeOK, TypeOK', HandshakeInv, TightInv, FreshInv, [Next]_vars
    PROVE  FreshInv'
  <1>. SUFFICES ASSUME NEW w \in WaitId, NEW r \in Replica, Awaits(w, r)'
                PROVE  /\ acked'[r] < wait'[w].goal[r]
                       /\ wait'[w].goal[r] <= pushed'[r]
                       /\ conn'[r] = "open" => AsksBeyond(toReplica'[r], wait'[w].goal[r])
                       /\ ReportsBeyond(toMaster'[r], wait'[w].goal[r])
    BY DEF FreshInv, Fresh
  <1>. DEFINE g == wait'[w].goal[r]
  <1>0. /\ g \in Nat /\ pushed[r] \in Nat /\ pushed'[r] \in Nat /\ acked[r] \in Nat
        /\ pushed'[r] >= pushed[r]
    <2>1. wait'[w] \in WaitRecord
      BY DEF TypeOK
    <2>. QED  BY <2>1, PushedGrow DEF TypeOK, WaitRecord
  <1>1. ASSUME g <= pushed[r], acked[r] < g, acked'[r] = acked[r],
               conn[r] = "open" => AsksBeyond(toReplica[r], g),
               ReportsBeyond(toMaster[r], g)
        PROVE  /\ acked'[r] < g /\ g <= pushed'[r]
               /\ conn'[r] = "open" => AsksBeyond(toReplica'[r], g)
               /\ ReportsBeyond(toMaster'[r], g)
    <2>1. conn'[r] = "open" => AsksBeyond(toReplica'[r], g)
      BY <1>0, <1>1, AsksStep
    <2>2. ReportsBeyond(toMaster'[r], g)
      BY <1>0, <1>1, ReportsStep
    <2>. QED  BY <1>0, <1>1, <2>1, <2>2
  <1>2. CASE \E c \in Client, count \in Count : Wait(c, count, w)
    <2>1. PICK c \in Client, count \in Count : Wait(c, count, w)
      BY <1>2
    <2>2. /\ wait'[w] = SetUpWait(c, count) /\ acked' = acked
      BY <2>1 DEF Wait, TypeOK
    <2>3. g = pushed[r] /\ r \in Behind /\ r \notin Owing
      BY <2>2 DEF SetUpWait, Awaits
    <2>4. acked[r] < g
      BY <2>3 DEF Behind
    <2>5. AsksBeyond(toReplica[r], g) /\ ReportsBeyond(toMaster[r], g)
      BY <2>3 DEF Owing, AsksBeyond, ReportsBeyond
    <2>. HIDE DEF g
    <2>. QED  BY <1>0, <1>1, <2>2, <2>3, <2>4, <2>5 DEF g
  <1>3. CASE ~ \E c \in Client, count \in Count : Wait(c, count, w)
    <2>1. /\ Pending(w) /\ r \in wait[w].waitlist
          /\ wait'[w].goal = wait[w].goal /\ wait'[w].owing = wait[w].owing
          /\ acked'[r] = acked[r]
      BY <1>3, StillWaiting DEF Awaits
    <2>2. Awaits(w, r)
      BY <2>1 DEF Awaits
    <2>3. /\ acked[r] < g /\ g <= pushed[r]
          /\ conn[r] = "open" => AsksBeyond(toReplica[r], g)
          /\ ReportsBeyond(toMaster[r], g)
      BY <2>1, <2>2 DEF FreshInv, Fresh
    <2>. HIDE DEF g
    <2>. QED  BY <1>1, <2>1, <2>3 DEF g
  <1>. QED  BY <1>2, <1>3

-----------------------------------------------------------------------------
(* What a pending WAIT counted is a set of its replicas: every one it no   *)
(* longer listens for is in it, but those that owed it an older answer.    *)

AllIn(w, S) ==
    /\ S \subseteq wait[w].members
    /\ Cardinality(S) = wait[w].ready
    /\ S \cap wait[w].waitlist = {}
    /\ (wait[w].members \ wait[w].owing) \ wait[w].waitlist \subseteq S

CountsAll(w) == Pending(w) => \E S : AllIn(w, S)

LEMMA CountsAllStep ==
    ASSUME TypeOK, TypeOK', WaitlistInv, FreshInv, [Next]_vars, NEW w \in WaitId, CountsAll(w)
    PROVE  CountsAll(w)'
  <1>0. /\ wait[w] \in WaitRecord /\ wait'[w] \in WaitRecord
        /\ wait[w].waitlist \subseteq wait[w].members
    BY DEF TypeOK, WaitlistInv
  <1>. SUFFICES ASSUME Pending(w)' PROVE \E S : AllIn(w, S)'
    BY DEF CountsAll
  <1>1. CASE wait'[w] = wait[w]
    <2>1. PICK S : AllIn(w, S)
      BY <1>1 DEF CountsAll, Pending
    <2>. QED  BY <1>1, <2>1 DEF AllIn
  <1>2. ASSUME NEW c \in Client, NEW count \in Count, NEW v \in WaitId, Wait(c, count, v)
        PROVE  \E S : AllIn(w, S)'
    <2>1. CASE v # w
      BY <1>1, <1>2, <2>1 DEF Wait, TypeOK
    <2>2. CASE v = w
      <3>1. /\ wait'[w].members = Registered /\ wait'[w].waitlist = Behind
            /\ wait'[w].ready = Cardinality(Registered \ Behind)
        BY <1>2, <2>2 DEF Wait, SetUpWait, TypeOK
      <3>2. PICK S : S = Registered \ Behind
        OBVIOUS
      <3>3. S \subseteq Registered /\ S \cap Behind = {}
        BY <3>2
      <3>4. AllIn(w, S)'
        BY <3>1, <3>2, <3>3 DEF AllIn
      <3>. QED  BY <3>4
    <2>. QED  BY <2>1, <2>2
  <1>3. ASSUME NEW v \in WaitId, WaitTimeout(v)
        PROVE  \E S : AllIn(w, S)'
    <2>1. wait' = [wait EXCEPT ![v].state = "timeout"]
      BY <1>3 DEF WaitTimeout
    <2>2. v # w
      BY <2>1, <1>0 DEF Pending, TypeOK, WaitRecord
    <2>. QED  BY <1>1, <2>1, <2>2 DEF TypeOK
  <1>4. ASSUME NEW r \in Replica, MasterAck(r)
        PROVE  \E S : AllIn(w, S)'
    <2>. DEFINE n == Head(toMaster[r]).offset
    <2>1. CASE wait' = wait
      BY <1>1, <2>1
    <2>2. CASE wait' = [v \in WaitId |-> UpdateReplicaAck(wait[v], r, n)]
      <3>1. wait'[w] = UpdateReplicaAck(wait[w], r, n)
        BY <2>2
      <3>2. /\ n \in Nat /\ toMaster[r][1].type = "ACK" /\ 1 \in 1..Len(toMaster[r])
            /\ n = toMaster[r][1].offset
        <4>1. Shrunk(toMaster[r], toMaster'[r]) /\ Head(toMaster[r]) = toMaster[r][1]
              /\ Head(toMaster[r]).type = "ACK"
          BY <1>4, ReadMaster DEF MasterAck
        <4>2. Len(toMaster[r]) \in Nat /\ 1 \in 1..Len(toMaster[r])
          BY <4>1, LenType DEF Shrunk
        <4>. QED  BY <4>1, <4>2, TypedAckStream DEF TypedAcks
      <3>. HIDE DEF n
      <3>3. CASE wait[w].state # "pending" \/ r \notin wait[w].waitlist
        BY <1>1, <3>1, <3>3 DEF UpdateReplicaAck
      <3>4. CASE wait[w].state = "pending" /\ r \in wait[w].waitlist
        <4>1. PICK S : AllIn(w, S)
          BY <3>4 DEF CountsAll, Pending
        <4>2. /\ wait'[w].waitlist = wait[w].waitlist \ {r}
              /\ wait'[w].owing = wait[w].owing /\ wait'[w].members = wait[w].members
          BY <1>0, <3>1, <3>4 DEF UpdateReplicaAck, WaitRecord
        <4>3. CASE n >= wait[w].goal[r]
          <5>1. wait'[w].ready = wait[w].ready + 1
            BY <1>0, <3>1, <3>4, <4>3 DEF UpdateReplicaAck, WaitRecord
          <5>2. S \subseteq Replica /\ r \notin S
            BY <1>0, <3>4, <4>1 DEF AllIn, WaitRecord
          <5>3. IsFiniteSet(S)
            BY <5>2, FS_Subset, ReplicationAssumption
          <5>4. Cardinality(S \cup {r}) = Cardinality(S) + 1
            BY <5>2, <5>3, FS_AddElement
          <5>5. Cardinality(S \cup {r}) = wait'[w].ready
            BY <4>1, <5>1, <5>4 DEF AllIn
          <5>6. AllIn(w, S \cup {r})'
            BY <1>0, <3>4, <4>1, <4>2, <5>5 DEF AllIn
          <5>. QED  BY <5>6
        <4>4. CASE ~ (n >= wait[w].goal[r])
          <5>1. wait[w].ready \in Nat /\ wait[w].goal[r] \in Nat
            BY <1>0 DEF WaitRecord
          <5>2. wait'[w].ready = wait[w].ready + 0
            BY <1>0, <3>1, <3>4, <4>4 DEF UpdateReplicaAck, WaitRecord
          <5>3. wait'[w].ready = wait[w].ready
            BY <5>1, <5>2
          <5>4. r \in wait[w].owing
            <6>1. Awaits(w, r) => wait[w].goal[r] <= n
              BY <3>2 DEF FreshInv, Fresh, ReportsBeyond
            <6>. QED  BY <3>2, <3>4, <4>4, <5>1, <6>1 DEF Awaits, Pending
          <5>5. AllIn(w, S)'
            BY <4>1, <4>2, <5>3, <5>4 DEF AllIn
          <5>. QED  BY <5>5
        <4>. QED  BY <4>3, <4>4
      <3>. QED  BY <3>3, <3>4
    <2>. QED  BY <1>4, <2>1, <2>2 DEF MasterAck
  <1>5. ASSUME \/ \E c \in Client, k \in Key, h \in Hole : Set(c, k, h)
               \/ \E c \in Client : ClientCloses(c)
               \/ \E q \in Replica :
                    \/ MasterPing(q) \/ MasterReplConf(q) \/ MasterPsync(q)
                    \/ MasterCloses(q) \/ MasterWritesToDead(q) \/ ReplicaJams(q) \/ ReplicaConnects(q)
                    \/ ReplicaHandshake(q) \/ ReplicaProcess(q) \/ ReplicaDies(q)
               \/ UNCHANGED vars
        PROVE  \E S : AllIn(w, S)'
    <2>1. UNCHANGED wait
      BY <1>5 DEF Set, ClientCloses, MasterPing, MasterReplConf, MasterPsync, MasterCloses,
                  MasterWritesToDead, ReplicaJams, ReplicaConnects, ReplicaHandshake, ReplicaProcess,
                  ReplicaDies, vars
    <2>. QED  BY <1>1, <2>1
  <1>. QED  BY <1>2, <1>3, <1>4, <1>5 DEF Next, ReplicaStep

AckedInv == /\ TightInv /\ FreshInv
            /\ \A w \in WaitId : CountsAll(w)

LEMMA AckedInit == Init => AckedInv
  <1>. SUFFICES ASSUME Init PROVE AckedInv
    OBVIOUS
  <1>1. TightInv
    BY DEF Init, TightInv, TightAt
  <1>2. \A w \in WaitId : ~ Pending(w)
    BY DEF Init, Pending, NoWait
  <1>. QED  BY <1>1, <1>2 DEF AckedInv, FreshInv, Fresh, Awaits, CountsAll

LEMMA AckedStep == TypeOK /\ TypeOK' /\ Inv /\ AckedInv /\ [Next]_vars => AckedInv'
  <1>. SUFFICES ASSUME TypeOK, TypeOK', Inv, AckedInv, [Next]_vars PROVE AckedInv'
    OBVIOUS
  <1>1. TightInv'
    BY TightStep DEF TightInv, AckedInv, Inv
  <1>2. FreshInv'
    BY FreshStep DEF AckedInv, Inv
  <1>3. (\A w \in WaitId : CountsAll(w))'
    BY CountsAllStep DEF AckedInv, Inv
  <1>. QED  BY <1>1, <1>2, <1>3 DEF AckedInv

(* No acknowledgement is lost on a pending WAIT: it counted every replica  *)
(* whose acknowledged offset covers its goal, unless that replica owed the *)
(* answer to an earlier GETACK when the WAIT was issued.  What a replica   *)
(* is asked after the WAIT began is answered at or above the goal, because *)
(* the byte counts of the two processes leave no gap between commands.     *)
THEOREM NoAckLostCorrect == Spec => []NoAckLost
  <1>1. TypeOK /\ Inv /\ AckedInv => NoAckLost
    <2>. SUFFICES ASSUME TypeOK, Inv, AckedInv, NEW w \in WaitId, Pending(w)
                  PROVE  wait[w].ready >=
                           Cardinality({r \in wait[w].members \ wait[w].owing :
                                          acked[r] >= wait[w].goal[r]})
      BY DEF NoAckLost
    <2>. DEFINE A == {r \in wait[w].members \ wait[w].owing : acked[r] >= wait[w].goal[r]}
    <2>1. PICK S : AllIn(w, S)
      BY DEF AckedInv, CountsAll
    <2>2. wait[w] \in WaitRecord
      BY DEF TypeOK
    <2>3. ASSUME NEW r \in A PROVE r \in S
      <3>1. r \in Replica /\ acked[r] \in Nat /\ wait[w].goal[r] \in Nat
        BY <2>2 DEF TypeOK, WaitRecord
      <3>2. r \notin wait[w].waitlist
        BY <3>1 DEF AckedInv, FreshInv, Fresh, Awaits
      <3>. QED  BY <2>1, <3>2 DEF AllIn
    <2>4. S \subseteq Replica
      BY <2>1, <2>2 DEF AllIn, WaitRecord
    <2>5. IsFiniteSet(S)
      BY <2>4, FS_Subset, ReplicationAssumption
    <2>6. Cardinality(A) <= Cardinality(S) /\ IsFiniteSet(A)
      BY <2>3, <2>5, FS_Subset
    <2>7. Cardinality(A) \in Nat /\ Cardinality(S) \in Nat
      BY <2>5, <2>6, FS_CardinalityType
    <2>8. Cardinality(S) = wait[w].ready
      BY <2>1 DEF AllIn
    <2>. QED  BY <2>6, <2>7, <2>8
  <1>. QED  BY <1>1, AckedInit, AckedStep, InvCorrect, PTL DEF Spec

-----------------------------------------------------------------------------
(* The promise of WAIT.                                                    *)

(* A WAIT has too few replicas while it is pending, and has no members     *)
(* before it is issued.                                                    *)
PromiseInv ==
    \A w \in WaitId :
        /\ Pending(w) => wait[w].ready < wait[w].expected
        /\ wait[w].state = "idle" => wait[w].members = {}

HoldingBounds ==
    \A w \in WaitId :
        /\ Holding(w) \subseteq wait[w].members
        /\ wait[w].members \subseteq Replica
        /\ Cardinality(Holding(w)) \in Nat
        /\ wait[w].ready \in 0..Cardinality(Holding(w))

LEMMA HoldingType == TypeOK /\ Inv => HoldingBounds
  <1>. SUFFICES ASSUME TypeOK, Inv, NEW w \in WaitId
                PROVE  /\ Holding(w) \subseteq wait[w].members
                       /\ wait[w].members \subseteq Replica
                       /\ Cardinality(Holding(w)) \in Nat
                       /\ wait[w].ready \in 0..Cardinality(Holding(w))
    BY DEF HoldingBounds
  <1>1. wait[w].members \subseteq Replica /\ wait[w].ready \in Nat
    BY DEF TypeOK, WaitRecord
  <1>2. IsFiniteSet(Holding(w))
    BY <1>1, FS_Subset, ReplicationAssumption DEF Holding
  <1>3. PICK S : Counted(w, S)
    BY DEF Inv, CountInv, Counted
  <1>4. S \subseteq Holding(w) /\ Cardinality(S) = wait[w].ready
    BY <1>3 DEF Counted, Holding
  <1>5. Cardinality(S) <= Cardinality(Holding(w)) /\ Cardinality(Holding(w)) \in Nat
    BY <1>2, <1>4, FS_Subset, FS_CardinalityType
  <1>. QED  BY <1>1, <1>4, <1>5 DEF Holding

LEMMA HoldingTypeNext == TypeOK' /\ Inv' => HoldingBounds'
  BY HoldingType, PTL

(* The instance's Cardinality is the one of the code's sets.               *)
LEMMA SameCardinality == \A S : Promise!Cardinality(S) = Cardinality(S)
  BY DEF Promise!Cardinality, Cardinality

LEMMA PromiseInit == Init => PromiseInv
  BY DEF Init, PromiseInv, NoWait, Pending

LEMMA AcknowledgedStep ==
    ASSUME NEW v \in WaitRecord, NEW r \in Replica, NEW n \in Nat,
           v.state = "pending" => v.ready < v.expected
    PROVE  LET u == UpdateReplicaAck(v, r, n)
           IN  /\ u.expected = v.expected /\ u.members = v.members /\ u.due = v.due
               /\ v.state # "pending" => u = v
               /\ v.state = "pending" =>
                    \/ u.state = "pending" /\ u.ready < u.expected
                    \/ u.state = "acked" /\ u.ready >= u.expected
  <1>. DEFINE m == v.ready + (IF n >= v.goal[r] THEN 1 ELSE 0)
              u == UpdateReplicaAck(v, r, n)
  <1>1. v.ready \in Nat /\ v.expected \in Nat /\ v.goal[r] \in Nat
    BY DEF WaitRecord
  <1>2. CASE v.state # "pending" \/ r \notin v.waitlist
    <2>1. u = v
      BY <1>2 DEF UpdateReplicaAck
    <2>. QED  BY <1>1, <1>2, <2>1
  <1>3. CASE v.state = "pending" /\ r \in v.waitlist
    <2>1. /\ u.expected = v.expected /\ u.members = v.members /\ u.due = v.due
          /\ u.ready = m
          /\ u.state = IF n >= v.goal[r] /\ v.expected <= m THEN "acked" ELSE "pending"
      BY <1>3 DEF UpdateReplicaAck, WaitRecord
    <2>2. CASE n >= v.goal[r]
      <3>1. m = v.ready + 1
        BY <2>2
      <3>. QED  BY <1>1, <1>3, <2>1, <2>2, <3>1
    <2>3. CASE ~ (n >= v.goal[r])
      <3>1. m = v.ready
        BY <1>1, <2>3
      <3>. QED  BY <1>1, <1>3, <2>1, <2>3, <3>1
    <2>. QED  BY <2>2, <2>3
  <1>. QED  BY <1>2, <1>3

LEMMA SetUpStep ==
    ASSUME TypeOK, NEW c \in Client, NEW count \in Count
    PROVE  LET u == SetUpWait(c, count)
           IN  /\ u.expected \in 0..Cardinality(u.members)
               /\ \/ u.state = "pending" /\ u.ready < u.expected
                  \/ u.state = "acked" /\ u.ready >= u.expected
  <1>1. count \in Nat /\ CountReplicas \in Nat /\ Cardinality(Registered \ Behind) \in Nat
    BY CountType, ReplicationAssumption
  <1>2. Smaller(count, CountReplicas) \in 0..CountReplicas
    BY <1>1 DEF Smaller
  <1>. QED  BY <1>1, <1>2 DEF SetUpWait, CountReplicas

LEMMA PromiseStep ==
    ASSUME TypeOK, AckInv, PromiseInv, [Next]_vars
    PROVE  PromiseInv'
  <1>. SUFFICES ASSUME NEW w \in WaitId
                PROVE  /\ Pending(w)' => wait'[w].ready < wait'[w].expected
                       /\ wait'[w].state = "idle" => wait'[w].members = {}
    BY DEF PromiseInv
  <1>1. /\ wait[w] \in WaitRecord
        /\ Pending(w) => wait[w].ready < wait[w].expected
        /\ wait[w].state = "idle" => wait[w].members = {}
    BY DEF TypeOK, PromiseInv
  <1>2. CASE Same(w)
    BY <1>1, <1>2 DEF Same, Pending
  <1>3. CASE Issued(w)
    <2>1. PICK c \in Client, count \in Count : wait'[w] = SetUpWait(c, count)
      BY <1>3 DEF Issued
    <2>. QED  BY <2>1, SetUpStep DEF Pending
  <1>4. CASE TimedOut(w)
    BY <1>1, <1>4 DEF TimedOut, Pending, WaitRecord
  <1>5. CASE Acknowledged(w)
    <2>1. PICK r \in Replica, n \in Nat : wait'[w] = UpdateReplicaAck(wait[w], r, n)
      BY <1>5 DEF Acknowledged
    <2>. QED  BY <1>1, <2>1, AcknowledgedStep DEF Pending
  <1>. QED  BY <1>2, <1>3, <1>4, <1>5, EveryWaitStep DEF WaitKinds

-----------------------------------------------------------------------------
(* Who holds the writes of a WAIT.                                         *)
LEMMA HoldingSame ==
    ASSUME NEW w \in WaitId, UNCHANGED rstore,
           wait'[w].members = wait[w].members, wait'[w].due = wait[w].due
    PROVE  Holding(w)' = Holding(w)
  BY DEF Holding, Holds

LEMMA HoldingGrows ==
    ASSUME TypeOK, TypeOK', Inv, [Next]_vars, UNCHANGED wait, NEW w \in WaitId
    PROVE  Holding(w) \subseteq Holding(w)'
  <1>1. \A r \in Replica, k \in Key : /\ rstore'[r][k] >= rstore[r][k]
                                      /\ rstore[r][k] \in Nat /\ rstore'[r][k] \in Nat
    BY ValuesGrow, HeldType DEF Inv
  <1>2. /\ wait[w].members \subseteq Replica
        /\ \A r \in Replica, k \in Key : wait[w].due[r][k] \in Nat
    BY DEF TypeOK, WaitRecord
  <1>. QED  BY <1>1, <1>2 DEF Holding, Holds

-----------------------------------------------------------------------------
(* The simulation, one step for each kind of step of the implementation.   *)

(* Steps that leave every WAIT alone let replicas hold more.               *)
LEMMA ReceiveStep ==
    ASSUME TypeOK, TypeOK', Inv, Inv', [Next]_vars, UNCHANGED wait
    PROVE  Promise!Receive
  <1>1. \A w \in WaitId : /\ Holding(w) \subseteq Holding(w)'
                          /\ Holding(w)' \subseteq wait[w].members
    BY HoldingGrows DEF Holding
  <1>2. \A w \in WaitId : Answered(w)' <=> Answered(w)
    BY DEF Answered
  <1>. QED  BY <1>1, <1>2 DEF Promise!Receive

LEMMA AskStep ==
    ASSUME TypeOK, TypeOK', Inv', NEW c \in Client, NEW count \in Count, NEW v \in WaitId,
           Wait(c, count, v)
    PROVE  Promise!Ask(v)
  <1>. DEFINE u == SetUpWait(c, count)
  <1>1. /\ wait[v].state = "idle" /\ wait' = [wait EXCEPT ![v] = u]
        /\ UNCHANGED rstore
    BY DEF Wait, replicaVars
  <1>2. /\ wait'[v] = u
        /\ \A w \in WaitId \ {v} : wait'[w] = wait[w]
    BY <1>1 DEF TypeOK
  <1>3. /\ u.expected \in 0..Cardinality(u.members)
        /\ \/ u.state = "pending"
           \/ u.state = "acked" /\ u.ready >= u.expected
    BY SetUpStep
  <1>. HIDE DEF u
  <1>4. /\ Holding(v)' \subseteq wait'[v].members
        /\ wait'[v].members \subseteq Replica
        /\ wait'[v].ready \in 0..Cardinality(Holding(v)')
        /\ Cardinality(Holding(v)') \in Nat
    BY HoldingTypeNext DEF HoldingBounds
  <1>5. \A w \in WaitId \ {v} : Holding(w)' = Holding(w) /\ (Answered(w)' <=> Answered(w))
    BY <1>1, <1>2, HoldingSame DEF Answered
  <1>6. /\ Promise!Others(v, [w \in WaitId |-> wait[w].state], [w \in WaitId |-> wait[w].state]')
        /\ Promise!Others(v, [w \in WaitId |-> wait[w].expected],
                             [w \in WaitId |-> wait[w].expected]')
        /\ Promise!Others(v, [w \in WaitId |-> wait[w].members],
                             [w \in WaitId |-> wait[w].members]')
        /\ Promise!Others(v, [w \in WaitId |-> Holding(w)], [w \in WaitId |-> Holding(w)]')
        /\ Promise!Others(v, [w \in WaitId |-> IF Answered(w) THEN wait[w].ready ELSE -1],
                             [w \in WaitId |-> IF Answered(w) THEN wait[w].ready ELSE -1]')
    BY <1>2, <1>5 DEF Promise!Others
  <1>7. \/ u.state = "pending" /\ ~ Answered(v)'
        \/ /\ u.state = "acked" /\ Answered(v)'
           /\ u.ready \in u.expected..Cardinality(Holding(v)')
    BY <1>2, <1>3, <1>4 DEF Answered
  <1>. QED  BY <1>1, <1>2, <1>3, <1>4, <1>6, <1>7, SameCardinality DEF Promise!Ask

LEMMA TimeoutStep ==
    ASSUME TypeOK, Inv, PromiseInv, NEW v \in WaitId, WaitTimeout(v)
    PROVE  Promise!TimedOut(v)
  <1>1. /\ Pending(v) /\ wait' = [wait EXCEPT ![v].state = "timeout"]
        /\ UNCHANGED rstore
    BY DEF WaitTimeout, replicaVars
  <1>2. /\ wait'[v] = [wait[v] EXCEPT !.state = "timeout"] /\ wait[v] \in WaitRecord
        /\ \A w \in WaitId \ {v} : wait'[w] = wait[w]
    BY <1>1 DEF TypeOK
  <1>3. /\ wait'[v].state = "timeout" /\ wait'[v].ready = wait[v].ready
        /\ wait'[v].expected = wait[v].expected /\ wait'[v].members = wait[v].members
        /\ wait'[v].due = wait[v].due
    BY <1>2 DEF WaitRecord
  <1>4. wait[v].ready < wait[v].expected /\ wait[v].ready \in 0..Cardinality(Holding(v))
    BY <1>1, HoldingType DEF HoldingBounds, PromiseInv
  <1>5. \A w \in WaitId : /\ Holding(w)' = Holding(w)
                          /\ wait'[w].expected = wait[w].expected
                          /\ wait'[w].members = wait[w].members
    BY <1>1, <1>2, <1>3, HoldingSame
  <1>6. \A w \in WaitId \ {v} : Answered(w)' <=> Answered(w)
    BY <1>2 DEF Answered
  <1>7. Answered(v)'
    BY <1>3 DEF Answered
  <1>8. /\ [w \in WaitId |-> wait[w].expected]' = [w \in WaitId |-> wait[w].expected]
        /\ [w \in WaitId |-> wait[w].members]' = [w \in WaitId |-> wait[w].members]
        /\ [w \in WaitId |-> Holding(w)]' = [w \in WaitId |-> Holding(w)]
    BY <1>5
  <1>9. /\ Promise!Others(v, [w \in WaitId |-> wait[w].state], [w \in WaitId |-> wait[w].state]')
        /\ Promise!Others(v, [w \in WaitId |-> IF Answered(w) THEN wait[w].ready ELSE -1],
                             [w \in WaitId |-> IF Answered(w) THEN wait[w].ready ELSE -1]')
    BY <1>2, <1>6 DEF Promise!Others
  <1>. QED  BY <1>1, <1>3, <1>4, <1>7, <1>8, <1>9, SameCardinality DEF Promise!TimedOut, Pending

LEMMA PromiseAcked ==
    ASSUME TypeOK, TypeOK', Inv, Inv', PromiseInv, NEW r \in Replica, MasterAck(r)
    PROVE  Promise!Acknowledged
  <1>1. UNCHANGED rstore
    BY DEF MasterAck, replicaVars
  <1>2. ASSUME NEW w \in WaitId
        PROVE  /\ wait'[w].expected = wait[w].expected /\ wait'[w].members = wait[w].members
               /\ wait'[w].due = wait[w].due
               /\ \/ /\ wait'[w].state = wait[w].state
                     /\ wait[w].state # "pending" => wait'[w] = wait[w]
                  \/ /\ wait[w].state = "pending" /\ wait'[w].state = "acked"
                     /\ wait'[w].ready >= wait[w].expected
    <2>1. wait[w] \in WaitRecord /\ (Pending(w) => wait[w].ready < wait[w].expected)
      BY DEF TypeOK, PromiseInv
    <2>2. CASE UNCHANGED wait
      BY <2>2
    <2>3. CASE wait' = [x \in WaitId |-> UpdateReplicaAck(wait[x], r, Head(toMaster[r]).offset)]
      <3>1. PICK n \in Nat : wait'[w] = UpdateReplicaAck(wait[w], r, n)
        BY <2>3, AckRead DEF Inv
      <3>. QED  BY <2>1, <3>1, AcknowledgedStep DEF Pending
    <2>. QED  BY <2>2, <2>3 DEF MasterAck
  <1>3. \A w \in WaitId : Holding(w)' = Holding(w)
    BY <1>1, <1>2, HoldingSame
  <1>4. HoldingBounds /\ HoldingBounds'
    BY HoldingType, HoldingTypeNext
  <1>5. /\ [w \in WaitId |-> wait[w].expected]' = [w \in WaitId |-> wait[w].expected]
        /\ [w \in WaitId |-> wait[w].members]' = [w \in WaitId |-> wait[w].members]
        /\ [w \in WaitId |-> Holding(w)]' = [w \in WaitId |-> Holding(w)]
    BY <1>2, <1>3
  <1>6. ASSUME NEW w \in WaitId
        PROVE  \/ /\ wait'[w].state = wait[w].state /\ (Answered(w)' <=> Answered(w))
                  /\ Answered(w) => wait'[w].ready = wait[w].ready
               \/ /\ wait[w].state = "pending" /\ wait'[w].state = "acked" /\ Answered(w)'
                  /\ wait'[w].ready \in wait[w].expected..Cardinality(Holding(w))
    <2>1. wait[w] \in WaitRecord
      BY DEF TypeOK
    <2>2. wait'[w].ready \in 0..Cardinality(Holding(w)) /\ Cardinality(Holding(w)) \in Nat
      BY <1>3, <1>4 DEF HoldingBounds
    <2>. QED  BY <1>2, <2>1, <2>2 DEF Answered, WaitRecord
  <1>. QED  BY <1>5, <1>6, SameCardinality DEF Promise!Acknowledged

(* The implementation's next-state relation, step by step.                 *)
LEMMA PromiseNext ==
    ASSUME TypeOK, TypeOK', Inv, Inv', PromiseInv, [Next]_vars
    PROVE  [Promise!Next]_(Promise!vars)
  <1>1. ASSUME NEW c \in Client, NEW count \in Count, NEW v \in WaitId, Wait(c, count, v)
        PROVE  Promise!Next
    BY <1>1, AskStep DEF Promise!Next
  <1>2. ASSUME NEW v \in WaitId, WaitTimeout(v)
        PROVE  Promise!Next
    BY <1>2, TimeoutStep DEF Promise!Next
  <1>3. ASSUME NEW r \in Replica, MasterAck(r)
        PROVE  Promise!Next
    BY <1>3, PromiseAcked DEF Promise!Next
  <1>4. ASSUME \/ \E c \in Client, k \in Key, h \in Hole : Set(c, k, h)
               \/ \E c \in Client : ClientCloses(c)
               \/ \E r \in Replica :
                    \/ MasterPing(r) \/ MasterReplConf(r) \/ MasterPsync(r)
                    \/ MasterCloses(r) \/ MasterWritesToDead(r) \/ ReplicaJams(r) \/ ReplicaConnects(r)
                    \/ ReplicaHandshake(r) \/ ReplicaProcess(r) \/ ReplicaDies(r)
               \/ UNCHANGED vars
        PROVE  Promise!Next
    <2>1. UNCHANGED wait
      BY <1>4 DEF Set, ClientCloses, MasterPing, MasterReplConf, MasterPsync, MasterCloses,
                  MasterWritesToDead, ReplicaJams, ReplicaConnects, ReplicaHandshake, ReplicaProcess,
                  ReplicaDies, vars
    <2>. QED  BY <2>1, ReceiveStep DEF Promise!Next
  <1>. QED  BY <1>1, <1>2, <1>3, <1>4 DEF Next, ReplicaStep

LEMMA PromiseStart == Init => Promise!Init
  <1>. SUFFICES ASSUME Init PROVE Promise!Init
    OBVIOUS
  <1>1. \A w \in WaitId : /\ wait[w].state = "idle" /\ wait[w].expected = 0
                          /\ wait[w].members = {}
    BY DEF Init, NoWait
  <1>2. \A w \in WaitId : Holding(w) = {} /\ ~ Answered(w)
    BY <1>1 DEF Holding, Answered
  <1>. QED  BY <1>1, <1>2 DEF Promise!Init

(* Every behaviour of the master, its clients and its replicas is, seen    *)
(* through the refinement mapping, one that WaitPromise allows: for any    *)
(* number of replicas, clients and WAITs, whatever bytes are counted and   *)
(* whichever connections end, an answer is given once and is true.         *)
THEOREM PromiseCorrect == Spec => KeepsPromise
  <1>1. Init => PromiseInv /\ Promise!Init
    BY PromiseInit, PromiseStart
  <1>2. TypeOK /\ Inv /\ PromiseInv /\ [Next]_vars => PromiseInv'
    BY PromiseStep DEF Inv
  <1>3. /\ TypeOK /\ Inv /\ PromiseInv /\ (TypeOK /\ Inv)' /\ [Next]_vars
        => [Promise!Next]_(Promise!vars)
    BY PromiseNext
  <1>. QED  BY <1>1, <1>2, <1>3, InvCorrect, PTL DEF Spec, KeepsPromise, Promise!Spec
=============================================================================
