-------------------------- MODULE ReplicationProofs --------------------------
(* Theorems about Replication, for any number of replicas, clients, keys   *)
(* and WAITs.                                                              *)
EXTENDS Replication, SequenceTheorems, FiniteSetTheorems, TLAPS

(* Sending a list of messages, and receiving one, keeps a stream's type.   *)
LEMMA SendType ==
    ASSUME NEW S, NEW q, q \in [Replica -> Seq(S)], NEW r \in Replica, NEW ms \in Seq(S)
    PROVE  [q EXCEPT ![r] = @ \o ms] \in [Replica -> Seq(S)]
  BY ConcatProperties

LEMMA ReceiveType ==
    ASSUME NEW S, NEW q, q \in [Replica -> Seq(S)], NEW r \in Replica, q[r] # <<>>
    PROVE  /\ [q EXCEPT ![r] = Tail(@)] \in [Replica -> Seq(S)]
           /\ Head(q[r]) \in S
  BY HeadTailProperties

(* The numbers of replicas the code counts are natural numbers.            *)
LEMMA CountType ==
    ASSUME TypeOK
    PROVE  /\ CountReplicas \in Nat
           /\ Cardinality(Registered \ Behind) \in Nat
  <1>1. Registered \in SUBSET Replica /\ Registered \ Behind \in SUBSET Replica
    BY DEF Registered
  <1>2. IsFiniteSet(Registered) /\ IsFiniteSet(Registered \ Behind)
    BY <1>1, FS_Subset, ReplicationAssumption
  <1>. QED  BY <1>2, FS_CardinalityType DEF CountReplicas

LEMMA NoWaitType == NoWait \in WaitRecord
  <1>1. (CHOOSE c \in Client : TRUE) \in Client
    BY ReplicationAssumption
  <1>. QED  BY <1>1 DEF NoWait, WaitRecord

LEMMA SetUpWaitType ==
    ASSUME TypeOK, NEW c \in Client, NEW count \in Count
    PROVE  SetUpWait(c, count) \in WaitRecord
  <1>1. /\ Smaller(count, CountReplicas) \in Nat
        /\ Cardinality(Registered \ Behind) \in Nat
    BY CountType, ReplicationAssumption DEF Smaller
  <1>2. /\ Behind \in SUBSET Replica /\ Registered \in SUBSET Replica
        /\ Owing \in SUBSET Replica
    BY DEF Behind, Registered, Owing
  <1>3. [r \in Replica |-> [k \in Key |-> PushedWrite(r, k)]] \in [Replica -> [Key -> Nat]]
    BY DEF TypeOK, PushedWrite
  <1>4. pushed \in [Replica -> Nat]
    BY DEF TypeOK
  <1>. QED  BY <1>1, <1>2, <1>3, <1>4 DEF SetUpWait, WaitRecord

LEMMA TimedOutType ==
    ASSUME NEW v \in WaitRecord
    PROVE  [v EXCEPT !.state = "timeout"] \in WaitRecord
  BY DEF WaitRecord

LEMMA UpdateReplicaAckType ==
    ASSUME NEW v \in WaitRecord, NEW r \in Replica, NEW n \in Nat
    PROVE  UpdateReplicaAck(v, r, n) \in WaitRecord
  <1>1. v.ready + (IF n >= v.goal[r] THEN 1 ELSE 0) \in Nat
    BY DEF WaitRecord
  <1>. QED  BY <1>1 DEF UpdateReplicaAck, WaitRecord

(* The types hold initially and are kept by every action.                  *)
LEMMA TypeInit == Init => TypeOK
  <1>1. <<>> \in Seq(ToReplicaMsg) /\ <<>> \in Seq(ToMasterMsg)
    BY EmptySeq
  <1>. QED  BY <1>1, NoWaitType DEF Init, TypeOK, RState

LEMMA TypeStep == TypeOK /\ [Next]_vars => TypeOK'
  <1>. SUFFICES ASSUME TypeOK, [Next]_vars PROVE TypeOK'
    OBVIOUS
  <1>. USE ReplicationAssumption
  <1>1. ASSUME NEW c \in Client, NEW k \in Key, NEW h \in Hole, Set(c, k, h)
        PROVE  TypeOK'
    <2>1. \A r \in Replica : SetMsg(k, nsets + 1, pushed[r] + SetSize) \in ToReplicaMsg
      BY DEF TypeOK, SetMsg, ToReplicaMsg
    <2>2. toReplica' \in [Replica -> Seq(ToReplicaMsg)]
      BY <1>1, <2>1 DEF TypeOK, Enqueue, Set
    <2>. QED  BY <1>1, <2>2 DEF TypeOK, Set, replicaVars
  <1>2. ASSUME NEW c \in Client, NEW count \in Count, NEW w \in WaitId, Wait(c, count, w)
        PROVE  TypeOK'
    <2>1. \A r \in Replica : GetAckMsg(pushed[r] + GetAckSize) \in ToReplicaMsg
      BY DEF TypeOK, GetAckMsg, ToReplicaMsg
    <2>2. toReplica' \in [Replica -> Seq(ToReplicaMsg)]
      BY <1>2, <2>1 DEF TypeOK, Enqueue, Wait
    <2>3. wait' \in [WaitId -> WaitRecord]
      BY <1>2, SetUpWaitType DEF TypeOK, Wait
    <2>4. pushed' \in [Replica -> Nat]
      BY <1>2 DEF TypeOK, Wait
    <2>. QED  BY <1>2, <2>2, <2>3, <2>4 DEF TypeOK, Wait, replicaVars
  <1>3. ASSUME NEW c \in Client, ClientCloses(c)
        PROVE  TypeOK'
    BY <1>3 DEF TypeOK, ClientCloses, masterVars, replicaVars
  <1>4. ASSUME NEW w \in WaitId, WaitTimeout(w)
        PROVE  TypeOK'
    <2>1. [wait[w] EXCEPT !.state = "timeout"] \in WaitRecord
      BY TimedOutType DEF TypeOK
    <2>3. wait' \in [WaitId -> WaitRecord]
      BY <1>4, <2>1 DEF TypeOK, WaitTimeout
    <2>2. up' \in BOOLEAN
      BY <1>4 DEF TypeOK, WaitTimeout, Reply
    <2>. QED  BY <1>4, <2>2, <2>3 DEF TypeOK, WaitTimeout, masterVars, replicaVars
  <1>5. ASSUME NEW r \in Replica, ReplicaStep(r)
        PROVE  TypeOK'
    <2>. USE DEF TypeOK
    <2>0. \A t \in {"PONG", "OK", "FULLRESYNC", "RDB"} : Plain(t) \in ToReplicaMsg
      BY DEF Plain, ToReplicaMsg
    <2>1. CASE MasterPing(r)
      <3>1. <<Plain("PONG")>> \in Seq(ToReplicaMsg)
        BY <2>0
      <3>. QED  BY <2>1, <3>1, SendType, ReceiveType
                DEF MasterPing, Reads, Read, Tell, masterVars, replicaVars
    <2>2. CASE MasterReplConf(r)
      <3>1. <<Plain("OK")>> \in Seq(ToReplicaMsg)
        BY <2>0
      <3>. QED  BY <2>2, <3>1, SendType, ReceiveType
                DEF MasterReplConf, AddReplica, Reads, Read, Tell, replicaVars
    <2>3. CASE MasterPsync(r)
      <3>1. <<Plain("FULLRESYNC"), Plain("RDB")>> \in Seq(ToReplicaMsg)
        BY <2>0
      <3>. QED  BY <2>3, <3>1, SendType, ReceiveType
                DEF MasterPsync, Reads, Read, Tell, replicaVars
    <2>4. CASE MasterAck(r)
      <3>. DEFINE n == Head(toMaster[r]).offset
      <3>4. /\ Head(toMaster[r]) \in ToMasterMsg
            /\ toMaster' \in [Replica -> Seq(ToMasterMsg)]
        BY <2>4, ReceiveType DEF MasterAck, Reads, Read
      <3>1. n \in Nat
        BY <2>4, <3>4 DEF MasterAck, ToMasterMsg
      <3>5. \A w \in WaitId : UpdateReplicaAck(wait[w], r, n) \in WaitRecord
        BY <3>1, UpdateReplicaAckType
      <3>. HIDE DEF n
      <3>2. acked' \in [Replica -> Nat] /\ wait' \in [WaitId -> WaitRecord]
        <4>1. \/ /\ acked' = [acked EXCEPT ![r] = n]
                 /\ wait' = [w \in WaitId |-> UpdateReplicaAck(wait[w], r, n)]
              \/ UNCHANGED <<acked, wait>>
          BY <2>4 DEF MasterAck, n
        <4>2. [acked EXCEPT ![r] = n] \in [Replica -> Nat]
          BY <3>1
        <4>3. [w \in WaitId |-> UpdateReplicaAck(wait[w], r, n)] \in [WaitId -> WaitRecord]
          BY <3>5
        <4>. QED  BY <4>1, <4>2, <4>3
      <3>3. up' \in BOOLEAN /\ reg' \in [Replica -> {"none", "MET", "WRITE"}]
        BY <2>4 DEF MasterAck, Reply, AddReplica
      <3>. QED  BY <2>4, <3>2, <3>3, <3>4 DEF MasterAck, replicaVars
    <2>5. CASE MasterCloses(r)
      BY <2>5, EmptySeq DEF MasterCloses, replicaVars
    <2>6. CASE MasterWritesToDead(r)
      BY <2>6 DEF MasterWritesToDead, masterVars, replicaVars
    <2>7. CASE ReplicaConnects(r)
      <3>1. <<Plain("PING")>> \in Seq(ToMasterMsg)
        BY DEF Plain, ToMasterMsg
      <3>. QED  BY <2>7, <3>1, SendType
                DEF ReplicaConnects, ReplicaSay, masterVars, replicaVars
    <2>8. CASE ReplicaHandshake(r)
      <3>1. /\ Handshake[rstate[r]].say \in Seq(ToMasterMsg)
            /\ Handshake[rstate[r]].next \in RState
        <4>1. /\ <<Plain("REPLCONF")>> \in Seq(ToMasterMsg)
              /\ <<Plain("PSYNC")>> \in Seq(ToMasterMsg)
              /\ <<>> \in Seq(ToMasterMsg)
          BY EmptySeq DEF Plain, ToMasterMsg
        <4>2. rstate[r] \in RState \ {"WAIT_SERVER_COMMANDS"}
          BY <2>8 DEF ReplicaHandshake
        <4>3. \A s \in RState \ {"WAIT_SERVER_COMMANDS"} :
                /\ Handshake[s].say \in {<<>>, <<Plain("REPLCONF")>>, <<Plain("PSYNC")>>}
                /\ Handshake[s].next \in RState
          BY DEF Handshake, RState
        <4>. QED  BY <4>1, <4>2, <4>3
      <3>2. toReplica' \in [Replica -> Seq(ToReplicaMsg)]
        BY <2>8, ReceiveType DEF ReplicaHandshake, ReplicaReads, ReplicaRead
      <3>3. toMaster' \in [Replica -> Seq(ToMasterMsg)]
        <4>. DEFINE ms == Handshake[rstate[r]].say
        <4>1. \/ toMaster' = toMaster
              \/ toMaster' = [toMaster EXCEPT ![r] = @ \o ms]
          BY <2>8 DEF ReplicaHandshake, ReplicaSay
        <4>2. ms \in Seq(ToMasterMsg)
          BY <3>1
        <4>. HIDE DEF ms
        <4>3. [toMaster EXCEPT ![r] = @ \o ms] \in [Replica -> Seq(ToMasterMsg)]
          BY <4>2, SendType
        <4>. QED  BY <4>1, <4>3
      <3>4. rstate' \in [Replica -> RState]
        BY <2>8, <3>1 DEF ReplicaHandshake
      <3>. QED  BY <2>8, <3>2, <3>3, <3>4 DEF ReplicaHandshake, masterVars
    <2>9. CASE ReplicaProcess(r)
      <3>. DEFINE m == Head(toReplica[r])
      <3>1. m \in ToReplicaMsg /\ toReplica' \in [Replica -> Seq(ToReplicaMsg)]
        BY <2>9, ReceiveType DEF ReplicaProcess, ReplicaReads, ReplicaRead
      <3>2. m.type = "SET" => m.key \in Key /\ m.write \in Nat
        BY <3>1 DEF ToReplicaMsg
      <3>3. rstore' \in [Replica -> [Key -> Nat]]
        BY <2>9, <3>2 DEF ReplicaProcess
      <3>4. bytesIn' \in [Replica -> Nat]
        BY <2>9 DEF ReplicaProcess, Size
      <3>5. /\ <<AckMsg(bytesIn[r])>> \in Seq(ToMasterMsg)
            /\ <<>> \in Seq(ToMasterMsg)
        BY EmptySeq DEF AckMsg, ToMasterMsg
      <3>6. toMaster' \in [Replica -> Seq(ToMasterMsg)]
        BY <2>9, <3>5, SendType DEF ReplicaProcess, ReplicaSay
      <3>. QED  BY <2>9, <3>1, <3>3, <3>4, <3>6 DEF ReplicaProcess, masterVars
    <2>10. CASE ReplicaJams(r)
      BY <2>10 DEF ReplicaJams, masterVars
    <2>11. CASE ReplicaDies(r)
      BY <2>11, EmptySeq DEF ReplicaDies, masterVars, replicaVars
    <2>. QED  BY <1>5, <2>1, <2>2, <2>3, <2>4, <2>5, <2>6, <2>7, <2>8, <2>9, <2>10,
                 <2>11
              DEF ReplicaStep
  <1>6. CASE UNCHANGED vars
    BY <1>6 DEF TypeOK, vars, masterVars, replicaVars
  <1>. QED  BY <1>1, <1>2, <1>3, <1>4, <1>5, <1>6 DEF Next

(* Every reachable state has the types of TypeOK: in particular the byte   *)
(* counters and the number of ready replicas are natural numbers, and a    *)
(* stream carries only messages its sender's talker builds.                *)
THEOREM TypeCorrect == Spec => []TypeOK
  BY TypeInit, TypeStep, PTL DEF Spec

-----------------------------------------------------------------------------
(* The inductive invariant.  WAIT compares two byte counters, and is meant *)
(* to tell what data a replica holds.  What ties the two together is the   *)
(* order of the stream: HandshakeInv says where the pushed commands start  *)
(* in it, StreamInv that each lies at its own stretch of the byte count    *)
(* and that writes come in order, AckInv that an acknowledgement reports   *)
(* bytes that were processed, and Covers that a write a replica does not   *)
(* have yet is still in its stream, below a given byte count.              *)

Only(s, t) == Len(s) = 1 /\ s[1].type = t
PushedFrom(s, n) == \A i \in 1..Len(s) : i >= n => s[i].type \in Pushed

AllAcks(s) == \A i \in 1..Len(s) : s[i].type = "ACK"

Exchange(r, ask, answer) ==
    \/ Only(toMaster[r], ask) /\ Len(toReplica[r]) = 0
    \/ Len(toMaster[r]) = 0 /\ Only(toReplica[r], answer)

Stage(r) ==
    /\ rstate[r] = "WAIT_FIRST_PONG" =>
         reg[r] = "none" /\ Exchange(r, "PING", "PONG")
    /\ rstate[r] = "WAIT_OK_FOR_REPLCONF_PORT" =>
         \/ reg[r] = "none" /\ Only(toMaster[r], "REPLCONF") /\ Len(toReplica[r]) = 0
         \/ reg[r] = "MET" /\ Len(toMaster[r]) = 0 /\ Only(toReplica[r], "OK")
    /\ rstate[r] = "WAIT_OK_FOR_REPLCONF_CAPA" =>
         reg[r] = "MET" /\ Exchange(r, "REPLCONF", "OK")
    /\ rstate[r] = "WAIT_FOR_PSYNC_ANSWER" =>
         \/ reg[r] = "MET" /\ Only(toMaster[r], "PSYNC") /\ Len(toReplica[r]) = 0
         \/ /\ reg[r] = "WRITE" /\ Len(toMaster[r]) = 0 /\ Len(toReplica[r]) >= 2
            /\ toReplica[r][1].type = "FULLRESYNC" /\ toReplica[r][2].type = "RDB"
            /\ PushedFrom(toReplica[r], 3)
    /\ rstate[r] = "WAIT_FOR_RDB_FILE_SYNC" =>
         /\ reg[r] = "WRITE" /\ Len(toMaster[r]) = 0 /\ Len(toReplica[r]) >= 1
         /\ toReplica[r][1].type = "RDB" /\ PushedFrom(toReplica[r], 2)
    /\ rstate[r] = "WAIT_SERVER_COMMANDS" =>
         /\ reg[r] = "WRITE" /\ PushedFrom(toReplica[r], 1)
         /\ AllAcks(toMaster[r])

HandshakeInv ==
    \A r \in Replica :
        /\ conn[r] = "off" => /\ reg[r] = "none" /\ rstate[r] = "WAIT_FIRST_PONG"
                              /\ toReplica[r] = <<>> /\ toMaster[r] = <<>>
        /\ conn[r] = "open" => Stage(r)
        /\ conn[r] # "closed" /\ reg[r] # "WRITE" => pushed[r] = 0

(* Every pushed command of the stream s lies above the count b, at or      *)
(* below the count p, and after the stretch of those before it.            *)
Stretch(s, b, p) ==
    \A i \in 1..Len(s) : s[i].type \in Pushed =>
        /\ b + Size(s[i]) <= s[i].end
        /\ s[i].end <= p
        /\ \A j \in 1..Len(s) :
             i < j /\ s[j].type \in Pushed => s[i].end + Size(s[j]) <= s[j].end

StreamInv ==
    \A r \in Replica : /\ bytesIn[r] <= pushed[r]
                       /\ conn[r] = "open" => Stretch(toReplica[r], bytesIn[r], pushed[r])

(* The SETs of the stream s come in the order of their writes, all newer   *)
(* than the values v of their keys and none newer than write n.            *)
Ordered(s, v, n) ==
    \A i \in 1..Len(s) : s[i].type = "SET" =>
        /\ v[s[i].key] < s[i].write
        /\ s[i].write <= n
        /\ \A j \in 1..Len(s) : i < j /\ s[j].type = "SET" => s[i].write < s[j].write

OrderInv ==
    /\ \A k \in Key : store[k] <= nsets
    /\ \A r \in Replica : /\ \A k \in Key : rstore[r][k] <= nsets
                          /\ conn[r] = "open" => Ordered(toReplica[r], rstore[r], nsets)

(* The acknowledgements of the stream s report byte counts from a to b,    *)
(* and never less than one before.                                         *)
Reports(s, a, b) ==
    \A i \in 1..Len(s) : s[i].type = "ACK" =>
        /\ a <= s[i].offset
        /\ s[i].offset <= b
        /\ \A j \in 1..Len(s) :
             i < j /\ s[j].type = "ACK" => s[i].offset <= s[j].offset

AckInv ==
    \A r \in Replica :
        acked[r] <= bytesIn[r] /\ Reports(toMaster[r], acked[r], bytesIn[r])

(* The write n of key k is in the stream s, at or below the byte count g.  *)
Carries(s, k, n, g) ==
    \E i \in 1..Len(s) : /\ s[i].type = "SET" /\ s[i].key = k /\ s[i].write = n
                         /\ s[i].end <= g

(* If the replica has not the write n of k, that is still to come, at or   *)
(* below the byte count g.                                                 *)
Covers(r, k, n, g) ==
    rstore[r][k] < n =>
        /\ bytesIn[r] < g
        /\ conn[r] # "off"
        /\ conn[r] = "open" => Carries(toReplica[r], k, n, g)

StoreInv == \A r \in Replica, k \in Key : Covers(r, k, PushedWrite(r, k), pushed[r])

DueInv ==
    \A w \in WaitId, r \in Replica, k \in Key :
        Covers(r, k, wait[w].due[r][k], wait[w].goal[r])

(* What a WAIT counted is a set of its replicas that hold its writes, none *)
(* of which it still listens for.                                          *)
CountInv ==
    \A w \in WaitId : \E S \in SUBSET wait[w].members :
        /\ Cardinality(S) = wait[w].ready
        /\ \A r \in S : Holds(r, w)
        /\ Pending(w) => S \cap wait[w].waitlist = {}

WaitlistInv == \A w \in WaitId : wait[w].waitlist \subseteq wait[w].members

Inv == /\ HandshakeInv /\ StreamInv /\ OrderInv /\ AckInv /\ StoreInv
       /\ DueInv /\ CountInv /\ WaitlistInv

-----------------------------------------------------------------------------
(* What a step does to one stream.  Grows: a command was pushed.  Shrinks: *)
(* the first message was taken.                                            *)

Grown(s, t, m) ==
    /\ Len(t) = Len(s) + 1
    /\ \A i \in 1..Len(s) : t[i] = s[i]
    /\ t[Len(s) + 1] = m

Shrunk(s, t) ==
    /\ Len(s) >= 1
    /\ Len(t) = Len(s) - 1
    /\ \A i \in 1..Len(s) - 1 : t[i] = s[i + 1]

Grows(q, m) == Grown(toReplica[q], toReplica'[q], m)
Shrinks(q) == Shrunk(toReplica[q], toReplica'[q]) /\ Head(toReplica[q]) = toReplica[q][1]

LEMMA LenType ==
    ASSUME TypeOK, NEW q \in Replica
    PROVE  /\ Len(toReplica[q]) \in Nat /\ Len(toMaster[q]) \in Nat
           /\ \A i \in 1..Len(toReplica[q]) : toReplica[q][i] \in ToReplicaMsg
           /\ \A i \in 1..Len(toMaster[q]) : toMaster[q][i] \in ToMasterMsg
  BY LenProperties, ElementOfSeq DEF TypeOK

LEMMA SetStream ==
    ASSUME TypeOK, NEW c \in Client, NEW k \in Key, NEW h \in Hole, Set(c, k, h), NEW q \in Replica
    PROVE  IF reg[q] = "WRITE"
           THEN /\ pushed'[q] = pushed[q] + SetSize
                /\ Grows(q, SetMsg(k, nsets + 1, pushed[q] + SetSize))
           ELSE pushed'[q] = pushed[q] /\ toReplica'[q] = toReplica[q]
  <1>1. SetMsg(k, nsets + 1, pushed[q] + SetSize) \in ToReplicaMsg
    BY ReplicationAssumption DEF TypeOK, SetMsg, ToReplicaMsg
  <1>2. toReplica[q] \in Seq(ToReplicaMsg)
    BY DEF TypeOK
  <1>. QED  BY <1>1, <1>2, AppendProperties DEF Set, Enqueue, Grows, Grown

LEMMA WaitStream ==
    ASSUME TypeOK, NEW c \in Client, NEW count \in Count, NEW w \in WaitId,
           Wait(c, count, w), NEW q \in Replica
    PROVE  \/ /\ reg[q] \in {"MET", "WRITE"} /\ acked[q] < pushed[q]
              /\ pushed'[q] = pushed[q] + GetAckSize
              /\ Grows(q, GetAckMsg(pushed[q] + GetAckSize))
           \/ pushed'[q] = pushed[q] /\ toReplica'[q] = toReplica[q]
  <1>1. GetAckMsg(pushed[q] + GetAckSize) \in ToReplicaMsg
    BY ReplicationAssumption DEF TypeOK, GetAckMsg, ToReplicaMsg
  <1>2. toReplica[q] \in Seq(ToReplicaMsg)
    BY DEF TypeOK
  <1>3. q \in Behind => reg[q] \in {"MET", "WRITE"} /\ acked[q] < pushed[q]
    BY DEF Behind, Registered
  <1>. QED  BY <1>1, <1>2, <1>3, AppendProperties DEF Wait, Enqueue, Grows, Grown

LEMMA ReadStream ==
    ASSUME TypeOK, NEW r \in Replica, ReplicaReads(r), ReplicaRead(r)
    PROVE  /\ Shrinks(r)
           /\ \A q \in Replica : q # r => toReplica'[q] = toReplica[q]
  <1>1. toReplica[r] \in Seq(ToReplicaMsg) /\ toReplica[r] # <<>>
    BY DEF TypeOK, ReplicaReads
  <1>2. toReplica' = [toReplica EXCEPT ![r] = Tail(toReplica[r])]
    BY DEF ReplicaRead
  <1>3. toReplica'[r] = Tail(toReplica[r])
    BY <1>2 DEF TypeOK
  <1>4. Len(toReplica[r]) \in Nat \ {0}
    BY <1>1, EmptySeq
  <1>5. Head(toReplica[r]) = toReplica[r][1]
    BY <1>1, <1>4
  <1>. QED  BY <1>1, <1>2, <1>3, <1>4, <1>5, HeadTailProperties DEF TypeOK, Shrinks, Shrunk

(* The master's talker queues answers that are no pushed commands.         *)
LEMMA TellStream ==
    ASSUME TypeOK, NEW r \in Replica, NEW ms \in Seq(ToReplicaMsg), Tell(r, ms)
    PROVE  /\ Len(toReplica'[r]) = Len(toReplica[r]) + Len(ms)
           /\ \A i \in 1..Len(toReplica[r]) : toReplica'[r][i] = toReplica[r][i]
           /\ \A i \in 1..Len(ms) : toReplica'[r][Len(toReplica[r]) + i] = ms[i]
           /\ \A q \in Replica : q # r => toReplica'[q] = toReplica[q]
  <1>1. toReplica[r] \in Seq(ToReplicaMsg) /\ Len(ms) \in Nat /\ Len(toReplica[r]) \in Nat
    BY LenProperties DEF TypeOK
  <1>2. toReplica'[r] = toReplica[r] \o ms
    BY DEF TypeOK, Tell
  <1>3. \A q \in Replica : q # r => toReplica'[q] = toReplica[q]
    BY DEF TypeOK, Tell
  <1>4. \A i \in 1..Len(ms) : Len(toReplica[r]) + i \in 1..Len(toReplica[r]) + Len(ms)
    BY <1>1
  <1>. QED  BY <1>1, <1>2, <1>3, <1>4, ConcatProperties

Answers(ms) == \A i \in 1..Len(ms) : ms[i].type \notin Pushed

LEMMA MasterAnswers ==
    ASSUME TypeOK, NEW r \in Replica,
           MasterPing(r) \/ MasterReplConf(r) \/ MasterPsync(r)
    PROVE  \E ms \in Seq(ToReplicaMsg) : Answers(ms) /\ Tell(r, ms)
  <1>1. /\ <<Plain("PONG")>> \in Seq(ToReplicaMsg) /\ Answers(<<Plain("PONG")>>)
        /\ <<Plain("OK")>> \in Seq(ToReplicaMsg) /\ Answers(<<Plain("OK")>>)
        /\ <<Plain("FULLRESYNC"), Plain("RDB")>> \in Seq(ToReplicaMsg)
        /\ Answers(<<Plain("FULLRESYNC"), Plain("RDB")>>)
    BY DEF Plain, ToReplicaMsg, Answers, Pushed
  <1>. QED  BY <1>1 DEF MasterPing, MasterReplConf, MasterPsync

(* A typed stream: its length, and the byte counts and the writes of its   *)
(* commands, are numbers.                                                  *)
Typed(s) ==
    /\ Len(s) \in Nat
    /\ \A i \in 1..Len(s) :
         /\ s[i].type \in Pushed => s[i].end \in Nat
         /\ s[i].type = "SET" => s[i].key \in Key /\ s[i].write \in Nat

LEMMA TypedStream ==
    ASSUME TypeOK, NEW q \in Replica
    PROVE  Typed(toReplica[q])
  BY LenType DEF ToReplicaMsg, Pushed, Typed

LEMMA SizeType == \A m : Size(m) \in Nat \ {0}
  BY ReplicationAssumption DEF Size

LEMMA StretchGrown ==
    ASSUME NEW s, NEW t, NEW m, NEW b \in Nat, NEW p \in Nat, Typed(s), Grown(s, t, m),
           m.end = p + Size(m), b <= p, Stretch(s, b, p)
    PROVE  Stretch(t, b, p + Size(m))
  <1>1. Len(s) \in Nat /\ Size(m) \in Nat /\ Len(t) = Len(s) + 1 /\ t[Len(s) + 1] = m
    BY SizeType DEF Typed, Grown
  <1>2. \A i \in 1..Len(t) : i # Len(s) + 1 => i \in 1..Len(s) /\ t[i] = s[i]
    BY <1>1 DEF Grown
  <1>3. ASSUME NEW i \in 1..Len(t), t[i].type \in Pushed
        PROVE  b + Size(t[i]) <= t[i].end /\ t[i].end <= p + Size(m)
    <2>1. CASE i = Len(s) + 1
      BY <1>1, <2>1
    <2>2. CASE i # Len(s) + 1
      <3>1. i \in 1..Len(s) /\ t[i] = s[i]
        BY <1>2, <2>2
      <3>2. b + Size(s[i]) <= s[i].end /\ s[i].end <= p
        BY <1>3, <3>1 DEF Stretch
      <3>3. s[i].end \in Nat
        BY <1>3, <3>1 DEF Typed
      <3>. QED  BY <1>1, <3>1, <3>2, <3>3
    <2>. QED  BY <2>1, <2>2
  <1>4. ASSUME NEW i \in 1..Len(t), NEW j \in 1..Len(t), i < j,
               t[i].type \in Pushed, t[j].type \in Pushed
        PROVE  t[i].end + Size(t[j]) <= t[j].end
    <2>1. i # Len(s) + 1
      BY <1>1, <1>4
    <2>2. i \in 1..Len(s) /\ t[i] = s[i] /\ s[i].end <= p /\ s[i].end \in Nat
      BY <1>2, <1>4, <2>1 DEF Stretch, Typed
    <2>3. CASE j = Len(s) + 1
      BY <1>1, <2>2, <2>3
    <2>4. CASE j # Len(s) + 1
      BY <1>2, <1>4, <2>2, <2>4 DEF Stretch
    <2>. QED  BY <2>3, <2>4
  <1>. QED  BY <1>3, <1>4 DEF Stretch

(* Two commands behind one another take the room of both.                  *)
LEMMA RoomAdds ==
    ASSUME NEW b \in Nat, NEW x \in Nat, NEW y \in Nat, NEW d \in Nat, NEW e \in Nat,
           b + x <= d, d + y <= e
    PROVE  (b + x) + y <= e
  OBVIOUS

LEMMA StretchShrunk ==
    ASSUME NEW s, NEW t, NEW b \in Nat, NEW c \in Nat, NEW p \in Nat, Typed(s), Shrunk(s, t),
           \/ c = b
           \/ s[1].type \in Pushed /\ c = b + Size(s[1]),
           Stretch(s, b, p)
    PROVE  Stretch(t, c, p) /\ (s[1].type \in Pushed => b + Size(s[1]) <= s[1].end)
  <1>1. Len(s) \in Nat /\ 1 \in 1..Len(s)
    BY DEF Typed, Shrunk
  <1>2. \A i \in 1..Len(t) : i + 1 \in 1..Len(s) /\ 1 < i + 1 /\ t[i] = s[i + 1]
    BY <1>1 DEF Shrunk
  <1>3. ASSUME NEW i \in 1..Len(t), t[i].type \in Pushed
        PROVE  c + Size(t[i]) <= t[i].end /\ t[i].end <= p
    <2>1. /\ i + 1 \in 1..Len(s) /\ 1 < i + 1 /\ t[i] = s[i + 1]
          /\ b + Size(s[i + 1]) <= s[i + 1].end /\ s[i + 1].end <= p
      BY <1>2, <1>3 DEF Stretch
    <2>2. CASE s[1].type \in Pushed /\ c = b + Size(s[1])
      <3>1. /\ b + Size(s[1]) <= s[1].end
            /\ s[1].end + Size(s[i + 1]) <= s[i + 1].end
        BY <1>1, <1>3, <2>1, <2>2 DEF Stretch
      <3>2. /\ s[1].end \in Nat /\ s[i + 1].end \in Nat
            /\ Size(s[1]) \in Nat /\ Size(s[i + 1]) \in Nat
        BY <1>1, <1>3, <2>1, <2>2, SizeType DEF Typed
      <3>3. (b + Size(s[1])) + Size(s[i + 1]) <= s[i + 1].end
        BY <3>1, <3>2, RoomAdds
      <3>. QED  BY <2>1, <2>2, <3>3
    <2>. QED  BY <2>1, <2>2
  <1>4. ASSUME NEW i \in 1..Len(t), NEW j \in 1..Len(t), i < j,
               t[i].type \in Pushed, t[j].type \in Pushed
        PROVE  t[i].end + Size(t[j]) <= t[j].end
    <2>1. i + 1 < j + 1
      BY <1>1, <1>4 DEF Shrunk
    <2>. QED  BY <1>2, <1>4, <2>1 DEF Stretch
  <1>. QED  BY <1>1, <1>3, <1>4 DEF Stretch

(* Answers in front of, or behind, the pushed commands do not matter.      *)
LEMMA StretchAnswered ==
    ASSUME NEW s, NEW t, NEW b \in Nat, NEW p \in Nat, Typed(s), Stretch(s, b, p),
           \A i \in 1..Len(t) : \/ i \in 1..Len(s) /\ t[i] = s[i]
                                \/ t[i].type \notin Pushed
    PROVE  Stretch(t, b, p)
  BY DEF Stretch, Typed

LEMMA StreamStep ==
    ASSUME TypeOK, HandshakeInv, StreamInv, [Next]_vars
    PROVE  StreamInv'
  <1>. USE ReplicationAssumption
  <1>. SUFFICES ASSUME NEW q \in Replica
                PROVE  /\ (bytesIn[q] <= pushed[q])'
                       /\ conn'[q] = "open" => Stretch(toReplica'[q], bytesIn'[q], pushed'[q])
    BY DEF StreamInv
  <1>0. /\ Len(toReplica[q]) \in Nat
        /\ \A i \in 1..Len(toReplica[q]) : toReplica[q][i] \in ToReplicaMsg
        /\ bytesIn[q] \in Nat /\ pushed[q] \in Nat
        /\ bytesIn[q] <= pushed[q]
        /\ conn[q] = "open" => Stretch(toReplica[q], bytesIn[q], pushed[q])
    BY LenType DEF TypeOK, StreamInv
  <1>t. \A i \in 1..Len(toReplica[q]) : toReplica[q][i].type \in Pushed =>
            toReplica[q][i].end \in Nat /\ Size(toReplica[q][i]) \in Nat
    BY <1>0 DEF ToReplicaMsg, Pushed, Size
  <1>1. ASSUME NEW c \in Client, NEW k \in Key, NEW h \in Hole, Set(c, k, h)
        PROVE  /\ (bytesIn[q] <= pushed[q])'
               /\ conn'[q] = "open" => Stretch(toReplica'[q], bytesIn'[q], pushed'[q])
    <2>1. bytesIn'[q] = bytesIn[q] /\ conn'[q] = conn[q]
      BY <1>1 DEF Set, replicaVars
    <2>2. CASE reg[q] = "WRITE"
      <3>. DEFINE m == SetMsg(k, nsets + 1, pushed[q] + SetSize)
      <3>1. pushed'[q] = pushed[q] + SetSize /\ Grows(q, m)
        BY <1>1, <2>2, SetStream
      <3>2. m.type = "SET" /\ Size(m) = SetSize /\ m.end = pushed[q] + SetSize
        BY DEF SetMsg, Size, Pushed
      <3>. HIDE DEF m
      <3>. QED  BY <1>0, <2>1, <3>1, <3>2, StretchGrown, TypedStream DEF Grows
    <2>3. CASE reg[q] # "WRITE"
      <3>1. pushed'[q] = pushed[q] /\ toReplica'[q] = toReplica[q]
        BY <1>1, <2>3, SetStream
      <3>. QED  BY <1>0, <2>1, <3>1 DEF Stretch
    <2>. QED  BY <2>2, <2>3
  <1>2. ASSUME NEW c \in Client, NEW count \in Count, NEW w \in WaitId, Wait(c, count, w)
        PROVE  /\ (bytesIn[q] <= pushed[q])'
               /\ conn'[q] = "open" => Stretch(toReplica'[q], bytesIn'[q], pushed'[q])
    <2>1. bytesIn'[q] = bytesIn[q] /\ conn'[q] = conn[q]
      BY <1>2 DEF Wait, replicaVars
    <2>. DEFINE m == GetAckMsg(pushed[q] + GetAckSize)
    <2>2. CASE pushed'[q] = pushed[q] + GetAckSize /\ Grows(q, m)
      <3>2. m.type = "GETACK" /\ Size(m) = GetAckSize /\ m.end = pushed[q] + GetAckSize
        BY DEF GetAckMsg, Size
      <3>. HIDE DEF m
      <3>. QED  BY <1>0, <2>1, <2>2, <3>2, StretchGrown, TypedStream DEF Grows
    <2>3. CASE pushed'[q] = pushed[q] /\ toReplica'[q] = toReplica[q]
      BY <1>0, <2>1, <2>3 DEF Stretch
    <2>. QED  BY <1>2, <2>2, <2>3, WaitStream
  <1>3. ASSUME NEW r \in Replica, MasterPing(r) \/ MasterReplConf(r) \/ MasterPsync(r)
        PROVE  /\ (bytesIn[q] <= pushed[q])'
               /\ conn'[q] = "open" => Stretch(toReplica'[q], bytesIn'[q], pushed'[q])
    <2>1. bytesIn' = bytesIn /\ conn' = conn /\ pushed' = pushed
      BY <1>3 DEF MasterPing, MasterReplConf, MasterPsync, masterVars, replicaVars
    <2>2. PICK ms \in Seq(ToReplicaMsg) : Answers(ms) /\ Tell(r, ms)
      BY <1>3, MasterAnswers
    <2>3. CASE q = r
      <3>1. \A i \in 1..Len(toReplica'[q]) :
               \/ i \in 1..Len(toReplica[q]) /\ toReplica'[q][i] = toReplica[q][i]
               \/ toReplica'[q][i].type \notin Pushed
        <4>1. Len(ms) \in Nat
          BY LenProperties
        <4>2. /\ Len(toReplica'[q]) = Len(toReplica[q]) + Len(ms)
              /\ \A i \in 1..Len(toReplica[q]) : toReplica'[q][i] = toReplica[q][i]
              /\ \A j \in 1..Len(ms) : toReplica'[q][Len(toReplica[q]) + j] = ms[j]
          BY <2>2, <2>3, TellStream
        <4>3. ASSUME NEW i \in 1..Len(toReplica'[q]), i \notin 1..Len(toReplica[q])
              PROVE  toReplica'[q][i].type \notin Pushed
          <5>. DEFINE j == i - Len(toReplica[q])
          <5>1. j \in 1..Len(ms) /\ Len(toReplica[q]) + j = i
            BY <1>0, <4>1, <4>2, <4>3
          <5>. QED  BY <2>2, <4>2, <5>1 DEF Answers
        <4>. QED  BY <4>2, <4>3
      <3>. QED  BY <1>0, <2>1, <3>1, StretchAnswered, TypedStream
    <2>4. CASE q # r
      BY <1>0, <2>1, <2>2, <2>4, TellStream DEF Stretch
    <2>. QED  BY <2>3, <2>4
  <1>4. ASSUME NEW r \in Replica, ReplicaConnects(r) \/ ReplicaDies(r) \/ MasterCloses(r)
        PROVE  /\ (bytesIn[q] <= pushed[q])'
               /\ conn'[q] = "open" => Stretch(toReplica'[q], bytesIn'[q], pushed'[q])
    <2>1. bytesIn' = bytesIn /\ pushed' = pushed
      BY <1>4 DEF ReplicaConnects, ReplicaDies, MasterCloses, masterVars, replicaVars
    <2>2. CASE q = r
      <3>1. conn'[q] = "open" => Len(toReplica'[q]) = 0
        BY <1>4, <2>2, EmptySeq
           DEF ReplicaConnects, ReplicaDies, MasterCloses, HandshakeInv, TypeOK
      <3>. QED  BY <1>0, <2>1, <3>1 DEF Stretch
    <2>3. CASE q # r
      <3>1. conn'[q] = conn[q] /\ toReplica'[q] = toReplica[q]
        BY <1>4, <2>3 DEF ReplicaConnects, ReplicaDies, MasterCloses, TypeOK
      <3>. QED  BY <1>0, <2>1, <3>1 DEF Stretch
    <2>. QED  BY <2>2, <2>3
  <1>5. ASSUME NEW r \in Replica, ReplicaHandshake(r)
        PROVE  /\ (bytesIn[q] <= pushed[q])'
               /\ conn'[q] = "open" => Stretch(toReplica'[q], bytesIn'[q], pushed'[q])
    <2>1. bytesIn' = bytesIn /\ conn' = conn /\ pushed' = pushed
      BY <1>5 DEF ReplicaHandshake, masterVars
    <2>2. CASE q = r
      <3>1. Shrinks(q)
        BY <1>5, <2>2, ReadStream DEF ReplicaHandshake
      <3>. QED  BY <1>0, <2>1, <3>1, StretchShrunk, TypedStream DEF Shrinks
    <2>3. CASE q # r
      BY <1>0, <1>5, <2>1, <2>3, ReadStream DEF Stretch, ReplicaHandshake
    <2>. QED  BY <2>2, <2>3
  <1>6. ASSUME NEW r \in Replica, ReplicaProcess(r)
        PROVE  /\ (bytesIn[q] <= pushed[q])'
               /\ conn'[q] = "open" => Stretch(toReplica'[q], bytesIn'[q], pushed'[q])
    <2>1. conn' = conn /\ pushed' = pushed
      BY <1>6 DEF ReplicaProcess, masterVars
    <2>2. CASE q = r
      <3>1. Shrinks(q)
        BY <1>6, <2>2, ReadStream DEF ReplicaProcess
      <3>2. conn[q] = "open" /\ toReplica[q][1].type \in Pushed
        BY <1>0, <1>6, <2>2, <3>1
           DEF ReplicaProcess, ReplicaReads, HandshakeInv, Stage, PushedFrom, Shrinks
      <3>3. bytesIn'[q] = bytesIn[q] + Size(toReplica[q][1])
        BY <1>6, <2>2, <3>1, <3>2 DEF ReplicaProcess, Shrinks, TypeOK
      <3>4. bytesIn'[q] \in Nat
        BY <1>0, <3>3, SizeType
      <3>5. /\ Stretch(toReplica'[q], bytesIn'[q], pushed[q])
            /\ bytesIn'[q] <= toReplica[q][1].end
        BY <1>0, <3>1, <3>2, <3>3, <3>4, StretchShrunk, TypedStream DEF Shrinks
      <3>6. toReplica[q][1].end <= pushed[q] /\ toReplica[q][1].end \in Nat
        BY <1>0, <3>1, <3>2, TypedStream DEF Stretch, Shrinks, Shrunk, Typed
      <3>. QED  BY <1>0, <2>1, <3>4, <3>5, <3>6
    <2>3. CASE q # r
      <3>1. bytesIn'[q] = bytesIn[q] /\ toReplica'[q] = toReplica[q]
        BY <1>6, <2>3, ReadStream DEF ReplicaProcess, TypeOK
      <3>. QED  BY <1>0, <2>1, <3>1 DEF Stretch
    <2>. QED  BY <2>2, <2>3
  <1>7. ASSUME \/ \E c \in Client : ClientCloses(c)
               \/ \E w \in WaitId : WaitTimeout(w)
               \/ \E r \in Replica : MasterAck(r) \/ MasterWritesToDead(r) \/ ReplicaJams(r)
               \/ UNCHANGED vars
        PROVE  /\ (bytesIn[q] <= pushed[q])'
               /\ conn'[q] = "open" => Stretch(toReplica'[q], bytesIn'[q], pushed'[q])
    <2>1. UNCHANGED <<conn, pushed, bytesIn, toReplica>>
      BY <1>7 DEF ClientCloses, WaitTimeout, MasterAck, MasterWritesToDead, ReplicaJams, vars,
                  masterVars, replicaVars
    <2>. QED  BY <1>0, <2>1 DEF Stretch
  <1>. QED  BY <1>1, <1>2, <1>3, <1>4, <1>5, <1>6, <1>7 DEF Next, ReplicaStep

-----------------------------------------------------------------------------
(* The handshake goes in step.                                             *)

LEMMA ReadMaster ==
    ASSUME TypeOK, NEW r \in Replica, Reads(r), Read(r)
    PROVE  /\ Shrunk(toMaster[r], toMaster'[r])
           /\ Head(toMaster[r]) = toMaster[r][1]
           /\ \A q \in Replica : q # r => toMaster'[q] = toMaster[q]
  <1>1. toMaster[r] \in Seq(ToMasterMsg) /\ toMaster[r] # <<>>
    BY DEF TypeOK, Reads
  <1>2. toMaster' = [toMaster EXCEPT ![r] = Tail(toMaster[r])]
    BY DEF Read
  <1>3. toMaster'[r] = Tail(toMaster[r])
    BY <1>2 DEF TypeOK
  <1>4. Len(toMaster[r]) \in Nat \ {0}
    BY <1>1, EmptySeq
  <1>5. Head(toMaster[r]) = toMaster[r][1]
    BY <1>1, <1>4
  <1>. QED  BY <1>1, <1>2, <1>3, <1>4, <1>5, HeadTailProperties DEF TypeOK, Shrunk

LEMMA SayMaster ==
    ASSUME TypeOK, NEW r \in Replica, NEW m \in ToMasterMsg
    PROVE  /\ ReplicaSay(r, <<>>) => toMaster' = toMaster
           /\ ReplicaSay(r, <<m>>) =>
                /\ Grown(toMaster[r], toMaster'[r], m)
                /\ \A q \in Replica : q # r => toMaster'[q] = toMaster[q]
  <1>1. toMaster[r] \in Seq(ToMasterMsg) /\ Len(toMaster[r]) \in Nat
    BY LenProperties DEF TypeOK
  <1>2. toMaster[r] \o <<>> = toMaster[r]
    BY <1>1, ConcatEmptySeq
  <1>3. ReplicaSay(r, <<>>) => toMaster' = toMaster
    BY <1>2 DEF ReplicaSay, TypeOK
  <1>4. <<m>> \in Seq(ToMasterMsg) /\ Len(<<m>>) = 1 /\ <<m>>[1] = m
    OBVIOUS
  <1>5. Grown(toMaster[r], toMaster[r] \o <<m>>, m)
    BY <1>1, <1>4, ConcatProperties DEF Grown
  <1>. QED  BY <1>3, <1>5 DEF ReplicaSay, TypeOK

LEMMA TailsGrown ==
    ASSUME NEW s, NEW t, NEW m, Len(s) \in Nat, Grown(s, t, m)
    PROVE  /\ m.type \in Pushed => \A n \in Nat : PushedFrom(s, n) => PushedFrom(t, n)
           /\ m.type = "ACK" => (AllAcks(s) => AllAcks(t))
  <1>1. \A i \in 1..Len(t) : (i \in 1..Len(s) /\ t[i] = s[i]) \/ t[i] = m
    <2>1. Len(t) = Len(s) + 1 /\ t[Len(s) + 1] = m
      BY DEF Grown
    <2>2. \A i \in 1..Len(t) : i # Len(s) + 1 => i \in 1..Len(s)
      BY <2>1
    <2>. QED  BY <2>1, <2>2 DEF Grown
  <1>. QED  BY <1>1 DEF PushedFrom, AllAcks

LEMMA TailsShrunk ==
    ASSUME NEW s, NEW t, Len(s) \in Nat, Shrunk(s, t)
    PROVE  /\ PushedFrom(s, 3) => PushedFrom(t, 2)
           /\ PushedFrom(s, 2) => PushedFrom(t, 1)
           /\ PushedFrom(s, 1) => PushedFrom(t, 1)
           /\ AllAcks(s) => AllAcks(t)
  <1>1. \A i \in 1..Len(t) : i + 1 \in 1..Len(s) /\ t[i] = s[i + 1]
    BY DEF Shrunk
  <1>2. \A i \in 1..Len(t) : /\ i + 1 >= 1 /\ i + 1 >= 2
                             /\ i >= 2 => i + 1 >= 3
    BY DEF Shrunk
  <1>. QED  BY <1>1, <1>2 DEF PushedFrom, AllAcks

LEMMA TellOne ==
    ASSUME TypeOK, NEW r \in Replica, NEW m \in ToReplicaMsg, Tell(r, <<m>>)
    PROVE  Grown(toReplica[r], toReplica'[r], m)
  <1>1. <<m>> \in Seq(ToReplicaMsg) /\ Len(<<m>>) = 1 /\ <<m>>[1] = m /\ 1 \in 1..1
    OBVIOUS
  <1>2. Len(toReplica[r]) \in Nat
    BY LenType
  <1>3. /\ Len(toReplica'[r]) = Len(toReplica[r]) + Len(<<m>>)
        /\ \A i \in 1..Len(toReplica[r]) : toReplica'[r][i] = toReplica[r][i]
        /\ \A i \in 1..Len(<<m>>) : toReplica'[r][Len(toReplica[r]) + i] = <<m>>[i]
    BY <1>1, TellStream
  <1>. QED  BY <1>1, <1>2, <1>3 DEF Grown

LEMMA HandshakeStep ==
    ASSUME TypeOK, HandshakeInv, [Next]_vars
    PROVE  HandshakeInv'
  <1>. USE ReplicationAssumption
  <1>. DEFINE Good(q) ==
         /\ conn[q] = "off" => /\ reg[q] = "none" /\ rstate[q] = "WAIT_FIRST_PONG"
                               /\ toReplica[q] = <<>> /\ toMaster[q] = <<>>
         /\ conn[q] = "open" => Stage(q)
         /\ conn[q] # "closed" /\ reg[q] # "WRITE" => pushed[q] = 0
  <1>. SUFFICES ASSUME NEW q \in Replica PROVE Good(q)'
    BY DEF HandshakeInv
  <1>0. /\ Good(q)
        /\ rstate[q] \in RState /\ acked[q] \in Nat /\ pushed[q] \in Nat
        /\ Len(toReplica[q]) \in Nat /\ Len(toMaster[q]) \in Nat
    BY LenType DEF HandshakeInv, TypeOK
  <1>1. ASSUME NEW c \in Client, NEW k \in Key, NEW h \in Hole, Set(c, k, h)
        PROVE  Good(q)'
    <2>1. UNCHANGED <<conn, reg, rstate, toMaster>>
      BY <1>1 DEF Set, replicaVars
    <2>2. CASE reg[q] = "WRITE"
      <3>. DEFINE m == SetMsg(k, nsets + 1, pushed[q] + SetSize)
      <3>1. Grown(toReplica[q], toReplica'[q], m)
        BY <1>1, <2>2, SetStream DEF Grows
      <3>2. m.type \in Pushed
        BY DEF SetMsg, Pushed
      <3>. HIDE DEF m
      <3>3. \A n \in Nat : PushedFrom(toReplica[q], n) => PushedFrom(toReplica'[q], n)
        BY <1>0, <3>1, <3>2, TailsGrown
      <3>4. conn[q] = "open" => Stage(q)'
        BY <1>0, <2>1, <2>2, <3>1, <3>3 DEF Stage, Exchange, Grown, RState
      <3>. QED  BY <1>0, <2>1, <2>2, <3>4
    <2>3. CASE reg[q] # "WRITE"
      <3>1. pushed'[q] = pushed[q] /\ toReplica'[q] = toReplica[q]
        BY <1>1, <2>3, SetStream
      <3>. QED  BY <1>0, <2>1, <3>1 DEF Stage, Exchange
    <2>. QED  BY <2>2, <2>3
  <1>2. ASSUME NEW c \in Client, NEW count \in Count, NEW w \in WaitId, Wait(c, count, w)
        PROVE  Good(q)'
    <2>1. UNCHANGED <<conn, reg, rstate, toMaster>>
      BY <1>2 DEF Wait, replicaVars
    <2>. DEFINE m == GetAckMsg(pushed[q] + GetAckSize)
    <2>2. CASE reg[q] \in {"MET", "WRITE"} /\ acked[q] < pushed[q] /\ Grows(q, m)
      <3>1. Grown(toReplica[q], toReplica'[q], m)
        BY <2>2 DEF Grows
      <3>2. m.type \in Pushed
        BY DEF GetAckMsg, Pushed
      <3>. HIDE DEF m
      <3>3. \A n \in Nat : PushedFrom(toReplica[q], n) => PushedFrom(toReplica'[q], n)
        BY <1>0, <3>1, <3>2, TailsGrown
      <3>4. conn[q] # "closed" => reg[q] = "WRITE"
        BY <1>0, <2>2
      <3>5. conn[q] = "open" => Stage(q)'
        BY <1>0, <2>1, <3>1, <3>3, <3>4 DEF Stage, Exchange, Grown, RState
      <3>. QED  BY <1>0, <2>1, <3>4, <3>5
    <2>3. CASE pushed'[q] = pushed[q] /\ toReplica'[q] = toReplica[q]
      BY <1>0, <2>1, <2>3 DEF Stage, Exchange
    <2>. QED  BY <1>2, <2>2, <2>3, WaitStream
  <1>3. ASSUME NEW r \in Replica, MasterPing(r) \/ MasterReplConf(r) \/ MasterPsync(r)
        PROVE  Good(q)'
    <2>1. UNCHANGED <<conn, rstate, pushed>> /\ Reads(r) /\ Read(r)
      BY <1>3 DEF MasterPing, MasterReplConf, MasterPsync, masterVars, replicaVars
    <2>2. CASE q # r
      <3>1. reg'[q] = reg[q]
        BY <1>3, <2>2 DEF MasterPing, MasterReplConf, MasterPsync, AddReplica, masterVars, TypeOK
      <3>2. toReplica'[q] = toReplica[q] /\ toMaster'[q] = toMaster[q]
        BY <1>3, <2>1, <2>2, MasterAnswers, TellStream, ReadMaster
      <3>. QED  BY <1>0, <2>1, <3>1, <3>2 DEF Stage, Exchange
    <2>3. CASE q = r
      <3>1. /\ Shrunk(toMaster[q], toMaster'[q]) /\ Head(toMaster[q]) = toMaster[q][1]
            /\ conn[q] \in {"open", "dead"}
        BY <2>1, <2>3, ReadMaster DEF Reads
      <3>2. reg'[q] \in {"none", "MET", "WRITE"} /\ (reg[q] = "WRITE" => reg'[q] = "WRITE")
        BY <1>3, <2>3 DEF MasterPing, MasterReplConf, MasterPsync, AddReplica, masterVars, TypeOK
      <3>3. CASE MasterPing(r)
        <4>1. Plain("PONG").type = "PONG" /\ Plain("PONG") \in ToReplicaMsg
          BY DEF Plain, ToReplicaMsg
        <4>2. /\ toMaster[q][1].type = "PING" /\ reg'[q] = reg[q]
              /\ Tell(q, <<Plain("PONG")>>)
          BY <2>3, <3>1, <3>3 DEF MasterPing, masterVars
        <4>3. /\ Len(toReplica'[q]) = Len(toReplica[q]) + 1
              /\ toReplica'[q][Len(toReplica[q]) + 1].type = "PONG"
          BY <4>1, <4>2, TellOne DEF Grown
        <4>5. conn[q] = "open" =>
                /\ rstate[q] = "WAIT_FIRST_PONG" /\ reg[q] = "none"
                /\ Len(toMaster[q]) = 1 /\ Len(toReplica[q]) = 0
          BY <1>0, <3>1, <4>2 DEF Stage, Exchange, Only, AllAcks, Shrunk, RState
        <4>6. conn[q] = "open" => Len(toMaster'[q]) = 0 /\ Only(toReplica'[q], "PONG")
          BY <3>1, <4>3, <4>5 DEF Only, Shrunk
        <4>4. conn[q] = "open" => Stage(q)'
          BY <2>1, <4>2, <4>5, <4>6 DEF Stage, Exchange
        <4>. QED  BY <1>0, <2>1, <3>1, <4>2, <4>4
      <3>4. CASE MasterReplConf(r)
        <4>1. Plain("OK").type = "OK" /\ Plain("OK") \in ToReplicaMsg
          BY DEF Plain, ToReplicaMsg
        <4>2. /\ toMaster[q][1].type = "REPLCONF" /\ Tell(q, <<Plain("OK")>>)
              /\ reg'[q] = IF reg[q] = "none" THEN "MET" ELSE reg[q]
          BY <2>3, <3>1, <3>4 DEF MasterReplConf, AddReplica, TypeOK
        <4>3. /\ Len(toReplica'[q]) = Len(toReplica[q]) + 1
              /\ toReplica'[q][Len(toReplica[q]) + 1].type = "OK"
          BY <4>1, <4>2, TellOne DEF Grown
        <4>5. conn[q] = "open" =>
                /\ \/ rstate[q] = "WAIT_OK_FOR_REPLCONF_PORT" /\ reg[q] = "none"
                   \/ rstate[q] = "WAIT_OK_FOR_REPLCONF_CAPA" /\ reg[q] = "MET"
                /\ Len(toMaster[q]) = 1 /\ Len(toReplica[q]) = 0
          BY <1>0, <3>1, <4>2 DEF Stage, Exchange, Only, AllAcks, Shrunk, RState
        <4>6. conn[q] = "open" => Len(toMaster'[q]) = 0 /\ Only(toReplica'[q], "OK")
          BY <3>1, <4>3, <4>5 DEF Only, Shrunk
        <4>4. conn[q] = "open" => Stage(q)'
          BY <2>1, <4>2, <4>5, <4>6 DEF Stage, Exchange
        <4>. QED  BY <1>0, <2>1, <3>1, <4>2, <4>4
      <3>5. CASE MasterPsync(r)
        <4>. DEFINE ms == <<Plain("FULLRESYNC"), Plain("RDB")>>
        <4>1. /\ ms \in Seq(ToReplicaMsg) /\ Len(ms) = 2
              /\ ms[1].type = "FULLRESYNC" /\ ms[2].type = "RDB"
              /\ 1 \in 1..2 /\ 2 \in 1..2
          BY DEF Plain, ToReplicaMsg
        <4>2. /\ toMaster[q][1].type = "PSYNC" /\ Tell(q, ms)
              /\ reg'[q] = IF reg[q] = "none" THEN "none" ELSE "WRITE"
          BY <2>3, <3>1, <3>5 DEF MasterPsync, TypeOK
        <4>. HIDE DEF ms
        <4>3. /\ Len(toReplica'[q]) = Len(toReplica[q]) + 2
              /\ toReplica'[q][Len(toReplica[q]) + 1].type = "FULLRESYNC"
              /\ toReplica'[q][Len(toReplica[q]) + 2].type = "RDB"
          <5>1. /\ Len(toReplica'[q]) = Len(toReplica[q]) + Len(ms)
                /\ \A i \in 1..Len(ms) : toReplica'[q][Len(toReplica[q]) + i] = ms[i]
            BY <4>1, <4>2, TellStream
          <5>. QED  BY <4>1, <5>1
        <4>5. conn[q] = "open" =>
                /\ rstate[q] = "WAIT_FOR_PSYNC_ANSWER" /\ reg[q] = "MET"
                /\ Len(toMaster[q]) = 1 /\ Len(toReplica[q]) = 0
          BY <1>0, <3>1, <4>2 DEF Stage, Exchange, Only, AllAcks, Shrunk, RState
        <4>6. conn[q] = "open" =>
                /\ Len(toMaster'[q]) = 0 /\ Len(toReplica'[q]) = 2
                /\ toReplica'[q][1].type = "FULLRESYNC" /\ toReplica'[q][2].type = "RDB"
                /\ PushedFrom(toReplica'[q], 3)
          BY <3>1, <4>3, <4>5 DEF PushedFrom, Shrunk
        <4>4. conn[q] = "open" => Stage(q)'
          BY <2>1, <4>2, <4>5, <4>6 DEF Stage, Exchange
        <4>. QED  BY <1>0, <2>1, <3>1, <3>2, <4>2, <4>4
      <3>. QED  BY <1>3, <3>3, <3>4, <3>5
    <2>. QED  BY <2>2, <2>3
  <1>4. ASSUME NEW r \in Replica, MasterAck(r)
        PROVE  Good(q)'
    <2>1. UNCHANGED <<conn, rstate, pushed, toReplica>> /\ Reads(r) /\ Read(r)
      BY <1>4 DEF MasterAck, replicaVars
    <2>2. CASE q # r
      <3>1. reg'[q] = reg[q] /\ toMaster'[q] = toMaster[q]
        BY <1>4, <2>1, <2>2, ReadMaster DEF MasterAck, AddReplica, TypeOK
      <3>. QED  BY <1>0, <2>1, <3>1 DEF Stage, Exchange
    <2>3. CASE q = r
      <3>1. /\ Shrunk(toMaster[q], toMaster'[q]) /\ toMaster[q][1].type = "ACK"
            /\ conn[q] \in {"open", "dead"}
            /\ reg'[q] = IF reg[q] = "none" THEN "MET" ELSE reg[q]
        BY <1>4, <2>1, <2>3, ReadMaster DEF MasterAck, Reads, AddReplica, TypeOK
      <3>2. conn[q] = "open" => rstate[q] = "WAIT_SERVER_COMMANDS"
        BY <1>0, <3>1 DEF Stage, Exchange, Only, Shrunk, RState
      <3>3. conn[q] = "open" => Stage(q)'
        BY <1>0, <2>1, <3>1, <3>2, TailsShrunk DEF Stage
      <3>. QED  BY <1>0, <2>1, <3>1, <3>3
    <2>. QED  BY <2>2, <2>3
  <1>5. ASSUME NEW r \in Replica, ReplicaConnects(r) \/ ReplicaDies(r) \/ MasterCloses(r)
        PROVE  Good(q)'
    <2>1. UNCHANGED <<rstate, pushed>>
      BY <1>5 DEF ReplicaConnects, ReplicaDies, MasterCloses, masterVars, replicaVars
    <2>2. CASE q # r
      <3>1. /\ conn'[q] = conn[q] /\ toReplica'[q] = toReplica[q]
            /\ toMaster'[q] = toMaster[q] /\ reg'[q] = reg[q]
        BY <1>5, <2>2 DEF ReplicaConnects, ReplicaDies, MasterCloses, ReplicaSay,
                          masterVars, TypeOK
      <3>. QED  BY <1>0, <2>1, <3>1 DEF Stage, Exchange
    <2>3. CASE q = r /\ (ReplicaDies(r) \/ MasterCloses(r))
      <3>1. \/ conn'[q] = "dead" /\ conn[q] = "open" /\ reg'[q] = reg[q]
            \/ conn'[q] = "closed"
        BY <2>3 DEF ReplicaDies, MasterCloses, masterVars, TypeOK
      <3>. QED  BY <1>0, <2>1, <3>1
    <2>4. CASE q = r /\ ReplicaConnects(r)
      <3>1. /\ conn[q] = "off" /\ conn'[q] = "open" /\ reg'[q] = reg[q]
            /\ toReplica'[q] = toReplica[q] /\ ReplicaSay(q, <<Plain("PING")>>)
        BY <2>4 DEF ReplicaConnects, masterVars, TypeOK
      <3>2. Plain("PING") \in ToMasterMsg /\ Plain("PING").type = "PING"
        BY DEF Plain, ToMasterMsg
      <3>3. Grown(toMaster[q], toMaster'[q], Plain("PING"))
        BY <3>1, <3>2, SayMaster
      <3>4. Len(toReplica'[q]) = 0 /\ Only(toMaster'[q], "PING")
        BY <1>0, <3>1, <3>2, <3>3, EmptySeq DEF Only, Grown
      <3>. QED  BY <1>0, <2>1, <3>1, <3>4 DEF Stage, Exchange
    <2>. QED  BY <1>5, <2>2, <2>3, <2>4
  <1>6. ASSUME NEW r \in Replica, ReplicaHandshake(r)
        PROVE  Good(q)'
    <2>1. UNCHANGED <<conn, pushed, reg>> /\ ReplicaReads(r) /\ ReplicaRead(r)
      BY <1>6 DEF ReplicaHandshake, masterVars
    <2>2. CASE q # r
      <3>1. /\ toReplica'[q] = toReplica[q] /\ rstate'[q] = rstate[q]
            /\ toMaster'[q] = toMaster[q]
        BY <1>6, <2>1, <2>2, ReadStream DEF ReplicaHandshake, ReplicaSay, TypeOK
      <3>. QED  BY <1>0, <2>1, <3>1 DEF Stage, Exchange
    <2>3. CASE q = r
      <3>1. /\ Shrunk(toReplica[q], toReplica'[q]) /\ Head(toReplica[q]) = toReplica[q][1]
            /\ conn[q] = "open" /\ Stage(q) /\ rstate[q] # "WAIT_SERVER_COMMANDS"
        BY <1>0, <1>6, <2>1, <2>3, ReadStream DEF Shrinks, ReplicaReads, ReplicaHandshake
      <3>2. toReplica[q][1].type \in Awaited(rstate[q])
        BY <1>0, <3>1 DEF Stage, Exchange, Only, Shrunk, Awaited, Handshake, RState
      <3>3. /\ ReplicaSay(q, Handshake[rstate[q]].say)
            /\ rstate'[q] = Handshake[rstate[q]].next
        BY <1>6, <2>3, <3>1, <3>2 DEF ReplicaHandshake, TypeOK
      <3>4. /\ Plain("REPLCONF") \in ToMasterMsg /\ Plain("REPLCONF").type = "REPLCONF"
            /\ Plain("PSYNC") \in ToMasterMsg /\ Plain("PSYNC").type = "PSYNC"
        BY DEF Plain, ToMasterMsg
      <3>5. CASE rstate[q] = "WAIT_FIRST_PONG"
        <4>1. Handshake[rstate[q]].say = <<Plain("REPLCONF")>>
              /\ Handshake[rstate[q]].next = "WAIT_OK_FOR_REPLCONF_PORT"
          BY <3>5 DEF Handshake
        <4>2. Grown(toMaster[q], toMaster'[q], Plain("REPLCONF"))
          BY <3>3, <3>4, <4>1, SayMaster
        <4>. QED  BY <1>0, <2>1, <3>1, <3>3, <3>4, <3>5, <4>1, <4>2
                  DEF Stage, Exchange, Only, Shrunk, Grown
      <3>6. CASE rstate[q] = "WAIT_OK_FOR_REPLCONF_PORT"
        <4>1. Handshake[rstate[q]].say = <<Plain("REPLCONF")>>
              /\ Handshake[rstate[q]].next = "WAIT_OK_FOR_REPLCONF_CAPA"
          BY <3>6 DEF Handshake
        <4>2. Grown(toMaster[q], toMaster'[q], Plain("REPLCONF"))
          BY <3>3, <3>4, <4>1, SayMaster
        <4>. QED  BY <1>0, <2>1, <3>1, <3>3, <3>4, <3>6, <4>1, <4>2
                  DEF Stage, Exchange, Only, Shrunk, Grown
      <3>7. CASE rstate[q] = "WAIT_OK_FOR_REPLCONF_CAPA"
        <4>1. Handshake[rstate[q]].say = <<Plain("PSYNC")>>
              /\ Handshake[rstate[q]].next = "WAIT_FOR_PSYNC_ANSWER"
          BY <3>7 DEF Handshake
        <4>2. Grown(toMaster[q], toMaster'[q], Plain("PSYNC"))
          BY <3>3, <3>4, <4>1, SayMaster
        <4>. QED  BY <1>0, <2>1, <3>1, <3>3, <3>4, <3>7, <4>1, <4>2
                  DEF Stage, Exchange, Only, Shrunk, Grown
      <3>8. CASE rstate[q] = "WAIT_FOR_PSYNC_ANSWER"
        <4>1. Handshake[rstate[q]].say = <<>>
              /\ Handshake[rstate[q]].next = "WAIT_FOR_RDB_FILE_SYNC"
          BY <3>8 DEF Handshake
        <4>2. toMaster' = toMaster
          BY <3>3, <3>4, <4>1, SayMaster
        <4>. QED  BY <1>0, <2>1, <3>1, <3>3, <3>8, <4>1, <4>2, TailsShrunk
                  DEF Stage, Exchange, Only, Shrunk
      <3>9. CASE rstate[q] = "WAIT_FOR_RDB_FILE_SYNC"
        <4>1. Handshake[rstate[q]].say = <<>>
              /\ Handshake[rstate[q]].next = "WAIT_SERVER_COMMANDS"
          BY <3>9 DEF Handshake
        <4>2. toMaster' = toMaster
          BY <3>3, <3>4, <4>1, SayMaster
        <4>3. PushedFrom(toReplica'[q], 1)
          BY <1>0, <3>1, <3>9, TailsShrunk DEF Stage
        <4>4. AllAcks(toMaster'[q])
          BY <1>0, <3>1, <3>9, <4>2 DEF Stage, AllAcks
        <4>5. rstate'[q] = "WAIT_SERVER_COMMANDS" /\ reg'[q] = "WRITE"
          BY <2>1, <3>1, <3>3, <3>9, <4>1 DEF Stage
        <4>. QED  BY <1>0, <2>1, <4>3, <4>4, <4>5 DEF Stage
      <3>. QED  BY <1>0, <3>1, <3>5, <3>6, <3>7, <3>8, <3>9 DEF RState
    <2>. QED  BY <2>2, <2>3
  <1>7. ASSUME NEW r \in Replica, ReplicaProcess(r)
        PROVE  Good(q)'
    <2>1. UNCHANGED <<conn, pushed, reg, rstate>> /\ ReplicaReads(r) /\ ReplicaRead(r)
      BY <1>7 DEF ReplicaProcess, masterVars
    <2>2. CASE q # r
      <3>1. toReplica'[q] = toReplica[q] /\ toMaster'[q] = toMaster[q]
        BY <1>7, <2>1, <2>2, ReadStream DEF ReplicaProcess, ReplicaSay, TypeOK
      <3>. QED  BY <1>0, <2>1, <3>1 DEF Stage, Exchange
    <2>3. CASE q = r
      <3>1. /\ Shrunk(toReplica[q], toReplica'[q]) /\ conn[q] = "open" /\ Stage(q)
            /\ rstate[q] = "WAIT_SERVER_COMMANDS"
        BY <1>0, <1>7, <2>1, <2>3, ReadStream DEF Shrinks, ReplicaReads, ReplicaProcess
      <3>2. AckMsg(bytesIn[q]) \in ToMasterMsg /\ AckMsg(bytesIn[q]).type = "ACK"
        BY DEF AckMsg, ToMasterMsg, TypeOK
      <3>3. \/ toMaster' = toMaster
            \/ Grown(toMaster[q], toMaster'[q], AckMsg(bytesIn[q]))
        BY <1>7, <2>3, <3>2, SayMaster DEF ReplicaProcess
      <3>4. AllAcks(toMaster'[q]) /\ PushedFrom(toReplica'[q], 1)
        BY <1>0, <3>1, <3>2, <3>3, TailsGrown, TailsShrunk DEF Stage
      <3>. QED  BY <1>0, <2>1, <3>1, <3>4 DEF Stage
    <2>. QED  BY <2>2, <2>3
  <1>8. ASSUME \/ \E c \in Client : ClientCloses(c)
               \/ \E w \in WaitId : WaitTimeout(w)
               \/ \E r \in Replica : MasterWritesToDead(r) \/ ReplicaJams(r)
               \/ UNCHANGED vars
        PROVE  Good(q)'
    <2>1. UNCHANGED <<conn, pushed, reg, rstate, toReplica, toMaster>>
      BY <1>8 DEF ClientCloses, WaitTimeout, MasterWritesToDead, ReplicaJams, vars, masterVars, replicaVars
    <2>. QED  BY <1>0, <2>1 DEF Stage, Exchange
  <1>. QED  BY <1>1, <1>2, <1>3, <1>4, <1>5, <1>6, <1>7, <1>8 DEF Next, ReplicaStep

-----------------------------------------------------------------------------
(* What a step of the system can do to a replica and to its stream.        *)

Still(q) == bytesIn'[q] = bytesIn[q] /\ rstore'[q] = rstore[q]

Push(q) ==
    /\ Still(q)
    /\ \E m \in ToReplicaMsg :
         /\ m.type \in Pushed /\ Grows(q, m)
         /\ m.type = "SET" => m.write = nsets + 1 /\ nsets' = nsets + 1

Answer(q) ==
    /\ Still(q)
    /\ Len(toReplica'[q]) \in Nat /\ Len(toReplica'[q]) >= Len(toReplica[q])
    /\ \A i \in 1..Len(toReplica'[q]) :
         IF i <= Len(toReplica[q]) THEN toReplica'[q][i] = toReplica[q][i]
                                   ELSE toReplica'[q][i].type \notin Pushed

Take(q) == Still(q) /\ Shrinks(q) /\ toReplica[q][1].type \notin Pushed

Process(q) ==
    /\ Shrinks(q) /\ toReplica[q][1].type \in Pushed
    /\ bytesIn'[q] = bytesIn[q] + Size(toReplica[q][1])
    /\ IF toReplica[q][1].type = "SET"
       THEN rstore'[q] = [rstore[q] EXCEPT ![toReplica[q][1].key] = toReplica[q][1].write]
       ELSE rstore'[q] = rstore[q]

Kinds(q) ==
    \/ conn'[q] = conn[q] /\ Still(q) /\ toReplica'[q] = toReplica[q]
    \/ conn'[q] = conn[q] /\ (Push(q) \/ Answer(q))
    \/ conn'[q] = "open" /\ conn[q] = "open" /\ (Take(q) \/ Process(q))
    \/ conn'[q] = "open" /\ conn[q] = "off" /\ Still(q) /\ toReplica'[q] = <<>>
    \/ conn'[q] \in {"dead", "closed"} /\ conn[q] \in {"open", "dead"} /\ Still(q)

LEMMA EveryStep ==
    ASSUME TypeOK, HandshakeInv, [Next]_vars, NEW q \in Replica
    PROVE  Kinds(q)
  <1>0. Len(toReplica[q]) \in Nat
    BY LenType
  <1>1. ASSUME NEW c \in Client, NEW k \in Key, NEW h \in Hole, Set(c, k, h)
        PROVE  Kinds(q)
    <2>1. UNCHANGED <<conn, bytesIn, rstore>> /\ nsets' = nsets + 1
      BY <1>1 DEF Set, replicaVars
    <2>. DEFINE m == SetMsg(k, nsets + 1, pushed[q] + SetSize)
    <2>2. m \in ToReplicaMsg /\ m.type \in Pushed /\ m.write = nsets + 1
      BY ReplicationAssumption DEF TypeOK, SetMsg, ToReplicaMsg, Pushed
    <2>3. Grows(q, m) \/ toReplica'[q] = toReplica[q]
      BY <1>1, SetStream
    <2>. HIDE DEF m
    <2>. QED  BY <2>1, <2>2, <2>3 DEF Kinds, Push, Still
  <1>2. ASSUME NEW c \in Client, NEW count \in Count, NEW w \in WaitId, Wait(c, count, w)
        PROVE  Kinds(q)
    <2>1. UNCHANGED <<conn, bytesIn, rstore>>
      BY <1>2 DEF Wait, replicaVars
    <2>. DEFINE m == GetAckMsg(pushed[q] + GetAckSize)
    <2>2. m \in ToReplicaMsg /\ m.type \in Pushed /\ m.type # "SET"
      BY ReplicationAssumption DEF TypeOK, GetAckMsg, ToReplicaMsg, Pushed
    <2>3. Grows(q, m) \/ toReplica'[q] = toReplica[q]
      BY <1>2, WaitStream
    <2>. HIDE DEF m
    <2>. QED  BY <2>1, <2>2, <2>3 DEF Kinds, Push, Still
  <1>3. ASSUME NEW r \in Replica, MasterPing(r) \/ MasterReplConf(r) \/ MasterPsync(r)
        PROVE  Kinds(q)
    <2>1. UNCHANGED <<conn, bytesIn, rstore>>
      BY <1>3 DEF MasterPing, MasterReplConf, MasterPsync, masterVars, replicaVars
    <2>2. PICK ms \in Seq(ToReplicaMsg) : Answers(ms) /\ Tell(r, ms)
      BY <1>3, MasterAnswers
    <2>3. CASE q # r
      BY <2>1, <2>2, <2>3, TellStream DEF Kinds, Still
    <2>4. CASE q = r
      <3>1. /\ Len(toReplica'[q]) = Len(toReplica[q]) + Len(ms)
            /\ \A i \in 1..Len(toReplica[q]) : toReplica'[q][i] = toReplica[q][i]
            /\ \A j \in 1..Len(ms) : toReplica'[q][Len(toReplica[q]) + j] = ms[j]
        BY <2>2, <2>4, TellStream
      <3>2. Len(ms) \in Nat
        BY LenProperties
      <3>3. ASSUME NEW i \in 1..Len(toReplica'[q]), ~ (i <= Len(toReplica[q]))
            PROVE  toReplica'[q][i].type \notin Pushed
        <4>. DEFINE j == i - Len(toReplica[q])
        <4>1. j \in 1..Len(ms) /\ Len(toReplica[q]) + j = i
          BY <1>0, <3>1, <3>2, <3>3
        <4>. QED  BY <2>2, <3>1, <4>1 DEF Answers
      <3>4. \A i \in 1..Len(toReplica'[q]) :
              i <= Len(toReplica[q]) => i \in 1..Len(toReplica[q])
        BY <1>0, <3>1, <3>2
      <3>5. Answer(q)
        BY <1>0, <2>1, <3>1, <3>2, <3>3, <3>4 DEF Answer, Still
      <3>. QED  BY <2>1, <3>5 DEF Kinds
    <2>. QED  BY <2>3, <2>4
  <1>4. ASSUME NEW r \in Replica, ReplicaConnects(r) \/ ReplicaDies(r) \/ MasterCloses(r)
        PROVE  Kinds(q)
    <2>1. UNCHANGED <<bytesIn, rstore>>
      BY <1>4 DEF ReplicaConnects, ReplicaDies, MasterCloses, replicaVars
    <2>2. CASE q # r
      <3>1. conn'[q] = conn[q] /\ toReplica'[q] = toReplica[q]
        BY <1>4, <2>2 DEF ReplicaConnects, ReplicaDies, MasterCloses, TypeOK
      <3>. QED  BY <2>1, <3>1 DEF Kinds, Still
    <2>3. CASE q = r
      <3>1. \/ conn'[q] = "open" /\ conn[q] = "off" /\ toReplica'[q] = <<>>
            \/ conn'[q] \in {"dead", "closed"} /\ conn[q] \in {"open", "dead"}
        BY <1>4, <2>3 DEF ReplicaConnects, ReplicaDies, MasterCloses, TypeOK, HandshakeInv
      <3>. QED  BY <2>1, <3>1 DEF Kinds, Still
    <2>. QED  BY <2>2, <2>3
  <1>5. ASSUME NEW r \in Replica, ReplicaHandshake(r)
        PROVE  Kinds(q)
    <2>1. UNCHANGED <<conn, bytesIn, rstore>> /\ ReplicaReads(r) /\ ReplicaRead(r)
      BY <1>5 DEF ReplicaHandshake
    <2>2. CASE q # r
      BY <2>1, <2>2, ReadStream DEF Kinds, Still
    <2>3. CASE q = r
      <3>1. /\ Shrinks(q) /\ conn[q] = "open" /\ Stage(q)
            /\ rstate[q] \in RState \ {"WAIT_SERVER_COMMANDS"}
        BY <1>5, <2>1, <2>3, ReadStream
           DEF ReplicaReads, ReplicaHandshake, HandshakeInv, TypeOK
      <3>2. toReplica[q][1].type \notin Pushed
        BY <1>0, <3>1 DEF Stage, Exchange, Only, Shrinks, Shrunk, RState, Pushed
      <3>. QED  BY <2>1, <3>1, <3>2 DEF Kinds, Take, Still
    <2>. QED  BY <2>2, <2>3
  <1>6. ASSUME NEW r \in Replica, ReplicaProcess(r)
        PROVE  Kinds(q)
    <2>1. UNCHANGED conn /\ ReplicaReads(r) /\ ReplicaRead(r)
      BY <1>6 DEF ReplicaProcess
    <2>2. CASE q # r
      <3>1. bytesIn'[q] = bytesIn[q] /\ rstore'[q] = rstore[q]
        BY <1>6, <2>2 DEF ReplicaProcess, TypeOK
      <3>. QED  BY <2>1, <2>2, <3>1, ReadStream DEF Kinds, Still
    <2>3. CASE q = r
      <3>1. Shrinks(q) /\ conn[q] = "open" /\ PushedFrom(toReplica[q], 1)
        BY <1>6, <2>1, <2>3, ReadStream
           DEF ReplicaReads, ReplicaProcess, HandshakeInv, Stage
      <3>2. toReplica[q][1].type \in Pushed
        BY <1>0, <3>1 DEF PushedFrom, Shrinks, Shrunk
      <3>3. bytesIn'[q] = bytesIn[q] + Size(toReplica[q][1])
        BY <1>6, <2>3, <3>1, <3>2 DEF ReplicaProcess, Shrinks, TypeOK
      <3>4. rstore'[q] = IF toReplica[q][1].type = "SET"
                         THEN [rstore[q] EXCEPT ![toReplica[q][1].key] = toReplica[q][1].write]
                         ELSE rstore[q]
        BY <1>6, <2>3, <3>1 DEF ReplicaProcess, Shrinks, TypeOK
      <3>. QED  BY <2>1, <3>1, <3>2, <3>3, <3>4 DEF Kinds, Process
    <2>. QED  BY <2>2, <2>3
  <1>7. ASSUME \/ \E c \in Client : ClientCloses(c)
               \/ \E w \in WaitId : WaitTimeout(w)
               \/ \E r \in Replica : MasterAck(r) \/ MasterWritesToDead(r) \/ ReplicaJams(r)
               \/ UNCHANGED vars
        PROVE  Kinds(q)
    <2>1. UNCHANGED <<conn, bytesIn, rstore, toReplica>>
      BY <1>7 DEF ClientCloses, WaitTimeout, MasterAck, MasterWritesToDead, ReplicaJams, vars, replicaVars
    <2>. QED  BY <2>1 DEF Kinds, Still
  <1>. QED  BY <1>1, <1>2, <1>3, <1>4, <1>5, <1>6, <1>7 DEF Next, ReplicaStep

-----------------------------------------------------------------------------
(* Writes arrive in order, and none is skipped.                            *)

LEMMA OrderedGrown ==
    ASSUME NEW s, NEW t, NEW m \in ToReplicaMsg, NEW n \in Nat, NEW v \in [Key -> Nat],
           Typed(s), Grown(s, t, m), \A k \in Key : v[k] <= n, Ordered(s, v, n),
           m.type = "SET" => m.write = n + 1
    PROVE  Ordered(t, v, IF m.type = "SET" THEN n + 1 ELSE n)
  <1>1. Len(s) \in Nat /\ Len(t) = Len(s) + 1 /\ t[Len(s) + 1] = m
    BY DEF Typed, Grown
  <1>2. \A i \in 1..Len(t) : i # Len(s) + 1 => i \in 1..Len(s) /\ t[i] = s[i]
    BY <1>1 DEF Grown
  <1>3. m.type = "SET" => m.key \in Key
    BY DEF ToReplicaMsg
  <1>4. ASSUME NEW i \in 1..Len(t), t[i].type = "SET"
        PROVE  v[t[i].key] < t[i].write /\ t[i].write <= (IF m.type = "SET" THEN n + 1 ELSE n)
    <2>1. CASE i = Len(s) + 1
      BY <1>1, <1>3, <1>4, <2>1
    <2>2. CASE i # Len(s) + 1
      BY <1>2, <1>4, <2>2 DEF Ordered, Typed
    <2>. QED  BY <2>1, <2>2
  <1>5. ASSUME NEW i \in 1..Len(t), NEW j \in 1..Len(t), i < j,
               t[i].type = "SET", t[j].type = "SET"
        PROVE  t[i].write < t[j].write
    <2>1. i # Len(s) + 1
      BY <1>1, <1>5
    <2>2. i \in 1..Len(s) /\ t[i] = s[i] /\ s[i].write <= n /\ s[i].write \in Nat
      BY <1>2, <1>5, <2>1 DEF Ordered, Typed
    <2>3. CASE j = Len(s) + 1
      BY <1>1, <1>5, <2>2, <2>3
    <2>4. CASE j # Len(s) + 1
      BY <1>2, <1>5, <2>2, <2>4 DEF Ordered
    <2>. QED  BY <2>3, <2>4
  <1>. QED  BY <1>4, <1>5 DEF Ordered

LEMMA OrderedShrunk ==
    ASSUME NEW s, NEW t, NEW n \in Nat, NEW v \in [Key -> Nat], NEW u \in [Key -> Nat],
           Typed(s), Shrunk(s, t), Ordered(s, v, n),
           \/ u = v
           \/ s[1].type = "SET" /\ u = [v EXCEPT ![s[1].key] = s[1].write]
    PROVE  Ordered(t, u, n)
  <1>1. Len(s) \in Nat /\ 1 \in 1..Len(s)
    BY DEF Typed, Shrunk
  <1>2. \A i \in 1..Len(t) : i + 1 \in 1..Len(s) /\ 1 < i + 1 /\ t[i] = s[i + 1]
    BY <1>1 DEF Shrunk
  <1>3. ASSUME NEW i \in 1..Len(t), t[i].type = "SET"
        PROVE  u[t[i].key] < t[i].write /\ t[i].write <= n
    <2>1. /\ i + 1 \in 1..Len(s) /\ 1 < i + 1 /\ t[i] = s[i + 1]
          /\ v[s[i + 1].key] < s[i + 1].write /\ s[i + 1].write <= n
          /\ s[i + 1].key \in Key
      BY <1>2, <1>3 DEF Ordered, Typed
    <2>2. CASE s[1].type = "SET" /\ u = [v EXCEPT ![s[1].key] = s[1].write]
      <3>1. s[1].write < s[i + 1].write
        BY <1>1, <1>3, <2>1, <2>2 DEF Ordered
      <3>. QED  BY <2>1, <2>2, <3>1
    <2>. QED  BY <2>1, <2>2
  <1>4. ASSUME NEW i \in 1..Len(t), NEW j \in 1..Len(t), i < j,
               t[i].type = "SET", t[j].type = "SET"
        PROVE  t[i].write < t[j].write
    <2>1. /\ i + 1 \in 1..Len(s) /\ t[i] = s[i + 1]
          /\ j + 1 \in 1..Len(s) /\ t[j] = s[j + 1]
      BY <1>2, <1>4
    <2>2. i + 1 < j + 1
      BY <1>1, <1>4 DEF Shrunk
    <2>3. s[i + 1].type = "SET" /\ s[j + 1].type = "SET"
      BY <1>4, <2>1
    <2>4. s[i + 1].write < s[j + 1].write
      BY <2>1, <2>2, <2>3 DEF Ordered
    <2>. QED  BY <2>1, <2>4
  <1>. QED  BY <1>3, <1>4 DEF Ordered

LEMMA SetsGrow == ASSUME TypeOK, [Next]_vars PROVE nsets' = nsets \/ nsets' = nsets + 1
  BY DEF Next, ReplicaStep, Set, Wait, ClientCloses, WaitTimeout, MasterPing, MasterReplConf,
         MasterPsync, MasterAck, MasterCloses, MasterWritesToDead, ReplicaJams, ReplicaConnects,
         ReplicaHandshake, ReplicaProcess, ReplicaDies, masterVars, vars

LEMMA StoreStep ==
    ASSUME TypeOK, [Next]_vars
    PROVE  \/ store' = store
           \/ \E k \in Key : nsets' = nsets + 1 /\ store' = [store EXCEPT ![k] = nsets + 1]
  BY DEF Next, ReplicaStep, Set, Wait, ClientCloses, WaitTimeout, MasterPing, MasterReplConf,
         MasterPsync, MasterAck, MasterCloses, MasterWritesToDead, ReplicaJams, ReplicaConnects,
         ReplicaHandshake, ReplicaProcess, ReplicaDies, masterVars, vars

LEMMA OrderStep ==
    ASSUME TypeOK, TypeOK', HandshakeInv, OrderInv, [Next]_vars
    PROVE  OrderInv'
  <1>0. nsets \in Nat /\ (nsets' = nsets \/ nsets' = nsets + 1)
    BY SetsGrow DEF TypeOK
  <1>1. ASSUME NEW k \in Key PROVE store'[k] <= nsets'
    <2>1. store[k] \in Nat /\ store[k] <= nsets /\ store \in [Key -> Nat]
      BY DEF OrderInv, TypeOK
    <2>2. CASE store' = store
      BY <1>0, <2>1, <2>2
    <2>3. ASSUME NEW l \in Key, nsets' = nsets + 1, store' = [store EXCEPT ![l] = nsets + 1]
          PROVE  store'[k] <= nsets'
      BY <1>0, <2>1, <2>3
    <2>. QED  BY <2>2, <2>3, StoreStep
  <1>2. ASSUME NEW q \in Replica
        PROVE  /\ \A k \in Key : rstore'[q][k] <= nsets'
               /\ conn'[q] = "open" => Ordered(toReplica'[q], rstore'[q], nsets')
    <2>1. /\ rstore[q] \in [Key -> Nat] /\ rstore'[q] \in [Key -> Nat]
          /\ \A k \in Key : rstore[q][k] <= nsets
          /\ conn[q] = "open" => Ordered(toReplica[q], rstore[q], nsets)
          /\ Typed(toReplica[q]) /\ Len(toReplica[q]) \in Nat
          /\ toReplica[q] \in Seq(ToReplicaMsg)
      BY TypedStream, LenType DEF OrderInv, TypeOK
    <2>2. ASSUME NEW s, Ordered(s, rstore[q], nsets), Typed(s)
          PROVE  Ordered(s, rstore[q], nsets')
      BY <1>0, <2>2 DEF Ordered, Typed
    <2>3. CASE Still(q) /\ toReplica'[q] = toReplica[q] /\ conn'[q] = conn[q]
      BY <1>0, <2>1, <2>2, <2>3 DEF Still
    <2>4. CASE Push(q) /\ conn'[q] = conn[q]
      <3>1. PICK m \in ToReplicaMsg :
              /\ m.type \in Pushed /\ Grown(toReplica[q], toReplica'[q], m)
              /\ m.type = "SET" => m.write = nsets + 1 /\ nsets' = nsets + 1
        BY <2>4 DEF Push, Grows
      <3>2. rstore'[q] = rstore[q] /\ \A k \in Key : rstore'[q][k] <= nsets'
        BY <1>0, <2>1, <2>4 DEF Push, Still
      <3>3. conn[q] = "open" =>
              Ordered(toReplica'[q], rstore[q], IF m.type = "SET" THEN nsets + 1 ELSE nsets)
        BY <1>0, <2>1, <3>1, OrderedGrown
      <3>4. conn[q] = "open" => Ordered(toReplica'[q], rstore[q], nsets')
        <4>1. toReplica'[q] \in Seq(ToReplicaMsg) /\ Typed(toReplica'[q])
          <5>1. Len(toReplica'[q]) \in Nat
                /\ \A i \in 1..Len(toReplica'[q]) : toReplica'[q][i] \in ToReplicaMsg
            BY LenProperties, ElementOfSeq DEF TypeOK
          <5>. QED  BY <5>1 DEF TypeOK, Typed, ToReplicaMsg, Pushed
        <4>. QED  BY <1>0, <2>2, <3>1, <3>3, <4>1
      <3>. QED  BY <2>4, <3>2, <3>4
    <2>5. CASE Answer(q) /\ conn'[q] = conn[q]
      <3>1. rstore'[q] = rstore[q] /\ \A k \in Key : rstore'[q][k] <= nsets'
        BY <1>0, <2>1, <2>5 DEF Answer, Still
      <3>2. \A i \in 1..Len(toReplica'[q]) : toReplica'[q][i].type = "SET" =>
               i \in 1..Len(toReplica[q]) /\ toReplica'[q][i] = toReplica[q][i]
        BY <2>1, <2>5 DEF Answer, Pushed
      <3>3. conn[q] = "open" => Ordered(toReplica'[q], rstore[q], nsets)
        BY <2>1, <3>2 DEF Ordered
      <3>4. conn[q] = "open" => Ordered(toReplica'[q], rstore[q], nsets')
        BY <1>0, <2>1, <3>2, <3>3 DEF Ordered, Typed
      <3>. QED  BY <2>5, <3>1, <3>4
    <2>6. CASE (Take(q) \/ Process(q)) /\ conn[q] = "open"
      <3>1. Shrunk(toReplica[q], toReplica'[q]) /\ 1 \in 1..Len(toReplica[q])
        BY <2>1, <2>6 DEF Take, Process, Shrinks, Shrunk
      <3>2. \/ rstore'[q] = rstore[q]
            \/ /\ toReplica[q][1].type = "SET"
               /\ rstore'[q] = [rstore[q] EXCEPT ![toReplica[q][1].key] = toReplica[q][1].write]
        BY <2>6 DEF Take, Process, Still
      <3>3. Ordered(toReplica'[q], rstore'[q], nsets)
        BY <1>0, <2>1, <2>6, <3>1, <3>2, OrderedShrunk
      <3>4. \A k \in Key : rstore'[q][k] <= nsets
        BY <2>1, <2>6, <3>1, <3>2 DEF Ordered, Typed
      <3>5. Len(toReplica'[q]) \in Nat /\ Typed(toReplica'[q])
        <4>1. Len(toReplica'[q]) \in Nat
              /\ \A i \in 1..Len(toReplica'[q]) : toReplica'[q][i] \in ToReplicaMsg
          BY LenProperties, ElementOfSeq DEF TypeOK
        <4>. QED  BY <4>1 DEF TypeOK, Typed, ToReplicaMsg, Pushed
      <3>6. Ordered(toReplica'[q], rstore'[q], nsets')
        BY <1>0, <3>3, <3>5 DEF Ordered, Typed
      <3>7. \A k \in Key : rstore'[q][k] <= nsets'
        BY <1>0, <2>1, <3>4
      <3>. QED  BY <3>6, <3>7
    <2>7. CASE Still(q) /\ toReplica'[q] = <<>>
      BY <1>0, <2>1, <2>7, EmptySeq DEF Still, Ordered
    <2>8. CASE Still(q) /\ conn'[q] \in {"dead", "closed"}
      BY <1>0, <2>1, <2>8 DEF Still
    <2>. QED  BY <2>3, <2>4, <2>5, <2>6, <2>7, <2>8, EveryStep DEF Kinds
  <1>. QED  BY <1>1, <1>2 DEF OrderInv
-----------------------------------------------------------------------------
(* Acknowledgements report bytes that were processed, in order.            *)

TypedAcks(s) ==
    Len(s) \in Nat /\ \A i \in 1..Len(s) : s[i].type = "ACK" => s[i].offset \in Nat

LEMMA TypedAckStream ==
    ASSUME TypeOK, NEW q \in Replica
    PROVE  TypedAcks(toMaster[q])
  BY LenType DEF ToMasterMsg, TypedAcks

LEMMA ReportsGrown ==
    ASSUME NEW s, NEW t, NEW m, NEW a \in Nat, NEW b \in Nat, NEW c \in Nat,
           TypedAcks(s), Grown(s, t, m), Reports(s, a, b), a <= b, b <= c,
           m.type = "ACK" => m.offset = b
    PROVE  Reports(t, a, c)
  <1>1. Len(s) \in Nat /\ Len(t) = Len(s) + 1 /\ t[Len(s) + 1] = m
    BY DEF TypedAcks, Grown
  <1>2. \A i \in 1..Len(t) : i # Len(s) + 1 => i \in 1..Len(s) /\ t[i] = s[i]
    BY <1>1 DEF Grown
  <1>3. ASSUME NEW i \in 1..Len(t), t[i].type = "ACK"
        PROVE  t[i].offset \in Nat /\ a <= t[i].offset /\ t[i].offset <= b
    <2>1. CASE i = Len(s) + 1
      BY <1>1, <1>3, <2>1
    <2>2. CASE i # Len(s) + 1
      BY <1>2, <1>3, <2>2 DEF Reports, TypedAcks
    <2>. QED  BY <2>1, <2>2
  <1>4. ASSUME NEW i \in 1..Len(t), NEW j \in 1..Len(t), i < j,
               t[i].type = "ACK", t[j].type = "ACK"
        PROVE  t[i].offset <= t[j].offset
    <2>1. i # Len(s) + 1
      BY <1>1, <1>4
    <2>2. i \in 1..Len(s) /\ t[i] = s[i]
      BY <1>2, <2>1
    <2>3. CASE j = Len(s) + 1
      BY <1>1, <1>3, <1>4, <2>3
    <2>4. CASE j # Len(s) + 1
      BY <1>2, <1>4, <2>2, <2>4 DEF Reports
    <2>. QED  BY <2>3, <2>4
  <1>. QED  BY <1>3, <1>4 DEF Reports

LEMMA ReportsShrunk ==
    ASSUME NEW s, NEW t, NEW a \in Nat, NEW b \in Nat, NEW c \in Nat, NEW e \in Nat,
           TypedAcks(s), Shrunk(s, t), Reports(s, a, b), b <= c,
           e = a \/ (s[1].type = "ACK" /\ e = s[1].offset)
    PROVE  Reports(t, e, c)
  <1>1. Len(s) \in Nat /\ 1 \in 1..Len(s)
    BY DEF TypedAcks, Shrunk
  <1>2. \A i \in 1..Len(t) : i + 1 \in 1..Len(s) /\ 1 < i + 1 /\ t[i] = s[i + 1]
    BY <1>1 DEF Shrunk
  <1>3. ASSUME NEW i \in 1..Len(t), t[i].type = "ACK"
        PROVE  e <= t[i].offset /\ t[i].offset <= c
    <2>1. /\ i + 1 \in 1..Len(s) /\ 1 < i + 1 /\ t[i] = s[i + 1]
          /\ a <= s[i + 1].offset /\ s[i + 1].offset <= b /\ s[i + 1].offset \in Nat
      BY <1>2, <1>3 DEF Reports, TypedAcks
    <2>2. s[1].type = "ACK" => s[1].offset <= s[i + 1].offset
      BY <1>1, <1>3, <2>1 DEF Reports
    <2>. QED  BY <2>1, <2>2
  <1>4. ASSUME NEW i \in 1..Len(t), NEW j \in 1..Len(t), i < j,
               t[i].type = "ACK", t[j].type = "ACK"
        PROVE  t[i].offset <= t[j].offset
    <2>1. /\ i + 1 \in 1..Len(s) /\ t[i] = s[i + 1]
          /\ j + 1 \in 1..Len(s) /\ t[j] = s[j + 1]
      BY <1>2, <1>4
    <2>2. i + 1 < j + 1
      BY <1>1, <1>4 DEF Shrunk
    <2>3. s[i + 1].type = "ACK" /\ s[j + 1].type = "ACK"
      BY <1>4, <2>1
    <2>4. s[i + 1].offset <= s[j + 1].offset
      BY <2>1, <2>2, <2>3 DEF Reports
    <2>. QED  BY <2>1, <2>4
  <1>. QED  BY <1>3, <1>4 DEF Reports

(* What a step does to the stream of a replica to the master.              *)
Quiet(q) == toMaster'[q] = toMaster[q] /\ acked'[q] = acked[q]

Report(q) ==
    /\ acked'[q] = acked[q]
    /\ \E m \in ToMasterMsg : /\ Grown(toMaster[q], toMaster'[q], m)
                              /\ m.type = "ACK" => m.offset = bytesIn[q]

Note(q) ==
    /\ Shrunk(toMaster[q], toMaster'[q])
    /\ \/ acked'[q] = acked[q]
       \/ toMaster[q][1].type = "ACK" /\ acked'[q] = toMaster[q][1].offset

AckKinds(q) ==
    \/ Quiet(q)
    \/ Report(q)
    \/ Note(q)
    \/ toMaster'[q] = <<>> /\ acked'[q] = acked[q]

LEMMA EveryAckStep ==
    ASSUME TypeOK, [Next]_vars, NEW q \in Replica
    PROVE  AckKinds(q)
  <1>1. ASSUME \/ \E c \in Client, k \in Key, h \in Hole : Set(c, k, h)
               \/ \E c \in Client, count \in Count, w \in WaitId : Wait(c, count, w)
               \/ \E c \in Client : ClientCloses(c)
               \/ \E w \in WaitId : WaitTimeout(w)
               \/ \E r \in Replica : MasterWritesToDead(r) \/ ReplicaJams(r) \/ ReplicaDies(r)
               \/ UNCHANGED vars
        PROVE  AckKinds(q)
    <2>1. UNCHANGED <<toMaster, acked>>
      BY <1>1 DEF Set, Wait, ClientCloses, WaitTimeout, MasterWritesToDead, ReplicaJams, ReplicaDies,
                  masterVars, vars
    <2>. QED  BY <2>1 DEF AckKinds, Quiet
  <1>2. ASSUME NEW r \in Replica, MasterPing(r) \/ MasterReplConf(r) \/ MasterPsync(r)
        PROVE  AckKinds(q)
    <2>1. UNCHANGED acked /\ Reads(r) /\ Read(r)
      BY <1>2 DEF MasterPing, MasterReplConf, MasterPsync, masterVars
    <2>. QED  BY <2>1, ReadMaster DEF AckKinds, Quiet, Note
  <1>3. ASSUME NEW r \in Replica, MasterAck(r)
        PROVE  AckKinds(q)
    <2>1. Reads(r) /\ Read(r) /\ Head(toMaster[r]).type = "ACK"
      BY <1>3 DEF MasterAck
    <2>2. /\ \/ acked' = acked
             \/ acked' = [acked EXCEPT ![r] = Head(toMaster[r]).offset]
      BY <1>3 DEF MasterAck
    <2>3. CASE q = r
      BY <2>1, <2>2, <2>3, ReadMaster DEF AckKinds, Note, TypeOK
    <2>4. CASE q # r
      BY <2>1, <2>2, <2>4, ReadMaster DEF AckKinds, Quiet, TypeOK
    <2>. QED  BY <2>3, <2>4
  <1>4. ASSUME NEW r \in Replica, MasterCloses(r)
        PROVE  AckKinds(q)
    BY <1>4 DEF MasterCloses, AckKinds, Quiet, TypeOK
  <1>5. ASSUME NEW r \in Replica, NEW m \in ToMasterMsg, acked' = acked,
               ReplicaSay(r, <<m>>) \/ ReplicaSay(r, <<>>) \/ toMaster' = toMaster,
               m.type = "ACK" => m.offset = bytesIn[r]
        PROVE  AckKinds(q)
    <2>1. CASE q = r
      BY <1>5, <2>1, SayMaster DEF AckKinds, Quiet, Report
    <2>2. CASE q # r
      BY <1>5, <2>2, SayMaster DEF AckKinds, Quiet
    <2>. QED  BY <2>1, <2>2
  <1>6. ASSUME NEW r \in Replica, ReplicaConnects(r)
        PROVE  AckKinds(q)
    <2>1. Plain("PING") \in ToMasterMsg /\ Plain("PING").type # "ACK"
      BY DEF Plain, ToMasterMsg
    <2>2. acked' = acked /\ ReplicaSay(r, <<Plain("PING")>>)
      BY <1>6 DEF ReplicaConnects, masterVars
    <2>. QED  BY <1>5, <2>1, <2>2
  <1>7. ASSUME NEW r \in Replica, ReplicaHandshake(r)
        PROVE  AckKinds(q)
    <2>1. /\ Plain("REPLCONF") \in ToMasterMsg /\ Plain("REPLCONF").type # "ACK"
          /\ Plain("PSYNC") \in ToMasterMsg /\ Plain("PSYNC").type # "ACK"
      BY DEF Plain, ToMasterMsg
    <2>2. rstate[r] \in RState /\ rstate[r] # "WAIT_SERVER_COMMANDS" /\ acked' = acked
      BY <1>7 DEF ReplicaHandshake, TypeOK, masterVars
    <2>3. \/ toMaster' = toMaster
          \/ ReplicaSay(r, Handshake[rstate[r]].say)
      BY <1>7 DEF ReplicaHandshake
    <2>4. Handshake[rstate[r]].say \in
            {<<Plain("REPLCONF")>>, <<Plain("PSYNC")>>, <<>>}
      BY <2>2 DEF Handshake, RState
    <2>. QED  BY <1>5, <2>1, <2>2, <2>3, <2>4
  <1>8. ASSUME NEW r \in Replica, ReplicaProcess(r)
        PROVE  AckKinds(q)
    <2>1. /\ AckMsg(bytesIn[r]) \in ToMasterMsg
          /\ AckMsg(bytesIn[r]).offset = bytesIn[r]
      BY DEF AckMsg, ToMasterMsg, TypeOK
    <2>2. /\ acked' = acked
          /\ ReplicaSay(r, <<AckMsg(bytesIn[r])>>) \/ ReplicaSay(r, <<>>)
      BY <1>8 DEF ReplicaProcess, masterVars
    <2>. QED  BY <1>5, <2>1, <2>2
  <1>. QED  BY <1>1, <1>2, <1>3, <1>4, <1>6, <1>7, <1>8 DEF Next, ReplicaStep

LEMMA BytesGrow ==
    ASSUME TypeOK, HandshakeInv, [Next]_vars, NEW q \in Replica
    PROVE  bytesIn'[q] >= bytesIn[q]
  <1>1. bytesIn[q] \in Nat /\ Size(toReplica[q][1]) \in Nat
    BY SizeType DEF TypeOK
  <1>2. \/ bytesIn'[q] = bytesIn[q]
        \/ bytesIn'[q] = bytesIn[q] + Size(toReplica[q][1])
    BY EveryStep DEF Kinds, Push, Answer, Take, Process, Still
  <1>. QED  BY <1>1, <1>2

LEMMA AckStep ==
    ASSUME TypeOK, TypeOK', HandshakeInv, AckInv, [Next]_vars
    PROVE  AckInv'
  <1>. SUFFICES ASSUME NEW q \in Replica
                PROVE  /\ acked'[q] <= bytesIn'[q]
                       /\ Reports(toMaster'[q], acked'[q], bytesIn'[q])
    BY DEF AckInv
  <1>1. /\ acked[q] \in Nat /\ acked'[q] \in Nat /\ bytesIn[q] \in Nat /\ bytesIn'[q] \in Nat
        /\ bytesIn[q] <= bytesIn'[q] /\ acked[q] <= bytesIn[q]
        /\ Reports(toMaster[q], acked[q], bytesIn[q])
        /\ TypedAcks(toMaster[q])
    BY BytesGrow, TypedAckStream DEF AckInv, TypeOK
  <1>2. CASE Quiet(q)
    BY <1>1, <1>2 DEF Quiet, Reports, TypedAcks
  <1>3. CASE Report(q)
    BY <1>1, <1>3, ReportsGrown DEF Report
  <1>4. CASE Note(q)
    <2>1. 1 \in 1..Len(toMaster[q])
      BY <1>1, <1>4 DEF Note, Shrunk, TypedAcks
    <2>2. acked'[q] <= bytesIn[q]
      BY <1>1, <1>4, <2>1 DEF Note, Reports, TypedAcks
    <2>3. Reports(toMaster'[q], acked'[q], bytesIn'[q])
      BY <1>1, <1>4, ReportsShrunk DEF Note
    <2>. QED  BY <1>1, <2>2, <2>3
  <1>5. CASE toMaster'[q] = <<>> /\ acked'[q] = acked[q]
    BY <1>1, <1>5, EmptySeq DEF Reports
  <1>. QED  BY <1>2, <1>3, <1>4, <1>5, EveryAckStep DEF AckKinds
-----------------------------------------------------------------------------
(* A write a replica does not have stays in its stream until it has it.    *)

LEMMA CarriesGrown ==
    ASSUME NEW s, NEW t, NEW k, NEW n, NEW g, Len(s) \in Nat, Len(t) \in Nat,
           Len(t) >= Len(s), \A i \in 1..Len(s) : t[i] = s[i], Carries(s, k, n, g)
    PROVE  Carries(t, k, n, g)
  <1>1. \A i \in 1..Len(s) : i \in 1..Len(t)
    OBVIOUS
  <1>. QED  BY <1>1 DEF Carries

LEMMA CarriesShrunk ==
    ASSUME NEW s, NEW t, NEW k, NEW n, NEW g, Len(s) \in Nat, Shrunk(s, t),
           Carries(s, k, n, g),
           ~ (s[1].type = "SET" /\ s[1].key = k /\ s[1].write = n)
    PROVE  Carries(t, k, n, g)
  <1>1. PICK i \in 1..Len(s) : /\ s[i].type = "SET" /\ s[i].key = k /\ s[i].write = n
                               /\ s[i].end <= g
    BY DEF Carries
  <1>2. i # 1
    BY <1>1
  <1>3. i - 1 \in 1..Len(t) /\ i - 1 \in 1..Len(s) - 1 /\ (i - 1) + 1 = i
    BY <1>2 DEF Shrunk
  <1>4. t[i - 1] = s[i]
    BY <1>3 DEF Shrunk
  <1>. QED  BY <1>1, <1>3, <1>4 DEF Carries

(* What is carried behind the first command of the stream lies beyond the  *)
(* count that command brings the receiver to.                              *)
LEMMA CarriedBeyond ==
    ASSUME NEW s, NEW k, NEW n, NEW g \in Nat, NEW b \in Nat, NEW p \in Nat, Typed(s),
           Len(s) >= 1, s[1].type \in Pushed, Stretch(s, b, p), Carries(s, k, n, g),
           ~ (s[1].type = "SET" /\ s[1].key = k /\ s[1].write = n)
    PROVE  b + Size(s[1]) < g
  <1>1. PICK i \in 1..Len(s) : /\ s[i].type = "SET" /\ s[i].key = k /\ s[i].write = n
                               /\ s[i].end <= g
    BY DEF Carries
  <1>2. 1 \in 1..Len(s) /\ 1 < i /\ s[i].type \in Pushed
    BY <1>1 DEF Typed, Pushed
  <1>3. b + Size(s[1]) <= s[1].end /\ s[1].end + Size(s[i]) <= s[i].end
    BY <1>1, <1>2 DEF Stretch
  <1>4. s[1].end \in Nat /\ s[i].end \in Nat
    BY <1>1, <1>2 DEF Typed
  <1>. QED  BY <1>1, <1>3, <1>4, SizeType

(* What a replica holds under a key is the number of a write.              *)
LEMMA HeldType ==
    ASSUME TypeOK, TypeOK'
    PROVE  \A q \in Replica, k \in Key : rstore[q][k] \in Nat /\ rstore'[q][k] \in Nat
  <1>1. rstore \in [Replica -> [Key -> Nat]] /\ rstore' \in [Replica -> [Key -> Nat]]
    BY DEF TypeOK
  <1>. QED  BY <1>1

LEMMA CoversStep ==
    ASSUME TypeOK, TypeOK', HandshakeInv, StreamInv, OrderInv, [Next]_vars,
           NEW q \in Replica, NEW k \in Key, NEW n \in Nat, NEW g \in Nat,
           Covers(q, k, n, g)
    PROVE  /\ rstore'[q][k] >= rstore[q][k]
           /\ rstore'[q][k] < n =>
                /\ bytesIn'[q] < g
                /\ conn'[q] # "off"
                /\ conn'[q] = "open" => Carries(toReplica'[q], k, n, g)
  <1>0. /\ rstore[q] \in [Key -> Nat] /\ rstore'[q] \in [Key -> Nat]
        /\ rstore[q][k] \in Nat /\ rstore'[q][k] \in Nat
        /\ Len(toReplica[q]) \in Nat /\ Len(toReplica'[q]) \in Nat
        /\ Typed(toReplica[q]) /\ bytesIn[q] \in Nat /\ pushed[q] \in Nat
    <2>1. rstore[q] \in [Key -> Nat] /\ rstore'[q] \in [Key -> Nat]
      BY DEF TypeOK
    <2>2. bytesIn[q] \in Nat /\ pushed[q] \in Nat
      BY DEF TypeOK
    <2>3. toReplica'[q] \in Seq(ToReplicaMsg)
      BY DEF TypeOK
    <2>4. Len(toReplica'[q]) \in Nat
      BY <2>3, LenProperties
    <2>5. Typed(toReplica[q]) /\ Len(toReplica[q]) \in Nat
      BY TypedStream DEF Typed
    <2>. QED  BY <2>1, <2>2, <2>4, <2>5, HeldType
  <1>1. rstore[q][k] < n =>
          /\ bytesIn[q] < g /\ conn[q] # "off"
          /\ conn[q] = "open" => Carries(toReplica[q], k, n, g)
    BY DEF Covers
  <1>2. CASE conn'[q] = conn[q] /\ Still(q) /\ toReplica'[q] = toReplica[q]
    BY <1>0, <1>1, <1>2 DEF Still
  <1>3. CASE conn'[q] = conn[q] /\ (Push(q) \/ Answer(q))
    <2>1. /\ Still(q) /\ Len(toReplica'[q]) >= Len(toReplica[q])
          /\ \A i \in 1..Len(toReplica[q]) : toReplica'[q][i] = toReplica[q][i]
      <3>1. CASE Push(q)
        BY <1>0, <3>1 DEF Push, Grows, Grown
      <3>2. CASE Answer(q)
        <4>1. \A i \in 1..Len(toReplica[q]) :
                 i \in 1..Len(toReplica'[q]) /\ i <= Len(toReplica[q])
          BY <1>0, <3>2 DEF Answer
        <4>. QED  BY <3>2, <4>1 DEF Answer
      <3>. QED  BY <1>3, <3>1, <3>2
    <2>2. Carries(toReplica[q], k, n, g) => Carries(toReplica'[q], k, n, g)
      BY <1>0, <2>1, CarriesGrown
    <2>. QED  BY <1>0, <1>1, <1>3, <2>1, <2>2 DEF Still
  <1>4. CASE conn'[q] = "open" /\ conn[q] = "open" /\ Take(q)
    <2>1. /\ Still(q) /\ Shrunk(toReplica[q], toReplica'[q])
          /\ toReplica[q][1].type # "SET"
      BY <1>4 DEF Take, Shrinks, Pushed
    <2>2. Carries(toReplica[q], k, n, g) => Carries(toReplica'[q], k, n, g)
      BY <1>0, <2>1, CarriesShrunk
    <2>. QED  BY <1>0, <1>1, <1>4, <2>1, <2>2 DEF Still
  <1>5. CASE conn'[q] = "open" /\ conn[q] = "open" /\ Process(q)
    <2>. DEFINE m == toReplica[q][1]
    <2>1. /\ Shrunk(toReplica[q], toReplica'[q]) /\ m.type \in Pushed
          /\ bytesIn'[q] = bytesIn[q] + Size(m)
          /\ rstore'[q] = IF m.type = "SET"
                          THEN [rstore[q] EXCEPT ![m.key] = m.write] ELSE rstore[q]
      BY <1>5 DEF Process, Shrinks
    <2>2. 1 \in 1..Len(toReplica[q])
      BY <1>0, <2>1 DEF Shrunk
    <2>3. m.type = "SET" => m.key \in Key /\ m.write \in Nat /\ rstore[q][m.key] < m.write
      BY <1>0, <1>5, <2>2 DEF OrderInv, Ordered, Typed
    <2>4. rstore'[q][k] >= rstore[q][k]
      BY <1>0, <2>1, <2>3
    <2>5. ASSUME rstore'[q][k] < n
          PROVE  bytesIn'[q] < g /\ Carries(toReplica'[q], k, n, g)
      <3>1. rstore[q][k] < n
        BY <1>0, <2>4, <2>5
      <3>2. Carries(toReplica[q], k, n, g)
        BY <1>1, <1>5, <3>1
      <3>3. ~ (m.type = "SET" /\ m.key = k /\ m.write = n)
        BY <1>0, <2>1, <2>5
      <3>4. Stretch(toReplica[q], bytesIn[q], pushed[q])
        BY <1>5 DEF StreamInv
      <3>5. bytesIn[q] + Size(m) < g
        BY <1>0, <2>1, <2>2, <3>2, <3>3, <3>4, CarriedBeyond
      <3>. QED  BY <1>0, <2>1, <3>2, <3>3, <3>5, CarriesShrunk
    <2>. QED  BY <1>5, <2>4, <2>5
  <1>6. CASE conn'[q] = "open" /\ conn[q] = "off" /\ Still(q) /\ toReplica'[q] = <<>>
    BY <1>0, <1>1, <1>6 DEF Still
  <1>7. CASE conn'[q] \in {"dead", "closed"} /\ conn[q] \in {"open", "dead"} /\ Still(q)
    BY <1>0, <1>1, <1>7 DEF Still
  <1>. QED  BY <1>2, <1>3, <1>4, <1>5, <1>6, <1>7, EveryStep DEF Kinds

LEMMA ValuesGrow ==
    ASSUME TypeOK, TypeOK', HandshakeInv, StreamInv, OrderInv, [Next]_vars,
           NEW q \in Replica, NEW k \in Key
    PROVE  rstore'[q][k] >= rstore[q][k]
  <1>1. Covers(q, k, 0, 0)
    BY HeldType DEF Covers
  <1>. QED  BY <1>1, CoversStep

LEMMA PushedWriteType ==
    ASSUME TypeOK, NEW q \in Replica, NEW k \in Key
    PROVE  PushedWrite(q, k) \in Nat
  BY DEF TypeOK, PushedWrite

(* When the last write pushed to a replica changes.                        *)
LEMMA PushedWriteStep ==
    ASSUME TypeOK, OrderInv, [Next]_vars, NEW q \in Replica, NEW k \in Key
    PROVE  \/ PushedWrite(q, k)' = PushedWrite(q, k)
           \/ PushedWrite(q, k)' = 0
           \/ /\ \E c \in Client, h \in Hole : Set(c, k, h)
              /\ reg[q] = "WRITE" /\ PushedWrite(q, k)' = nsets + 1
  <1>1. ASSUME NEW c \in Client, NEW l \in Key, NEW h \in Hole, Set(c, l, h)
        PROVE  \/ PushedWrite(q, k)' = PushedWrite(q, k)
               \/ PushedWrite(q, k)' = 0
               \/ l = k /\ reg[q] = "WRITE" /\ PushedWrite(q, k)' = nsets + 1
    BY <1>1 DEF Set, PushedWrite, TypeOK
  <1>2. ASSUME NEW r \in Replica, MasterPsync(r)
        PROVE  PushedWrite(q, k)' = PushedWrite(q, k) \/ PushedWrite(q, k)' = 0
    <2>1. /\ UNCHANGED store /\ store[k] <= nsets /\ store[k] \in Nat /\ nsets \in Nat
          /\ joined' = [joined EXCEPT ![r] = nsets]
          /\ reg' = [reg EXCEPT ![r] = IF @ = "none" THEN @ ELSE "WRITE"]
      BY <1>2 DEF MasterPsync, OrderInv, TypeOK
    <2>2. CASE q = r
      <3>1. joined'[q] = nsets
        BY <2>1, <2>2 DEF TypeOK
      <3>. QED  BY <2>1, <3>1 DEF PushedWrite
    <2>3. CASE q # r
      BY <2>1, <2>3 DEF PushedWrite, TypeOK
    <2>. QED  BY <2>2, <2>3
  <1>3. ASSUME NEW r \in Replica, MasterReplConf(r) \/ MasterAck(r) \/ MasterCloses(r)
        PROVE  PushedWrite(q, k)' = PushedWrite(q, k) \/ PushedWrite(q, k)' = 0
    <2>1. /\ UNCHANGED <<store, joined>>
          /\ reg'[q] = reg[q] \/ reg'[q] # "WRITE"
      BY <1>3 DEF MasterReplConf, MasterAck, MasterCloses, AddReplica, TypeOK
    <2>. QED  BY <2>1 DEF PushedWrite
  <1>4. ASSUME \/ \E c \in Client, count \in Count, w \in WaitId : Wait(c, count, w)
               \/ \E c \in Client : ClientCloses(c)
               \/ \E w \in WaitId : WaitTimeout(w)
               \/ \E r \in Replica : \/ MasterPing(r) \/ MasterWritesToDead(r) \/ ReplicaJams(r)
                                     \/ ReplicaConnects(r) \/ ReplicaHandshake(r)
                                     \/ ReplicaProcess(r) \/ ReplicaDies(r)
               \/ UNCHANGED vars
        PROVE  PushedWrite(q, k)' = PushedWrite(q, k)
    <2>1. UNCHANGED <<store, joined, reg>>
      BY <1>4 DEF Wait, ClientCloses, WaitTimeout, MasterPing, MasterWritesToDead, ReplicaJams,
                  ReplicaConnects, ReplicaHandshake, ReplicaProcess, ReplicaDies,
                  masterVars, vars
    <2>. QED  BY <2>1 DEF PushedWrite
  <1>. QED  BY <1>1, <1>2, <1>3, <1>4 DEF Next, ReplicaStep

LEMMA PushedGrow ==
    ASSUME TypeOK, [Next]_vars, NEW q \in Replica
    PROVE  pushed'[q] >= pushed[q]
  <1>0. pushed[q] \in Nat /\ SetSize \in Nat /\ GetAckSize \in Nat
    BY ReplicationAssumption DEF TypeOK
  <1>1. ASSUME NEW c \in Client, NEW k \in Key, NEW h \in Hole, Set(c, k, h)
        PROVE  pushed'[q] >= pushed[q]
    BY <1>0, <1>1, SetStream
  <1>2. ASSUME NEW c \in Client, NEW count \in Count, NEW w \in WaitId, Wait(c, count, w)
        PROVE  pushed'[q] >= pushed[q]
    BY <1>0, <1>2, WaitStream
  <1>3. ASSUME \/ \E c \in Client : ClientCloses(c)
               \/ \E w \in WaitId : WaitTimeout(w)
               \/ \E r \in Replica : ReplicaStep(r)
               \/ UNCHANGED vars
        PROVE  pushed'[q] >= pushed[q]
    <2>1. UNCHANGED pushed
      BY <1>3 DEF ClientCloses, WaitTimeout, ReplicaStep, MasterPing, MasterReplConf,
                  MasterPsync, MasterAck, MasterCloses, MasterWritesToDead, ReplicaJams,
                  ReplicaConnects, ReplicaHandshake, ReplicaProcess, ReplicaDies,
                  masterVars, vars
    <2>. QED  BY <1>0, <2>1
  <1>. QED  BY <1>1, <1>2, <1>3 DEF Next

LEMMA CarriesMore ==
    ASSUME NEW s, NEW k, NEW n, NEW g \in Nat, NEW h \in Nat, Typed(s), g <= h,
           Carries(s, k, n, g)
    PROVE  Carries(s, k, n, h)
  BY DEF Carries, Typed, Pushed

LEMMA PushedStep ==
    ASSUME TypeOK, TypeOK', HandshakeInv, StreamInv, OrderInv, StoreInv, [Next]_vars
    PROVE  StoreInv'
  <1>. SUFFICES ASSUME NEW q \in Replica, NEW k \in Key
                PROVE  Covers(q, k, PushedWrite(q, k), pushed[q])'
    BY DEF StoreInv
  <1>. DEFINE n == PushedWrite(q, k)
  <1>0. /\ n \in Nat /\ pushed[q] \in Nat /\ pushed'[q] \in Nat /\ pushed'[q] >= pushed[q]
        /\ Covers(q, k, n, pushed[q]) /\ rstore'[q][k] \in Nat
        /\ bytesIn'[q] \in Nat /\ Typed(toReplica'[q])
    <2>2. Len(toReplica'[q]) \in Nat
          /\ \A i \in 1..Len(toReplica'[q]) : toReplica'[q][i] \in ToReplicaMsg
      BY LenProperties, ElementOfSeq DEF TypeOK
    <2>3. Typed(toReplica'[q])
      BY <2>2 DEF Typed, ToReplicaMsg, Pushed
    <2>. QED  BY <2>3, PushedWriteType, PushedGrow DEF StoreInv, TypeOK
  <1>1. CASE PushedWrite(q, k)' = n
    <2>1. rstore'[q][k] < n =>
            /\ bytesIn'[q] < pushed[q]
            /\ conn'[q] # "off"
            /\ conn'[q] = "open" => Carries(toReplica'[q], k, n, pushed[q])
      BY <1>0, CoversStep
    <2>2. Carries(toReplica'[q], k, n, pushed[q]) => Carries(toReplica'[q], k, n, pushed'[q])
      BY <1>0, CarriesMore
    <2>3. rstore'[q][k] < n =>
            /\ bytesIn'[q] < pushed'[q]
            /\ conn'[q] # "off"
            /\ conn'[q] = "open" => Carries(toReplica'[q], k, n, pushed'[q])
      BY <1>0, <2>1, <2>2
    <2>. QED  BY <1>1, <2>3 DEF Covers
  <1>2. CASE PushedWrite(q, k)' = 0
    BY <1>0, <1>2 DEF Covers
  <1>3. ASSUME NEW c \in Client, NEW h \in Hole, Set(c, k, h), reg[q] = "WRITE", PushedWrite(q, k)' = nsets + 1
        PROVE  Covers(q, k, PushedWrite(q, k), pushed[q])'
    <2>. DEFINE m == SetMsg(k, nsets + 1, pushed[q] + SetSize)
    <2>1. Grown(toReplica[q], toReplica'[q], m) /\ pushed'[q] = pushed[q] + SetSize
      BY <1>3, SetStream DEF Grows
    <2>2. m.type = "SET" /\ m.key = k /\ m.write = nsets + 1 /\ m.end = pushed'[q]
      BY <2>1 DEF SetMsg
    <2>. HIDE DEF m
    <2>3. Len(toReplica[q]) \in Nat
      BY LenType
    <2>4. Carries(toReplica'[q], k, nsets + 1, pushed'[q])
      <3>1. /\ Len(toReplica[q]) + 1 \in 1..Len(toReplica'[q])
            /\ toReplica'[q][Len(toReplica[q]) + 1] = m
        BY <2>1, <2>3 DEF Grown
      <3>. QED  BY <1>0, <2>2, <3>1 DEF Carries
    <2>5. bytesIn'[q] = bytesIn[q] /\ bytesIn[q] <= pushed[q] /\ bytesIn[q] \in Nat
      BY <1>3 DEF Set, replicaVars, StreamInv, TypeOK
    <2>6. bytesIn'[q] < pushed'[q]
      BY <1>0, <2>1, <2>5, ReplicationAssumption
    <2>7. conn'[q] # "off"
      BY <1>3 DEF Set, HandshakeInv
    <2>. QED  BY <1>3, <2>4, <2>6, <2>7 DEF Covers
  <1>. QED  BY <1>1, <1>2, <1>3, PushedWriteStep

-----------------------------------------------------------------------------
(* What a WAIT counts.                                                     *)

(* What a step does to a WAIT.                                             *)
Same(w) == wait'[w] = wait[w]

Issued(w) ==
    \E c \in Client, count \in Count : wait'[w] = SetUpWait(c, count)

TimedOut(w) == Pending(w) /\ wait'[w] = [wait[w] EXCEPT !.state = "timeout"]

Acknowledged(w) ==
    \E r \in Replica, n \in Nat :
        n <= bytesIn[r] /\ wait'[w] = UpdateReplicaAck(wait[w], r, n)

WaitKinds(w) == Same(w) \/ Issued(w) \/ TimedOut(w) \/ Acknowledged(w)

(* An acknowledgement the master reads is one the replica's bytes cover.   *)
LEMMA AckRead ==
    ASSUME TypeOK, AckInv, NEW r \in Replica, MasterAck(r)
    PROVE  Head(toMaster[r]).offset \in Nat /\ Head(toMaster[r]).offset <= bytesIn[r]
  <1>1. Reads(r) /\ Read(r) /\ Head(toMaster[r]).type = "ACK"
    BY DEF MasterAck
  <1>2. Head(toMaster[r]) = toMaster[r][1] /\ Shrunk(toMaster[r], toMaster'[r])
    BY <1>1, ReadMaster
  <1>3. 1 \in 1..Len(toMaster[r]) /\ toMaster[r][1].type = "ACK"
    BY <1>1, <1>2, LenType DEF Shrunk
  <1>. QED  BY <1>2, <1>3, TypedAckStream DEF AckInv, Reports, TypedAcks

LEMMA EveryWaitStep ==
    ASSUME TypeOK, AckInv, [Next]_vars, NEW w \in WaitId
    PROVE  WaitKinds(w)
  <1>1. ASSUME NEW c \in Client, NEW count \in Count, NEW v \in WaitId, Wait(c, count, v)
        PROVE  WaitKinds(w)
    <2>1. wait' = [wait EXCEPT ![v] = SetUpWait(c, count)]
      BY <1>1 DEF Wait
    <2>. QED  BY <2>1 DEF WaitKinds, Same, Issued, TypeOK
  <1>2. ASSUME NEW v \in WaitId, WaitTimeout(v)
        PROVE  WaitKinds(w)
    <2>1. Pending(v) /\ wait' = [wait EXCEPT ![v].state = "timeout"]
      BY <1>2 DEF WaitTimeout
    <2>. QED  BY <2>1 DEF WaitKinds, Same, TimedOut, TypeOK
  <1>3. ASSUME NEW r \in Replica, MasterAck(r)
        PROVE  WaitKinds(w)
    <2>. DEFINE n == Head(toMaster[r]).offset
    <2>1. n \in Nat /\ n <= bytesIn[r]
      BY <1>3, AckRead
    <2>2. wait' = wait \/ wait' = [v \in WaitId |-> UpdateReplicaAck(wait[v], r, n)]
      BY <1>3 DEF MasterAck
    <2>. HIDE DEF n
    <2>. QED  BY <2>1, <2>2 DEF WaitKinds, Same, Acknowledged
  <1>4. ASSUME \/ \E c \in Client, k \in Key, h \in Hole : Set(c, k, h)
               \/ \E c \in Client : ClientCloses(c)
               \/ \E r \in Replica :
                    \/ MasterPing(r) \/ MasterReplConf(r) \/ MasterPsync(r)
                    \/ MasterCloses(r) \/ MasterWritesToDead(r) \/ ReplicaJams(r) \/ ReplicaConnects(r)
                    \/ ReplicaHandshake(r) \/ ReplicaProcess(r) \/ ReplicaDies(r)
               \/ UNCHANGED vars
        PROVE  WaitKinds(w)
    <2>1. UNCHANGED wait
      BY <1>4 DEF Set, ClientCloses, MasterPing, MasterReplConf, MasterPsync, MasterCloses,
                  MasterWritesToDead, ReplicaJams, ReplicaConnects, ReplicaHandshake, ReplicaProcess,
                  ReplicaDies, vars
    <2>. QED  BY <2>1 DEF WaitKinds, Same
  <1>. QED  BY <1>1, <1>2, <1>3, <1>4 DEF Next, ReplicaStep

(* The goals and the writes of a WAIT are those of the moment it is issued *)
(* and never change again.                                                 *)
LEMMA GoalStep ==
    ASSUME TypeOK, AckInv, [Next]_vars, NEW w \in WaitId
    PROVE  \/ /\ wait'[w].goal = wait[w].goal /\ wait'[w].due = wait[w].due
              /\ wait'[w].members = wait[w].members
           \/ /\ wait'[w].goal = pushed
              /\ wait'[w].due = [r \in Replica |-> [k \in Key |-> PushedWrite(r, k)]]
              /\ wait'[w].members = Registered
  <1>1. wait[w] \in WaitRecord
    BY DEF TypeOK
  <1>2. CASE Same(w)
    BY <1>2 DEF Same
  <1>3. CASE Issued(w)
    BY <1>3 DEF Issued, SetUpWait
  <1>4. CASE TimedOut(w)
    BY <1>1, <1>4 DEF TimedOut, WaitRecord
  <1>5. CASE Acknowledged(w)
    BY <1>1, <1>5 DEF Acknowledged, UpdateReplicaAck, WaitRecord
  <1>. QED  BY <1>2, <1>3, <1>4, <1>5, EveryWaitStep DEF WaitKinds

LEMMA DueStep ==
    ASSUME TypeOK, TypeOK', HandshakeInv, StreamInv, OrderInv, AckInv, StoreInv, DueInv,
           [Next]_vars
    PROVE  DueInv'
  <1>. SUFFICES ASSUME NEW w \in WaitId, NEW r \in Replica, NEW k \in Key
                PROVE  Covers(r, k, wait[w].due[r][k], wait[w].goal[r])'
    BY DEF DueInv
  <1>. DEFINE n == wait'[w].due[r][k]
              g == wait'[w].goal[r]
  <1>1. n \in Nat /\ g \in Nat
    <2>1. wait'[w] \in WaitRecord
      BY DEF TypeOK
    <2>2. wait'[w].due \in [Replica -> [Key -> Nat]] /\ wait'[w].goal \in [Replica -> Nat]
      BY <2>1 DEF WaitRecord
    <2>. QED  BY <2>2
  <1>2. Covers(r, k, n, g)
    <2>1. Covers(r, k, wait[w].due[r][k], wait[w].goal[r])
      BY DEF DueInv
    <2>2. Covers(r, k, PushedWrite(r, k), pushed[r])
      BY DEF StoreInv
    <2>3. CASE wait'[w].goal = wait[w].goal /\ wait'[w].due = wait[w].due
      BY <2>1, <2>3
    <2>4. CASE /\ wait'[w].goal = pushed
               /\ wait'[w].due = [q \in Replica |-> [l \in Key |-> PushedWrite(q, l)]]
      <3>1. n = PushedWrite(r, k) /\ g = pushed[r]
        BY <2>4
      <3>. QED  BY <2>2, <3>1
    <2>. QED  BY <2>3, <2>4, GoalStep
  <1>. HIDE DEF n, g
  <1>3. rstore'[r][k] < n =>
          /\ bytesIn'[r] < g
          /\ conn'[r] # "off"
          /\ conn'[r] = "open" => Carries(toReplica'[r], k, n, g)
    BY <1>1, <1>2, CoversStep
  <1>. QED  BY <1>3 DEF Covers, n, g

LEMMA WaitlistStep ==
    ASSUME TypeOK, AckInv, WaitlistInv, [Next]_vars
    PROVE  WaitlistInv'
  <1>. SUFFICES ASSUME NEW w \in WaitId
                PROVE  wait'[w].waitlist \subseteq wait'[w].members
    BY DEF WaitlistInv
  <1>1. wait[w] \in WaitRecord /\ wait[w].waitlist \subseteq wait[w].members
    BY DEF TypeOK, WaitlistInv
  <1>2. CASE Same(w)
    BY <1>1, <1>2 DEF Same
  <1>3. CASE Issued(w)
    BY <1>3 DEF Issued, SetUpWait, Behind
  <1>4. CASE TimedOut(w)
    BY <1>1, <1>4 DEF TimedOut, WaitRecord
  <1>5. CASE Acknowledged(w)
    BY <1>1, <1>5 DEF Acknowledged, UpdateReplicaAck, WaitRecord
  <1>. QED  BY <1>2, <1>3, <1>4, <1>5, EveryWaitStep DEF WaitKinds

(* The invariant for one WAIT, as a set that proves its count.             *)
Counted(w, S) ==
    /\ S \subseteq wait[w].members
    /\ Cardinality(S) = wait[w].ready
    /\ \A r \in S : Holds(r, w)
    /\ Pending(w) => S \cap wait[w].waitlist = {}

LEMMA CountStep ==
    ASSUME TypeOK, TypeOK', HandshakeInv, StreamInv, OrderInv, AckInv, StoreInv, DueInv,
           CountInv, WaitlistInv, [Next]_vars
    PROVE  CountInv'
  <1>. SUFFICES ASSUME NEW w \in WaitId PROVE \E S : Counted(w, S)'
    BY DEF CountInv, Counted
  <1>1. PICK S : Counted(w, S)
    BY DEF CountInv, Counted
  <1>2. /\ wait[w] \in WaitRecord /\ wait'[w] \in WaitRecord
        /\ wait[w].waitlist \subseteq wait[w].members
    BY DEF TypeOK, WaitlistInv
  <1>3. /\ \A r \in Replica, k \in Key : rstore'[r][k] >= rstore[r][k]
        /\ \A r \in Replica, k \in Key : rstore[r][k] \in Nat /\ rstore'[r][k] \in Nat
    BY ValuesGrow, HeldType
  <1>4. ASSUME NEW r \in Replica, Holds(r, w), wait'[w].due = wait[w].due
        PROVE  Holds(r, w)'
    BY <1>2, <1>3, <1>4 DEF Holds, WaitRecord
  <1>5. CASE Same(w)
    <2>1. \A r \in S : Holds(r, w)'
      BY <1>1, <1>2, <1>4, <1>5 DEF Counted, Same, WaitRecord
    <2>. QED  BY <1>1, <1>5, <2>1 DEF Counted, Same, Pending
  <1>6. CASE TimedOut(w)
    <2>1. /\ wait'[w].due = wait[w].due /\ wait'[w].members = wait[w].members
          /\ wait'[w].ready = wait[w].ready /\ wait'[w].state = "timeout"
      BY <1>2, <1>6 DEF TimedOut, WaitRecord
    <2>2. \A r \in S : Holds(r, w)'
      BY <1>1, <1>2, <1>4, <2>1 DEF Counted, WaitRecord
    <2>. QED  BY <1>1, <2>1, <2>2 DEF Counted, Pending
  <1>7. CASE Issued(w)
    <2>. DEFINE T == Registered \ Behind
    <2>1. /\ wait'[w].due = [r \in Replica |-> [k \in Key |-> PushedWrite(r, k)]]
          /\ wait'[w].members = Registered /\ wait'[w].ready = Cardinality(T)
          /\ wait'[w].waitlist = Behind
      BY <1>7 DEF Issued, SetUpWait
    <2>2. ASSUME NEW r \in T PROVE Holds(r, w)'
      <3>1. r \in Replica /\ acked[r] >= pushed[r]
        BY DEF Registered, Behind, TypeOK
      <3>2. bytesIn[r] >= pushed[r]
        BY <3>1 DEF AckInv, TypeOK
      <3>3. ASSUME NEW k \in Key PROVE rstore'[r][k] >= wait'[w].due[r][k]
        <4>1. ~ (rstore[r][k] < PushedWrite(r, k))
          BY <3>1, <3>2 DEF StoreInv, Covers, TypeOK
        <4>2. wait'[w].due[r][k] = PushedWrite(r, k) /\ PushedWrite(r, k) \in Nat
          BY <2>1, <3>1, PushedWriteType
        <4>. QED  BY <1>3, <3>1, <4>1, <4>2
      <3>. QED  BY <3>3 DEF Holds
    <2>3. T \subseteq Registered /\ T \cap Behind = {}
      OBVIOUS
    <2>. QED  BY <2>1, <2>2, <2>3 DEF Counted
  <1>8. CASE Acknowledged(w)
    <2>1. PICK r \in Replica, n \in Nat :
            n <= bytesIn[r] /\ wait'[w] = UpdateReplicaAck(wait[w], r, n)
      BY <1>8 DEF Acknowledged
    <2>2. wait'[w].due = wait[w].due /\ wait'[w].members = wait[w].members
      BY <1>2, <2>1 DEF UpdateReplicaAck, WaitRecord
    <2>3. \A q \in S : Holds(q, w)'
      BY <1>1, <1>2, <1>4, <2>2 DEF Counted, WaitRecord
    <2>4. CASE wait[w].state # "pending" \/ r \notin wait[w].waitlist
      <3>1. wait'[w] = wait[w]
        BY <2>1, <2>4 DEF UpdateReplicaAck
      <3>. QED  BY <1>1, <2>3, <3>1 DEF Counted, Pending
    <2>5. CASE wait[w].state = "pending" /\ r \in wait[w].waitlist /\ n < wait[w].goal[r]
      <3>1. ~ (n >= wait[w].goal[r])
        BY <1>2, <2>5 DEF WaitRecord
      <3>2. /\ wait'[w].ready = wait[w].ready + 0
            /\ wait'[w].waitlist = wait[w].waitlist \ {r}
        BY <1>2, <2>1, <2>5, <3>1 DEF UpdateReplicaAck, WaitRecord
      <3>3. wait'[w].ready = wait[w].ready
        BY <1>2, <3>2 DEF WaitRecord
      <3>. QED  BY <1>1, <2>2, <2>3, <2>5, <3>2, <3>3 DEF Counted, Pending
    <2>6. CASE wait[w].state = "pending" /\ r \in wait[w].waitlist /\ n >= wait[w].goal[r]
      <3>1. /\ wait'[w].ready = wait[w].ready + 1
            /\ wait'[w].waitlist = wait[w].waitlist \ {r}
        BY <1>2, <2>1, <2>6 DEF UpdateReplicaAck, WaitRecord
      <3>2. Holds(r, w)
        <4>3. wait[w].goal[r] \in Nat
          BY <1>2 DEF WaitRecord
        <4>4. bytesIn[r] \in Nat
          BY DEF TypeOK
        <4>1. wait[w].goal[r] \in Nat /\ bytesIn[r] \in Nat /\ wait[w].goal[r] <= bytesIn[r]
          BY <2>1, <2>6, <4>3, <4>4
        <4>2. \A k \in Key : wait[w].due[r][k] \in Nat
          BY <1>2 DEF WaitRecord
        <4>. QED  BY <1>3, <4>1, <4>2 DEF DueInv, Covers, Holds
      <3>3. Holds(r, w)'
        BY <1>4, <2>2, <3>2
      <3>4. r \notin S /\ r \in wait[w].members /\ S \subseteq Replica
        BY <1>1, <1>2, <2>6 DEF Counted, Pending, WaitRecord
      <3>5. IsFiniteSet(S)
        BY <3>4, FS_Subset, ReplicationAssumption
      <3>8. Cardinality(S \cup {r}) = Cardinality(S) + 1
        BY <3>4, <3>5, FS_AddElement
      <3>9. Cardinality(S) = wait[w].ready
        BY <1>1 DEF Counted
      <3>6. Cardinality(S \cup {r}) = wait'[w].ready
        BY <3>1, <3>8, <3>9
      <3>7. Counted(w, S \cup {r})'
        BY <1>1, <2>2, <2>3, <2>6, <3>1, <3>3, <3>4, <3>6 DEF Counted, Pending
      <3>. QED  BY <3>7
    <2>7. n < wait[w].goal[r] \/ n >= wait[w].goal[r]
      BY <1>2 DEF WaitRecord
    <2>. QED  BY <2>4, <2>5, <2>6, <2>7
  <1>. QED  BY <1>5, <1>6, <1>7, <1>8, EveryWaitStep DEF WaitKinds

(* The invariant holds in the initial states and is kept by every step.    *)
LEMMA InvInit == Init => Inv
  <1>. SUFFICES ASSUME Init PROVE Inv
    OBVIOUS
  <1>. USE DEF Init
  <1>0. \A r \in Replica : Len(toReplica[r]) = 0 /\ Len(toMaster[r]) \in {0}
    BY EmptySeq
  <1>1. HandshakeInv
    BY DEF HandshakeInv
  <1>2. StreamInv /\ OrderInv /\ AckInv
    BY <1>0 DEF StreamInv, OrderInv, AckInv, Reports
  <1>3. \A r \in Replica, k \in Key : \A g : Covers(r, k, 0, g)
    BY DEF Covers
  <1>4. StoreInv
    BY <1>3 DEF StoreInv, PushedWrite
  <1>5. DueInv
    BY <1>3 DEF DueInv, NoWait
  <1>6. WaitlistInv
    BY DEF WaitlistInv, NoWait
  <1>7. CountInv
    <2>1. Cardinality({}) = 0
      BY FS_EmptySet
    <2>. SUFFICES ASSUME NEW w \in WaitId PROVE Counted(w, {})
      BY DEF CountInv, Counted
    <2>. QED  BY <2>1 DEF Counted, NoWait, Pending
  <1>. QED  BY <1>1, <1>2, <1>4, <1>5, <1>6, <1>7 DEF Inv

LEMMA InvStep == TypeOK /\ TypeOK' /\ Inv /\ [Next]_vars => Inv'
  <1>. SUFFICES ASSUME TypeOK, TypeOK', Inv, [Next]_vars PROVE Inv'
    OBVIOUS
  <1>. QED  BY HandshakeStep, StreamStep, OrderStep, AckStep, PushedStep, DueStep, CountStep,
               WaitlistStep DEF Inv

THEOREM InvCorrect == Spec => [](TypeOK /\ Inv)
  <1>1. Init => TypeOK /\ Inv
    BY TypeInit, InvInit
  <1>2. (TypeOK /\ Inv) /\ [Next]_vars => (TypeOK /\ Inv)'
    BY TypeStep, InvStep
  <1>. QED  BY <1>1, <1>2, PTL DEF Spec

-----------------------------------------------------------------------------
(* A replica in the handshake and the master exchange one message at a     *)
(* time, so what ReplicaTalker::listen reads next is what its state awaits *)
(* and no answer or command is ever ignored.                               *)
THEOREM HandshakeCorrect == Spec => []HandshakeInStep
  <1>1. TypeOK /\ Inv => HandshakeInStep
    <2>. SUFFICES ASSUME TypeOK, Inv, NEW r \in Replica, ReplicaReads(r)
                  PROVE  Head(toReplica[r]).type \in Awaited(rstate[r])
      BY DEF HandshakeInStep
    <2>1. /\ toReplica[r] \in Seq(ToReplicaMsg) /\ toReplica[r] # <<>> /\ conn[r] = "open"
          /\ Stage(r) /\ rstate[r] \in RState
      BY DEF TypeOK, ReplicaReads, Inv, HandshakeInv
    <2>2. Len(toReplica[r]) \in Nat \ {0} /\ Head(toReplica[r]) = toReplica[r][1]
      BY <2>1, EmptySeq
    <2>3. CASE rstate[r] = "WAIT_SERVER_COMMANDS"
      BY <2>1, <2>2, <2>3 DEF Stage, PushedFrom, Awaited
    <2>4. CASE rstate[r] # "WAIT_SERVER_COMMANDS"
      BY <2>1, <2>2, <2>4 DEF Stage, Exchange, Only, Awaited, Handshake, RState
    <2>. QED  BY <2>3, <2>4
  <1>. QED  BY <1>1, InvCorrect, PTL

(* ReplicaHandle::bytes_ack, and every acknowledgement on its way to it,   *)
(* never runs ahead of what the replica processed, nor that of what was    *)
(* pushed, and acknowledgements arrive in nondecreasing order.             *)
THEOREM AckCorrect == Spec => []AckedWasProcessed
  <1>1. TypeOK /\ Inv => AckedWasProcessed
    BY DEF Inv, AckInv, StreamInv, Reports, AckedWasProcessed
  <1>. QED  BY <1>1, InvCorrect, PTL

(* The number StorageMiddleware's WaitHandle counts, and answers, is never *)
(* more than the number of replicas that hold every write pushed to them   *)
(* before the WAIT was issued, for any number of replicas, clients, keys   *)
(* and WAITs, whatever connections end and whatever is pushed meanwhile.   *)
THEOREM WaitCorrect == Spec => []WaitSound
  <1>1. TypeOK /\ Inv => WaitSound
    <2>. SUFFICES ASSUME TypeOK, Inv, NEW w \in WaitId
                  PROVE  wait[w].ready <=
                           Cardinality(Holding(w))
      BY DEF WaitSound
    <2>. DEFINE H == Holding(w)
    <2>1. PICK S : Counted(w, S)
      BY DEF Inv, CountInv, Counted
    <2>2. S \subseteq H /\ H \subseteq Replica /\ Cardinality(S) = wait[w].ready
      BY <2>1 DEF Counted, Holding, TypeOK, WaitRecord
    <2>3. IsFiniteSet(H)
      BY <2>2, FS_Subset, ReplicationAssumption
    <2>4. Cardinality(S) <= Cardinality(H)
      BY <2>2, <2>3, FS_Subset
    <2>. QED  BY <2>2, <2>4
  <1>. QED  BY <1>1, InvCorrect, PTL

(* What a replica has for a key only ever gets newer: the SETs reach it in *)
(* the order the master executed them.                                     *)
THEOREM ForwardCorrect == Spec => ReplicaMovesForward
  <1>1. /\ TypeOK /\ Inv /\ (TypeOK /\ Inv)' /\ [Next]_vars
        => [\A r \in Replica, k \in Key : rstore'[r][k] >= rstore[r][k]]_vars
    BY ValuesGrow DEF Inv
  <1>. QED  BY <1>1, InvCorrect, PTL DEF Spec, ReplicaMovesForward
=============================================================================
