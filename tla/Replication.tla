----------------------------- MODULE Replication -----------------------------
(***************************************************************************)
(* The master's StorageMiddleware and the ServerTalker of each of its      *)
(* connections, the ReplicaTalker at the other end of a replica's          *)
(* connection, and the two byte streams between them.                      *)
(*                                                                         *)
(* The master registers a replica at its first REPLCONF, sends it the      *)
(* database file on PSYNC, pushes every later SET to it, and counts the    *)
(* bytes it pushed.  A replica counts the bytes it processed and reports   *)
(* them when asked by REPLCONF GETACK.  WAIT compares the two counters.    *)
(*                                                                         *)
(* A connection is identified with its peer: a talker gets at most one     *)
(* ReplicaId, ids are never reused, and a replica that lost its master     *)
(* never connects again.  A stream is the sequence of messages from the    *)
(* sender's Talker::_pending through both sockets to the receiver's        *)
(* MessageParser, which all keep the order.  Message::to_string writes an  *)
(* empty string as $-1, which no parser reads past: what comes behind it   *)
(* is never parsed, while the connection stays up.                         *)
(***************************************************************************)
EXTENDS Integers, Sequences, FiniteSets

CONSTANTS
    Replica,      \* the replica processes
    Client,       \* the connections that send SET and WAIT
    Key,          \* the keys SET writes
    Hole,         \* where a SET may have an empty string: see Holes
    WaitId,       \* one identity for each WAIT command of a behaviour
    Count,        \* the numbers of replicas a WAIT may ask for
    SetSize,      \* Message::size() of a pushed SET
    GetAckSize,   \* Message::size() of REPLCONF GETACK *
    IntMax,       \* largest offset parseInt() accepts (2^31 - 1 in the code)
    MaxSets       \* bound: how many SET commands clients send

(* A command has no empty string, or one before its last word (the key, or *)
(* a value that PX follows), or only its last word is empty (the value).   *)
Holes == {"none", "inside", "last"}

ASSUME ReplicationAssumption ==
    /\ IsFiniteSet(Replica)
    /\ Hole \subseteq Holes
    /\ SetSize \in Nat \ {0}
    /\ GetAckSize \in Nat \ {0}
    /\ IntMax \in Nat
    /\ MaxSets \in Nat
    /\ Count \subseteq Nat
    /\ Client # {}

VARIABLES
    up,           \* the master process is running
    client,       \* connection of each client, as the master sees it
    conn,         \* connection of each replica
    reg,          \* _replicas and ReplicaHandle::state
    pushed,       \* ReplicaHandle::bytes_pushed
    acked,        \* ReplicaHandle::bytes_ack
    store,        \* master: the SET a key's value comes from, 0 for none
    nsets,        \* number of SET commands the master executed
    hole,         \* where each of them had an empty string
    wait,         \* _waits, and the answers that were given
    toReplica,    \* the stream from the master to a replica
    toMaster,     \* the stream from a replica to the master
    rstate,       \* ReplicaTalker::_state
    bytesIn,      \* ReplicaTalker::_bytes_in
    jammed,       \* MessageParser of the replica: $-1 is the length to come
    rstore,       \* replica: the SET a key's value comes from, 0 for none
    joined        \* history: nsets when the master answered PSYNC

masterVars  == <<reg, pushed, acked, store, nsets, hole, joined>>
replicaVars == <<rstate, bytesIn, jammed, rstore>>
vars == <<up, client, conn, masterVars, wait, toReplica, toMaster, replicaVars>>

-----------------------------------------------------------------------------
(* Messages.  A pushed message carries, as a history field nothing in the  *)
(* code reads, the value of bytes_pushed it brought the stream to.         *)

Plain(t)        == [type |-> t]
SetMsg(k, n, e) == [type |-> "SET", key |-> k, write |-> n, end |-> e]
GetAckMsg(e)    == [type |-> "GETACK", end |-> e]
AckMsg(n)       == [type |-> "ACK", offset |-> n]

Pushed == {"SET", "GETACK"}
SizeUncountedGetAck(m) == IF m.type = "SET" THEN SetSize ELSE 0
Size(m) == IF m.type = "SET" THEN SetSize ELSE GetAckSize

ToReplicaMsg ==
    [type : {"PONG", "OK", "FULLRESYNC", "RDB"}]
      \cup [type : {"SET"}, key : Key, write : Nat, end : Nat]
      \cup [type : {"GETACK"}, end : Nat]
ToMasterMsg ==
    [type : {"PING", "REPLCONF", "PSYNC"}] \cup [type : {"ACK"}, offset : Nat]

(* The states of a ReplicaTalker, from its enumeration.                    *)
RState == {"WAIT_FIRST_PONG", "WAIT_OK_FOR_REPLCONF_PORT",
           "WAIT_OK_FOR_REPLCONF_CAPA", "WAIT_FOR_PSYNC_ANSWER",
           "WAIT_FOR_RDB_FILE_SYNC", "WAIT_SERVER_COMMANDS"}

(* A WAIT.  waitlist and goal are replica_ack_waitlist: a replica is in it  *)
(* when it is in waitlist, and goal is then its value.  An answered WAIT   *)
(* keeps the number it was answered with in ready.  The last three fields  *)
(* are history: the replicas there were, those that then had a GETACK or   *)
(* an ACK under way, and the last write to each key it had been pushed.    *)
WaitRecord ==
    [state : {"idle", "pending", "acked", "timeout"}, client : Client,
     expected : Nat, ready : Nat, waitlist : SUBSET Replica,
     goal : [Replica -> Nat], members : SUBSET Replica,
     owing : SUBSET Replica, due : [Replica -> [Key -> Nat]]]

NoWait ==
    [state |-> "idle", client |-> CHOOSE c \in Client : TRUE, expected |-> 0,
     ready |-> 0, waitlist |-> {}, goal |-> [r \in Replica |-> 0],
     members |-> {}, owing |-> {},
     due |-> [r \in Replica |-> [k \in Key |-> 0]]]

Registered == {r \in Replica : reg[r] \in {"MET", "WRITE"}}
CountReplicas == Cardinality(Registered)
Pending(w) == wait[w].state = "pending"
Answered(w) == wait[w].state \in {"acked", "timeout"}

Init ==
    /\ up = TRUE
    /\ client = [c \in Client |-> "open"]
    /\ conn = [r \in Replica |-> "off"]
    /\ reg = [r \in Replica |-> "none"]
    /\ pushed = [r \in Replica |-> 0]
    /\ acked = [r \in Replica |-> 0]
    /\ store = [k \in Key |-> 0]
    /\ nsets = 0
    /\ hole = <<>>
    /\ joined = [r \in Replica |-> 0]
    /\ wait = [w \in WaitId |-> NoWait]
    /\ toReplica = [r \in Replica |-> <<>>]
    /\ toMaster = [r \in Replica |-> <<>>]
    /\ rstate = [r \in Replica |-> "WAIT_FIRST_PONG"]
    /\ bytesIn = [r \in Replica |-> 0]
    /\ jammed = [r \in Replica |-> FALSE]
    /\ rstore = [r \in Replica |-> [k \in Key |-> 0]]

-----------------------------------------------------------------------------
(* Commands of clients.                                                    *)

(* Talker::next_say: what is said later is sent later.                     *)
EnqueueIfIdle(s, m) == IF s = <<>> THEN <<m>> ELSE s
Enqueue(s, m) == Append(s, m)

(* StorageMiddleware::set and push: the master writes, then every replica  *)
(* in state WRITE is sent the command; one that is only MET is skipped.    *)
Set(c, k, h) ==
    /\ up /\ client[c] = "open" /\ nsets < MaxSets
    /\ nsets' = nsets + 1
    /\ hole' = Append(hole, h)
    /\ store' = [store EXCEPT ![k] = nsets + 1]
    /\ pushed' = [r \in Replica |->
          IF reg[r] = "WRITE" THEN pushed[r] + SetSize ELSE pushed[r]]
    /\ toReplica' = [r \in Replica |->
          IF reg[r] = "WRITE"
          THEN Enqueue(toReplica[r], SetMsg(k, nsets + 1, pushed[r] + SetSize))
          ELSE toReplica[r]]
    /\ UNCHANGED <<up, client, conn, reg, acked, joined, wait, toMaster, replicaVars>>

Smaller(a, b) == IF a <= b THEN a ELSE b

(* Replicas that still owe the master an answer to an earlier GETACK.      *)
Owing == {r \in Replica :
            \/ \E i \in 1..Len(toReplica[r]) : toReplica[r][i].type = "GETACK"
            \/ \E i \in 1..Len(toMaster[r]) : toMaster[r][i].type = "ACK"}

(* The last write to a key that a replica was pushed, 0 if none was.       *)
PushedWrite(r, k) == IF reg[r] = "WRITE" /\ store[k] > joined[r] THEN store[k] ELSE 0

(* WaitHandle's constructor and setup: the number asked for is cut to the   *)
(* number of replicas, the replicas whose last acknowledgement covers what *)
(* was pushed to them are ready at once, and the others are on the list.   *)
Behind == {r \in Registered : acked[r] < pushed[r]}

SetUpWait(c, count) ==
    LET expected == Smaller(count, CountReplicas)
        ready == Cardinality(Registered \ Behind)
    IN  [state |-> IF expected <= ready THEN "acked" ELSE "pending",
         client |-> c, expected |-> expected, ready |-> ready,
         waitlist |-> Behind, goal |-> pushed, members |-> Registered,
         owing |-> Owing,
         due |-> [r \in Replica |-> [k \in Key |-> PushedWrite(r, k)]]]

(* ServerTalker's WAIT branch, wait_for and setup: a WAIT that has enough  *)
(* replicas is answered in the call; any other asks the replicas on its    *)
(* list for their offsets and arms its timeout.                            *)
Wait(c, count, w) ==
    /\ up /\ client[c] = "open" /\ wait[w].state = "idle"
    /\ wait' = [wait EXCEPT ![w] = SetUpWait(c, count)]
    /\ LET asked == IF SetUpWait(c, count).state = "pending" THEN Behind ELSE {}
       IN  /\ pushed' = [r \in Replica |->
                 IF r \in asked THEN pushed[r] + GetAckSize ELSE pushed[r]]
           /\ toReplica' = [r \in Replica |->
                 IF r \in asked
                 THEN Enqueue(toReplica[r], GetAckMsg(pushed[r] + GetAckSize))
                 ELSE toReplica[r]]
    /\ UNCHANGED <<up, client, conn, reg, acked, store, nsets, hole, joined,
                   toMaster, replicaVars>>

(* WaitHandle::reply calls the slot of a talker that may be destroyed: the *)
(* WAIT keeps the slot, whose function holds a bare pointer to its talker. *)
(* The process may then fail, or the answer goes nowhere.                  *)
Reply(ws) ==
    IF \E w \in ws : client[wait[w].client] = "closed"
    THEN up' \in BOOLEAN
    ELSE up' = up

(* The timeout job of a pending WAIT: the answer is what is ready by then. *)
WaitTimeoutOfLiveClient(w) ==
    /\ up /\ Pending(w) /\ client[wait[w].client] = "open"
    /\ wait' = [wait EXCEPT ![w].state = "timeout"]
    /\ UNCHANGED <<up, client, conn, masterVars, toReplica, toMaster, replicaVars>>

WaitTimeout(w) ==
    /\ up /\ Pending(w)
    /\ wait' = [wait EXCEPT ![w].state = "timeout"]
    /\ Reply({w})
    /\ UNCHANGED <<client, conn, masterVars, toReplica, toMaster, replicaVars>>

(* The connection of a client ends; a WAIT of this client stays in _waits. *)
ClientCloses(c) ==
    /\ up /\ client[c] = "open"
    /\ client' = [client EXCEPT ![c] = "closed"]
    /\ UNCHANGED <<up, conn, masterVars, wait, toReplica, toMaster, replicaVars>>

-----------------------------------------------------------------------------
(* The master's end of a replica's connection.                             *)

Reads(r) == up /\ conn[r] \in {"open", "dead"} /\ toMaster[r] # <<>>
Tell(r, ms) == toReplica' = [toReplica EXCEPT ![r] = @ \o ms]
Read(r) == toMaster' = [toMaster EXCEPT ![r] = Tail(@)]

MasterPing(r) ==
    /\ Reads(r) /\ Head(toMaster[r]).type = "PING"
    /\ Read(r) /\ Tell(r, <<Plain("PONG")>>)
    /\ UNCHANGED <<up, client, conn, masterVars, wait, replicaVars>>

(* The first REPLCONF of a connection, whatever it says, registers it.     *)
AddReplicaForWrite(r) == reg' = [reg EXCEPT ![r] = "WRITE"]
AddReplicaForResync(r) == reg' = [reg EXCEPT ![r] = IF @ = "none" THEN "RESYNC" ELSE @]
AddReplica(r) == reg' = [reg EXCEPT ![r] = IF @ = "none" THEN "MET" ELSE @]

MasterReplConf(r) ==
    /\ Reads(r) /\ Head(toMaster[r]).type = "REPLCONF"
    /\ Read(r) /\ Tell(r, <<Plain("OK")>>) /\ AddReplica(r)
    /\ UNCHANGED <<up, client, conn, pushed, acked, store, nsets, hole, joined,
                   wait, replicaVars>>

(* The database file is the one on disk: nothing this process was told to  *)
(* SET is in it.  A connection with no ReplicaId makes value() throw after *)
(* both answers were queued, and no state is set.                          *)
MasterPsync(r) ==
    /\ Reads(r) /\ Head(toMaster[r]).type = "PSYNC"
    /\ Read(r) /\ Tell(r, <<Plain("FULLRESYNC"), Plain("RDB")>>)
    /\ reg' = [reg EXCEPT ![r] = IF @ = "none" THEN @ ELSE "WRITE"]
    /\ joined' = [joined EXCEPT ![r] = nsets]
    /\ UNCHANGED <<up, client, conn, pushed, acked, store, nsets, hole, wait,
                   replicaVars>>

(* WaitHandle::update_replica_ack: the replica leaves the list whatever it *)
(* acknowledged, and is ready if that covers what the WAIT waits for.      *)
UpdateReplicaAckAnyOffset(v, r, n) ==
    IF v.state # "pending" \/ r \notin v.waitlist
    THEN v
    ELSE [v EXCEPT !.waitlist = @ \ {r}, !.ready = @ + 1,
                   !.state = IF v.expected <= v.ready + 1 THEN "acked" ELSE "pending"]

UpdateReplicaAckBeyond(v, r, n) ==
    IF v.state # "pending" \/ r \notin v.waitlist
    THEN v
    ELSE LET ready == v.ready + (IF n > v.goal[r] THEN 1 ELSE 0)
         IN  [v EXCEPT !.waitlist = @ \ {r}, !.ready = ready,
                       !.state = IF v.expected <= ready THEN "acked" ELSE "pending"]

UpdateReplicaAckAfterAnswer(v, r, n) ==
    IF v.state = "idle" \/ r \notin v.waitlist
    THEN v
    ELSE LET ready == v.ready + (IF n >= v.goal[r] THEN 1 ELSE 0)
         IN  [v EXCEPT !.waitlist = @ \ {r}, !.ready = ready,
                       !.state = IF v.expected <= ready THEN "acked" ELSE "pending"]

UpdateReplicaAck(v, r, n) ==
    IF v.state # "pending" \/ r \notin v.waitlist
    THEN v
    ELSE LET ready == v.ready + (IF n >= v.goal[r] THEN 1 ELSE 0)
         IN  [v EXCEPT !.waitlist = @ \ {r},
                       !.ready = ready,
                       !.state = IF n >= v.goal[r] /\ v.expected <= ready
                                 THEN "acked" ELSE "pending"]

(* ReplicaHandle::process_conf for an acknowledgement; an offset parseInt  *)
(* cannot hold changes nothing.                                            *)
MasterAck(r) ==
    /\ Reads(r) /\ Head(toMaster[r]).type = "ACK"
    /\ Read(r) /\ AddReplica(r)
    /\ LET n == Head(toMaster[r]).offset
       IN  IF n <= IntMax
           THEN /\ acked' = [acked EXCEPT ![r] = n]
                /\ wait' = [w \in WaitId |-> UpdateReplicaAck(wait[w], r, n)]
           ELSE UNCHANGED <<acked, wait>>
    /\ Reply({w \in WaitId : Pending(w) /\ wait'[w].state = "acked"})
    /\ UNCHANGED <<client, conn, pushed, store, nsets, hole, joined, toReplica,
                   replicaVars>>

(* Handler::close and ServerTalker::interrupt, when the master finds the   *)
(* peer gone: what it had not parsed is dropped, the replica is erased     *)
(* from _replicas, and no WAIT is told.  process_read then goes on in the  *)
(* erased Handler, which the process may not survive.                      *)
MasterCloses(r) ==
    /\ up /\ conn[r] = "dead"
    /\ conn' = [conn EXCEPT ![r] = "closed"]
    /\ reg' = [reg EXCEPT ![r] = "none"]
    /\ toReplica' = [toReplica EXCEPT ![r] = <<>>]
    /\ toMaster' = [toMaster EXCEPT ![r] = <<>>]
    /\ up' \in BOOLEAN
    /\ UNCHANGED <<client, pushed, acked, store, nsets, hole, joined, wait,
                   replicaVars>>

(* Handler::write to a peer that is gone: SIGPIPE is not ignored.          *)
MasterWritesToDead(r) ==
    /\ up /\ conn[r] = "dead" /\ toReplica[r] # <<>>
    /\ up' = FALSE
    /\ UNCHANGED <<client, conn, masterVars, wait, toReplica, toMaster, replicaVars>>

-----------------------------------------------------------------------------
(* The replica.                                                            *)

(* try_parse: once the length to come is $-1, every read with data throws, *)
(* and the talker is given no message again.                               *)
ReplicaReads(r) == conn[r] = "open" /\ toReplica[r] # <<>> /\ ~ jammed[r]
HoleOf(m) == IF m.type = "SET" THEN hole[m.write] ELSE "none"
ReplicaReadBatch(r) == toReplica' = [toReplica EXCEPT ![r] = <<>>]
ReplicaRead(r) == toReplica' = [toReplica EXCEPT ![r] = Tail(@)]
ReplicaSayFirst(r, ms) == toMaster' = [toMaster EXCEPT ![r] = ms \o @]
ReplicaSay(r, ms) == toMaster' = [toMaster EXCEPT ![r] = @ \o ms]

(* Replica::start, and ReplicaTalker's constructor.                        *)
ReplicaConnects(r) ==
    /\ up /\ conn[r] = "off"
    /\ conn' = [conn EXCEPT ![r] = "open"]
    /\ ReplicaSay(r, <<Plain("PING")>>)
    /\ UNCHANGED <<up, client, masterVars, wait, toReplica, replicaVars>>

(* The handshake states of listen: the answer each waits for, and what it  *)
(* then says and becomes.                                                  *)
Handshake ==
    [WAIT_FIRST_PONG |->
        [on |-> {"PONG"}, say |-> <<Plain("REPLCONF")>>,
         next |-> "WAIT_OK_FOR_REPLCONF_PORT"],
     WAIT_OK_FOR_REPLCONF_PORT |->
        [on |-> {"OK"}, say |-> <<Plain("REPLCONF")>>,
         next |-> "WAIT_OK_FOR_REPLCONF_CAPA"],
     WAIT_OK_FOR_REPLCONF_CAPA |->
        [on |-> {"OK"}, say |-> <<Plain("PSYNC")>>, next |-> "WAIT_FOR_PSYNC_ANSWER"],
     WAIT_FOR_PSYNC_ANSWER |->
        [on |-> {"PONG", "OK", "FULLRESYNC"}, say |-> <<>>,
         next |-> "WAIT_FOR_RDB_FILE_SYNC"],
     WAIT_FOR_RDB_FILE_SYNC |->
        [on |-> {"RDB"}, say |-> <<>>, next |-> "WAIT_SERVER_COMMANDS"]]

(* What listen acts on in each state; it ignores every other message.      *)
Awaited(s) == IF s = "WAIT_SERVER_COMMANDS" THEN Pushed ELSE Handshake[s].on

ReplicaHandshake(r) ==
    /\ ReplicaReads(r) /\ rstate[r] # "WAIT_SERVER_COMMANDS"
    /\ ReplicaRead(r)
    /\ IF Head(toReplica[r]).type \in Awaited(rstate[r])
       THEN /\ ReplicaSay(r, Handshake[rstate[r]].say)
            /\ rstate' = [rstate EXCEPT ![r] = Handshake[@].next]
       ELSE UNCHANGED <<toMaster, rstate>>
    /\ UNCHANGED <<up, client, conn, masterVars, wait, bytesIn, jammed, rstore>>

(* ReplicaTalker::process: a GETACK is answered with the offset before it, *)
(* and what does not parse as a command is not counted.  An array is        *)
(* complete at the $-1 of its last word: it is the last message there is.  *)
ReplicaProcess(r) ==
    LET m == Head(toReplica[r])
    IN  /\ ReplicaReads(r) /\ rstate[r] = "WAIT_SERVER_COMMANDS"
        /\ HoleOf(m) # "inside"
        /\ ReplicaRead(r)
        /\ jammed' = [jammed EXCEPT ![r] = HoleOf(m) = "last"]
        /\ rstore' = IF m.type = "SET"
                     THEN [rstore EXCEPT ![r][m.key] = m.write] ELSE rstore
        /\ ReplicaSay(r, IF m.type = "GETACK" THEN <<AckMsg(bytesIn[r])>> ELSE <<>>)
        /\ bytesIn' = IF m.type \in Pushed
                      THEN [bytesIn EXCEPT ![r] = @ + Size(m)] ELSE bytesIn
        /\ UNCHANGED <<up, client, conn, masterVars, wait, rstate>>

(* An array with an empty string before its last word is never complete.   *)
ReplicaJams(r) ==
    /\ ReplicaReads(r) /\ rstate[r] = "WAIT_SERVER_COMMANDS"
    /\ HoleOf(Head(toReplica[r])) = "inside"
    /\ jammed' = [jammed EXCEPT ![r] = TRUE]
    /\ UNCHANGED <<up, client, conn, masterVars, wait, toReplica, toMaster, rstate,
                   bytesIn, rstore>>

(* The replica process ends, or its connection is lost.                    *)
ReplicaDies(r) ==
    /\ up /\ conn[r] = "open"
    /\ conn' = [conn EXCEPT ![r] = "dead"]
    /\ toReplica' = [toReplica EXCEPT ![r] = <<>>]
    /\ UNCHANGED <<up, client, masterVars, wait, toMaster, replicaVars>>

-----------------------------------------------------------------------------
ReplicaStep(r) ==
    \/ MasterPing(r) \/ MasterReplConf(r) \/ MasterPsync(r) \/ MasterAck(r)
    \/ MasterCloses(r) \/ MasterWritesToDead(r)
    \/ ReplicaConnects(r) \/ ReplicaHandshake(r) \/ ReplicaProcess(r)
    \/ ReplicaJams(r) \/ ReplicaDies(r)

Next ==
    \/ \E c \in Client, k \in Key, h \in Hole : Set(c, k, h)
    \/ \E c \in Client, count \in Count, w \in WaitId : Wait(c, count, w)
    \/ \E c \in Client : ClientCloses(c)
    \/ \E w \in WaitId : WaitTimeout(w)
    \/ \E r \in Replica : ReplicaStep(r)

(* Every iteration of the event loop polls every descriptor and runs every *)
(* expired timeout, in the master and in a replica alike.  Nothing is      *)
(* assumed of what clients send, of replicas starting, or of failures.     *)
Fairness ==
    /\ \A w \in WaitId : WF_vars(WaitTimeout(w))
    /\ \A r \in Replica :
          /\ WF_vars(MasterPing(r) \/ MasterReplConf(r) \/ MasterPsync(r) \/ MasterAck(r))
          /\ WF_vars(ReplicaHandshake(r) \/ ReplicaProcess(r) \/ ReplicaJams(r))
          /\ WF_vars(MasterCloses(r))

Spec == Init /\ [][Next]_vars
FairSpec == Spec /\ Fairness

-----------------------------------------------------------------------------
(* Properties.                                                             *)

(* Every variable keeps its type: offsets and counters are natural numbers *)
(* and each stream holds only what its sender's talker says.               *)
TypeOK ==
    /\ up \in BOOLEAN
    /\ client \in [Client -> {"open", "closed"}]
    /\ conn \in [Replica -> {"off", "open", "dead", "closed"}]
    /\ reg \in [Replica -> {"none", "MET", "WRITE"}]
    /\ pushed \in [Replica -> Nat]
    /\ acked \in [Replica -> Nat]
    /\ store \in [Key -> Nat]
    /\ nsets \in Nat
    /\ hole \in Seq(Holes)
    /\ joined \in [Replica -> Nat]
    /\ wait \in [WaitId -> WaitRecord]
    /\ toReplica \in [Replica -> Seq(ToReplicaMsg)]
    /\ toMaster \in [Replica -> Seq(ToMasterMsg)]
    /\ rstate \in [Replica -> RState]
    /\ bytesIn \in [Replica -> Nat]
    /\ jammed \in [Replica -> BOOLEAN]
    /\ rstore \in [Replica -> [Key -> Nat]]

(* A ReplicaTalker never meets a message its state makes it ignore: it     *)
(* retries nothing, so one ignored answer would stop the handshake, and an *)
(* ignored command would leave a hole in the replica's data.               *)
HandshakeInStep ==
    \A r \in Replica :
        ReplicaReads(r) => Head(toReplica[r]).type \in Awaited(rstate[r])

InFlight(r, t) == {i \in 1..Len(toReplica[r]) : toReplica[r][i].type = t}

(* The two byte counters of a connection differ by exactly the commands    *)
(* under way: bytes_pushed on the master is _bytes_in on the replica plus  *)
(* the sizes of the SETs and GETACKs between them, across the handshake    *)
(* and with pushes and GETACKs in any order.                               *)
OffsetsAgree ==
    \A r \in Replica : conn[r] = "open" =>
        pushed[r] = bytesIn[r] + SetSize * Cardinality(InFlight(r, "SET"))
                               + GetAckSize * Cardinality(InFlight(r, "GETACK"))

(* The acknowledged offset never runs ahead: what ReplicaHandle::bytes_ack *)
(* holds, and then each ACK under way in its order, is at most what the    *)
(* replica processed, which is at most what the master pushed.             *)
AckedWasProcessed ==
    \A r \in Replica :
        LET acks == {i \in 1..Len(toMaster[r]) : toMaster[r][i].type = "ACK"}
        IN  /\ acked[r] <= bytesIn[r]
            /\ bytesIn[r] <= pushed[r]
            /\ \A i \in acks : /\ toMaster[r][i].offset <= bytesIn[r]
                               /\ acked[r] <= toMaster[r][i].offset
            /\ \A i, j \in acks :
                 i < j => toMaster[r][i].offset <= toMaster[r][j].offset

(* A connected replica that the master writes to is only behind, never     *)
(* different: the last write to a key that it has, or else that is under   *)
(* way to it, is the value the master has now if that was written since    *)
(* the PSYNC, and none of this process's writes if it was written before.  *)
(* (Whether what is under way is ever processed is WritesArrive.)          *)
ReplicaConverges ==
    \A r \in Replica, k \in Key : conn[r] = "open" =>
        LET sets == {i \in InFlight(r, "SET") : toReplica[r][i].key = k}
            final == IF sets = {} THEN rstore[r][k]
                     ELSE toReplica[r][CHOOSE i \in sets : \A j \in sets : j <= i].write
        IN  final = PushedWrite(r, k)

(* The replica holds every write it had been pushed when the WAIT began.   *)
Holds(r, w) == \A k \in Key : rstore[r][k] >= wait[w].due[r][k]
Holding(w) == {r \in wait[w].members : Holds(r, w)}

(* WAIT is sound: the number it counts, and then answers, is at most the   *)
(* number of the replicas there were that hold every write pushed to them  *)
(* before it, whatever was pushed, acknowledged or lost meanwhile.  (To a  *)
(* replica before its PSYNC nothing was pushed: such a one counts at once.)*)
WaitSound ==
    \A w \in WaitId :
        wait[w].ready <= Cardinality(Holding(w))

(* A pending WAIT counts every replica whose acknowledgement covers it,    *)
(* except one that owed the answer to an earlier GETACK when the WAIT was  *)
(* issued: that answer is too old, and takes the replica off the list.     *)
NoAckLost ==
    \A w \in WaitId : Pending(w) =>
        wait[w].ready >= Cardinality({r \in wait[w].members \ wait[w].owing :
                                        acked[r] >= wait[w].goal[r]})

(* WAIT keeps its promise: the counters, acknowledgements and timeout jobs *)
(* of StorageMiddleware only ever do to a WAIT what WaitPromise allows.    *)
(* It is answered once, early only with enough replicas, late only with    *)
(* too few, and at that moment as many replicas as it says, among those    *)
(* there were, hold every write that had been pushed to them before it.    *)
Promise == INSTANCE WaitPromise WITH
    phase    <- [w \in WaitId |-> wait[w].state],
    expected <- [w \in WaitId |-> wait[w].expected],
    members  <- [w \in WaitId |-> wait[w].members],
    holding  <- [w \in WaitId |-> Holding(w)],
    answer   <- [w \in WaitId |-> IF Answered(w) THEN wait[w].ready ELSE -1]

KeepsPromise == Promise!Spec

(* A replica never goes back to an older value of a key.                   *)
ReplicaMovesForward ==
    [][\A r \in Replica, k \in Key : rstore'[r][k] >= rstore[r][k]]_vars

(* Every WAIT is answered, also when its replicas or its client are gone,  *)
(* unless the process does not survive.                                    *)
EveryWaitAnswered ==
    \A w \in WaitId : Pending(w) ~> (Answered(w) \/ ~ up)

(* No SET that was pushed to a replica before the n-th one, or was that    *)
(* one, stops the replica's parser in front of the end of the n-th.        *)
ParsableTo(r, n) ==
    /\ \A i \in 1..nsets : joined[r] < i /\ i < n => hole[i] = "none"
    /\ n \in 1..nsets => hole[n] # "inside"

(* Every write reaches every replica that completed its PSYNC before it    *)
(* and stays connected, unless it or a write before it has an empty string *)
(* that stops the replica's parser.  What lies behind that never arrives,  *)
(* although the connection stays up.                                       *)
WritesArrive ==
    \A r \in Replica, k \in Key, n \in 1..MaxSets :
        (reg[r] = "WRITE" /\ store[k] = n /\ n > joined[r] /\ ParsableTo(r, n))
            ~> (rstore[r][k] >= n \/ conn[r] # "open")

(* What a pending WAIT waits for is acknowledged in the end, whether or    *)
(* not in time for its answer: its GETACK is not lost in the stream and is *)
(* answered behind every byte of the goal, as long as both ends live,      *)
(* parseInt can hold the goal, and no SET pushed so far had an empty       *)
(* string, behind which the GETACK is never parsed.                        *)
GoalsAreReached ==
    \A w \in WaitId, r \in Replica :
        (Pending(w) /\ r \in wait[w].waitlist /\ wait[w].goal[r] <= IntMax
           /\ ParsableTo(r, nsets + 1))
            ~> (acked[r] >= wait[w].goal[r] \/ conn[r] # "open" \/ ~ up)
=============================================================================
