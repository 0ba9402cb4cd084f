---------------------------- MODULE StreamStorage ----------------------------
(***************************************************************************)
(* The streams of Storage: XADD, XRANGE, XREAD with and without BLOCK, and *)
(* the jobs and timeouts of the EventLoop that answer a blocked XREAD.     *)
(*                                                                         *)
(* A blocked XREAD is a WaitHandle.  What keeps it alive is the waitlists  *)
(* of the keys it names; jobs and timeouts only hold weak pointers to it.  *)
(* A reader is a connection that sends an XREAD once the one before it is  *)
(* answered, and usually asks for what follows the last entry it got.      *)
(***************************************************************************)
EXTENDS StreamValue, Sequences, FiniteSets, SequencesExt

CONSTANTS
    Key,          \* the keys of the streams
    Reader,       \* the connections that send XREAD
    Request,      \* the sequences of keys an XREAD may name
    From,         \* where a reader reads from
    Input,        \* the ids XADD is called with
    Bound,        \* the bounds XRANGE is called with
    Timeout,      \* the BLOCK arguments, 0 for none
    SetKey,       \* the keys SET without PX is called with
    PxKey,        \* the keys SET with PX, and then GET, is called with
    MaxAdds,      \* bound: how many entries a stream gets
    MaxReads,     \* bound: how many XREADs block
    MaxNow        \* bound: how far the clock of the event loop goes

(* A reader asks for what follows an id, for what comes next ($), or for   *)
(* what follows the last entry it got.                                     *)
ReadFrom == [kind : {"id"}, id : Id] \cup [kind : {"next", "cursor"}]

ASSUME StorageAssumption ==
    /\ From \subseteq ReadFrom
    /\ Input \subseteq InputId /\ Bound \subseteq BoundId
    /\ Timeout \subseteq Nat /\ SetKey \cup PxKey \subseteq Key
    /\ MaxAdds \in Nat /\ MaxReads \in Nat /\ MaxNow \in Nat
    /\ \A keys \in Request : keys \in Seq(Key)

Handle == 1..MaxReads

VARIABLES
    defined,      \* no undefined behaviour yet
    phase,        \* what EventLoop::start is doing
    now,          \* the steady clock, seen by timeouts
    jobs,         \* _onetime_jobs: the handles each has still to answer
    stored,       \* _storage
    waitlist,     \* _stream_waitlists
    handle,       \* the WaitHandles
    timers,       \* the handles whose timeout job was not run yet
    nreads,       \* how many there were
    reader,       \* what each reader is waiting for, and what it received
    log           \* history: the ids XADD returned for a key since it last
                  \* had no value, in order

storageVars == <<stored, log>>
vars == <<defined, phase, now, jobs, storageVars, waitlist, handle, timers, nreads,
          reader>>

(* What an entry holds is its number among those its key got.              *)
Stream(data) == [type |-> "stream", data |-> data]
Empty == [i \in {} |-> 0]
IsStream(k) == stored[k].type = "stream"
Data(k) == IF IsStream(k) THEN stored[k].data ELSE Empty

NoHandle == [reader |-> "none", request |-> <<>>, deadline |-> 0, callback |-> FALSE]

(* A reader: the handle it waits for (0 for none), how it was last         *)
(* answered and if with data, and for each key where it started, the last  *)
(* id it has, and the entries it received.                                 *)
NewReader == [handle |-> 0, last |-> [how |-> "none", data |-> FALSE],
              base |-> [k \in Key |-> Null], cursor |-> [k \in Key |-> Null],
              seen |-> [k \in Key |-> <<>>]]

Init ==
    /\ defined = TRUE
    /\ phase = "poll"
    /\ now = 0
    /\ jobs = <<>>
    /\ stored = [k \in Key |-> [type |-> "none"]]
    /\ waitlist = [k \in Key |-> <<>>]
    /\ handle = [h \in Handle |-> NoHandle]
    /\ timers = {}
    /\ nreads = 0
    /\ reader = [c \in Reader |-> NewReader]
    /\ log = [k \in Key |-> <<>>]

Alive(h) == \E k \in Key : h \in Range(waitlist[k])
Polls == defined /\ phase = "poll"

-----------------------------------------------------------------------------
(* XADD, SET and GET.                                                      *)

(* Storage::xadd posts a job with the handles that wait for the key then.  *)
PostToFirst(k) == jobs' = IF waitlist[k] = <<>> THEN jobs ELSE Append(jobs, <<waitlist[k][1]>>)
PostToAll(k) ==
    LET all == SetToSeq(UNION {Range(waitlist[l]) : l \in Key})
    IN  jobs' = IF all = <<>> THEN jobs ELSE Append(jobs, all)
Post(k) == jobs' = IF waitlist[k] = <<>> THEN jobs ELSE Append(jobs, waitlist[k])

XAdd(k, in, time) ==
    LET id == AppendId(Data(k), in, time)
    IN  /\ Polls /\ Len(log[k]) < MaxAdds
        /\ stored[k].type # "string" /\ AppendError(Data(k), in) = "None"
        /\ stored' = [stored EXCEPT ![k] = Stream(Emplace(Data(k), id, Len(log[k]) + 1))]
        /\ log' = [log EXCEPT ![k] = Append(@, id)]
        /\ Post(k)
        /\ UNCHANGED <<defined, phase, now, waitlist, handle, timers, nreads, reader>>

(* Storage::set replaces a value whatever its type, and tells no waitlist. *)
Text(expires) == [type |-> "string", expires |-> expires]

Set(k, px) ==
    /\ Polls
    /\ stored' = [stored EXCEPT ![k] = Text(px)]
    /\ UNCHANGED <<defined, phase, now, jobs, waitlist, handle, timers, nreads, reader, log>>

(* Storage::get erases a string it finds expired, and an XADD then begins  *)
(* a new stream.  The system clock shows any time, so a string that has a  *)
(* time to expire at may have expired whenever GET looks.                  *)
Get(k) ==
    /\ Polls /\ stored[k] = Text(TRUE)
    /\ stored' = [stored EXCEPT ![k] = [type |-> "none"]]
    /\ log' = [log EXCEPT ![k] = <<>>]
    /\ UNCHANGED <<defined, phase, now, jobs, waitlist, handle, timers, nreads, reader>>

-----------------------------------------------------------------------------
(* XREAD.                                                                  *)

(* What Storage::xread finds for one part of a request, $ finds nothing.   *)
Found(part) == IF part.is_next_expected THEN {} ELSE XReadIds(Data(part.key), part.id)

(* Its static_cast takes every value for a stream.                         *)
Miscast(request) == \E i \in DOMAIN request : stored[request[i].key].type = "string"

(* The entries with these ids, in the order of the map.                    *)
Entries(k, ids) ==
    LET nth(n) == CHOOSE i \in ids : Cardinality({j \in ids : Less(j, i)}) = n - 1
    IN  [n \in 1..Cardinality(ids) |-> Data(k)[nth(n)]]

(* The reader c once it has the result of a request.                       *)
Receive(r, request, how) ==
    LET found == [k \in Key |-> UNION {Found(request[i]) :
                                   i \in {j \in DOMAIN request : request[j].key = k}}]
    IN  [r EXCEPT !.handle = 0,
                  !.last = [how |-> how, data |-> \E k \in Key : found[k] # {}],
                  !.cursor = [k \in Key |->
                      IF found[k] = {} THEN @[k]
                      ELSE CHOOSE i \in found[k] : \A j \in found[k] : ~ Less(i, j)],
                  !.seen = [k \in Key |-> @[k] \o FlattenSeq([i \in DOMAIN request |->
                      IF request[i].key = k THEN Entries(k, Found(request[i])) ELSE <<>>])]]

(* A reader that starts anew at the ids of a request.                      *)
Restart(r, request) ==
    LET named == {request[i].key : i \in DOMAIN request}
        start(k) == request[CHOOSE i \in DOMAIN request : request[i].key = k].id
    IN  [r EXCEPT !.base = [k \in Key |-> IF k \in named THEN start(k) ELSE @[k]],
                  !.cursor = [k \in Key |-> IF k \in named THEN start(k) ELSE @[k]],
                  !.seen = [k \in Key |-> IF k \in named THEN <<>> ELSE @[k]]]

Asks(c, keys, from) ==
    [i \in DOMAIN keys |->
        [key |-> keys[i], is_next_expected |-> from.kind = "next",
         id |-> CASE from.kind = "id"     -> from.id
                  [] from.kind = "cursor" -> reader[c].cursor[keys[i]]
                  [] from.kind = "next"   -> Null]]

Starts(c, request, from) ==
    IF from.kind = "cursor" THEN reader[c] ELSE Restart(reader[c], request)

(* Storage::xread that finds something.  Without BLOCK, one that finds     *)
(* nothing changes nothing.                                                *)
XReadAtOnce(c, keys, from) ==
    LET request == Asks(c, keys, from)
    IN  /\ Polls /\ reader[c].handle = 0
        /\ \E i \in DOMAIN request : Found(request[i]) # {}
        /\ ~ Miscast(request)
        /\ reader' = [reader EXCEPT ![c] = Receive(Starts(c, request, from), request, "at once")]
        /\ UNCHANGED <<defined, phase, now, jobs, storageVars, waitlist, handle, timers, nreads>>

(* WaitHandle::setup replaces $ by the last id of each stream.             *)
Resolve(part) ==
    IF part.is_next_expected
    THEN [part EXCEPT !.is_next_expected = FALSE, !.id = LastId(Data(part.key))]
    ELSE part

(* The handle joins the waitlist of a key once for each time it is named.  *)
Joined(h, keys, k) ==
    waitlist[k] \o [i \in 1..Cardinality({j \in DOMAIN keys : keys[j] = k}) |-> h]

(* Storage::xread that finds nothing and blocks.  No timeout is set for a  *)
(* BLOCK of 0.  Deadlines stay within the bound of the clock.              *)
XReadBlocks(c, keys, from, ms) ==
    LET request == Asks(c, keys, from)
        h == nreads + 1
        resolved == [i \in DOMAIN request |-> Resolve(request[i])]
    IN  /\ Polls /\ reader[c].handle = 0 /\ nreads < MaxReads /\ now + ms <= MaxNow
        /\ \A i \in DOMAIN request : Found(request[i]) = {}
        /\ ~ Miscast(request)
        /\ nreads' = h
        /\ handle' = [handle EXCEPT ![h] =
              [reader |-> c, request |-> resolved, deadline |-> now + ms, callback |-> TRUE]]
        /\ timers' = IF ms > 0 THEN timers \cup {h} ELSE timers
        /\ waitlist' = [k \in Key |-> Joined(h, keys, k)]
        /\ reader' = [reader EXCEPT ![c] =
              [Starts(c, resolved, from) EXCEPT !.handle = h]]
        /\ UNCHANGED <<defined, phase, now, jobs, storageVars>>

(* An XREAD that names a key of SET.                                       *)
XReadMiscasts(c, keys) ==
    /\ Polls /\ reader[c].handle = 0
    /\ \E i \in DOMAIN keys : stored[keys[i]].type = "string"
    /\ defined' = FALSE
    /\ UNCHANGED <<phase, now, jobs, storageVars, waitlist, handle, timers, nreads, reader>>

(* Storage::xrange changes nothing, but it casts as xread does, and the    *)
(* reply is built past the end of a range that ends before it begins.      *)
XRangeUndefined(k, left, right) ==
    /\ Polls
    /\ stored[k].type = "string" \/ Overruns(Data(k), left, right)
    /\ defined' = FALSE
    /\ UNCHANGED <<phase, now, jobs, storageVars, waitlist, handle, timers, nreads, reader>>

-----------------------------------------------------------------------------
(* Answers to a blocked XREAD.                                             *)

(* stream_its keeps one position for each key, the last one inserted.      *)
LastOf(s, h) == CHOOSE i \in DOMAIN s : s[i] = h /\ \A j \in DOMAIN s : s[j] = h => j <= i
Leave(s, h) == IF h \in Range(s) THEN RemoveAt(s, LastOf(s, h)) ELSE s

(* WaitHandle::reply: the callback is moved from, and the handle leaves    *)
(* each waitlist once.                                                     *)
ReplyKeepingCallback(h, how) ==
    /\ handle[h].callback /\ ~ Miscast(handle[h].request)
    /\ reader' = [reader EXCEPT ![handle[h].reader] = Receive(@, handle[h].request, how)]
    /\ waitlist' = [k \in Key |-> Leave(waitlist[k], h)]
    /\ UNCHANGED <<defined, handle>>

ReplyStaying(h, how) ==
    /\ handle[h].callback /\ ~ Miscast(handle[h].request)
    /\ reader' = [reader EXCEPT ![handle[h].reader] = Receive(@, handle[h].request, how)]
    /\ handle' = [handle EXCEPT ![h].callback = FALSE]
    /\ UNCHANGED <<defined, waitlist>>

Reply(h, how) ==
    /\ handle[h].callback /\ ~ Miscast(handle[h].request)
    /\ reader' = [reader EXCEPT ![handle[h].reader] = Receive(@, handle[h].request, how)]
    /\ handle' = [handle EXCEPT ![h].callback = FALSE, ![h].request = <<>>]
    /\ waitlist' = [k \in Key |-> Leave(waitlist[k], h)]
    /\ UNCHANGED defined

ReplyMiscasts(h) ==
    /\ handle[h].callback /\ Miscast(handle[h].request)
    /\ defined' = FALSE
    /\ UNCHANGED <<reader, handle, waitlist>>

(* The moved callback is empty, and calling it throws before the handle    *)
(* leaves a waitlist.                                                      *)
ReplyThrows(h) ==
    /\ ~ handle[h].callback
    /\ UNCHANGED <<defined, reader, handle, waitlist>>

(* A job goes through its handles, and ends if one of them throws.         *)
RestDropped == Tail(jobs)
Rest == IF Len(Head(jobs)) = 1 THEN Tail(jobs) ELSE <<Tail(Head(jobs))>> \o Tail(jobs)

RunJob ==
    LET h == Head(Head(jobs))
    IN  /\ defined /\ phase = "jobs" /\ jobs # <<>>
        /\ \/ /\ ~ Alive(h) /\ jobs' = Rest
              /\ UNCHANGED <<defined, reader, handle, waitlist>>
           \/ Alive(h) /\ jobs' = Rest /\ Reply(h, "woken")
           \/ Alive(h) /\ jobs' = Rest /\ ReplyMiscasts(h)
           \/ Alive(h) /\ jobs' = Tail(jobs) /\ ReplyThrows(h)
        /\ UNCHANGED <<phase, now, storageVars, timers, nreads>>

Due(h) == h \in timers /\ Alive(h) /\ handle[h].deadline <= now

RunTimeout(h) ==
    /\ defined /\ phase = "timeouts" /\ Due(h)
    /\ timers' = timers \ {h}
    /\ Reply(h, "timeout") \/ ReplyMiscasts(h) \/ ReplyThrows(h)
    /\ UNCHANGED <<phase, now, jobs, storageVars, nreads>>

-----------------------------------------------------------------------------
(* EventLoop::start: every one-time job, then the poller and with it the   *)
(* commands, then every timeout that is due.                               *)
Turn(from, to) ==
    /\ defined /\ phase = from /\ phase' = to
    /\ UNCHANGED <<defined, now, jobs, storageVars, waitlist, handle, timers, nreads, reader>>

JobsDone == jobs = <<>> /\ Turn("jobs", "poll")
PollDone == Turn("poll", "timeouts")
TimeoutsDone == (\A h \in Handle : ~ Due(h)) /\ Turn("timeouts", "jobs")

Tick ==
    /\ defined /\ now < MaxNow /\ now' = now + 1
    /\ UNCHANGED <<defined, phase, jobs, storageVars, waitlist, handle, timers, nreads, reader>>

(* The system clock, which * takes the first part of an id from, can show  *)
(* any time after 1970: it may be set back.                                *)
Next ==
    \/ \E k \in Key, in \in Input, time \in 1..MaxMs : XAdd(k, in, time)
    \/ \E k \in SetKey : Set(k, FALSE)
    \/ \E k \in PxKey : Set(k, TRUE) \/ Get(k)
    \/ \E c \in Reader, keys \in Request, from \in From :
          \/ XReadAtOnce(c, keys, from)
          \/ \E ms \in Timeout : XReadBlocks(c, keys, from, ms)
    \/ \E c \in Reader, keys \in Request : XReadMiscasts(c, keys)
    \/ \E k \in Key, left, right \in Bound : XRangeUndefined(k, left, right)
    \/ RunJob
    \/ \E h \in Handle : RunTimeout(h)
    \/ JobsDone \/ PollDone \/ TimeoutsDone \/ Tick

(* The loop never stops, and time passes.  Nothing is assumed of clients.  *)
Fairness ==
    /\ WF_vars(RunJob) /\ \A h \in Handle : WF_vars(RunTimeout(h))
    /\ WF_vars(JobsDone) /\ WF_vars(PollDone) /\ WF_vars(TimeoutsDone)
    /\ WF_vars(Tick)

Spec == Init /\ [][Next]_vars
FairSpec == Spec /\ Fairness

-----------------------------------------------------------------------------
(* Properties.                                                             *)

(* The ids XADD returns for a key only go up, whatever mix of explicit     *)
(* ids, wildcards and clock readings they come from, until GET erases the  *)
(* string that took the stream's place: the next stream may begin anywhere.*)
ReturnedIdsIncrease ==
    \A k \in Key : \A i, j \in DOMAIN log[k] : i < j => Less(log[k][i], log[k][j])

(* An entry whose XADD was answered with an id is in the stream under that *)
(* id, and no other entry took its place, unless SET replaced the stream.  *)
ReturnedIsStored ==
    \A k \in Key : IsStream(k) =>
        /\ \A i \in DOMAIN log[k] : log[k][i] \in Ids(Data(k)) /\ Data(k)[log[k][i]] = i
        /\ \A i \in Ids(Data(k)) : log[k][Data(k)[i]] = i

(* XRANGE between the ids two XADDs returned gives exactly what was added  *)
(* from the one to the other, in order, and - and + give it all.  Between  *)
(* any two bounds in order it gives a range that ends where it should.     *)
RangeIsLog ==
    \A k \in Key : IsStream(k) =>
        LET n == Len(log[k])
        IN  /\ \A i \in 1..n : \A j \in i..n :
                  Entries(k, XRangeIds(Data(k), At(log[k][i]), At(log[k][j])))
                      = [m \in 1..(j - i + 1) |-> i + m - 1]
            /\ Entries(k, XRangeIds(Data(k), Leftmost, Rightmost)) = [m \in 1..n |-> m]
            /\ \A i, j \in Id : Less(j, i) \/ ~ Overruns(Data(k), At(i), At(j))

Waits(h, k) == h \in Range(waitlist[k]) /\ handle[h].callback
Missing(h, k) ==
    \E i \in DOMAIN handle[h].request :
        handle[h].request[i].key = k /\ XReadIds(Data(k), handle[h].request[i].id) # {}

(* No wake-up is lost: a blocked XREAD for which an entry has arrived is   *)
(* in a job still to be run, unless an older XREAD was answered and is     *)
(* still in a waitlist, be it that of another key: the job that called it  *)
(* again ended there.                                                      *)
NoWakeupLost ==
    \A k \in Key, h \in Handle : defined /\ Waits(h, k) /\ Missing(h, k) =>
        \/ \E i \in DOMAIN jobs : h \in Range(jobs[i])
        \/ \E g \in Handle : g < h /\ Alive(g) /\ ~ handle[g].callback

(* No handle that was answered stays in a waitlist, if no request names a  *)
(* key twice.                                                              *)
NoHandleLeft ==
    \A k \in Key : \A h \in Range(waitlist[k]) : handle[h].callback

(* A reader that goes on from the last id it got receives every entry once *)
(* and in order, from the first one after the id it started at: nothing is *)
(* lost between the answer to one XREAD and the next XREAD, nor between    *)
(* an XADD and the job that answers it.  (Where no key is SET with PX: the *)
(* ids of a stream that begins anew may be below those the reader has.)    *)
SeenInOrder ==
    \A c \in Reader, k \in Key :
        LET seen == reader[c].seen[k]
        IN  IsStream(k) /\ seen # <<>> =>
              /\ \A i \in DOMAIN seen : seen[i] = seen[1] + i - 1
              /\ Less(reader[c].base[k], log[k][seen[1]])
              /\ seen[1] > 1 => ~ Less(reader[c].base[k], log[k][seen[1] - 1])
              /\ reader[c].cursor[k] = log[k][seen[Len(seen)]]

(* An XREAD for what comes next is woken only with data.  (Where no key is *)
(* SET with PX: an XADD that begins a stream anew wakes with any id.)      *)
WokenWithData == \A c \in Reader : reader[c].last.how = "woken" => reader[c].last.data

(* Only the handle a reader waits for answers it, and once: a late timeout *)
(* or another job for the same handle sends nothing.                       *)
AnswersMatch ==
    [][\A c \in Reader : reader'[c] # reader[c] =>
          \/ reader'[c].handle # 0
          \/ reader[c].handle = 0 /\ reader'[c].last.how = "at once"
          \/ /\ reader[c].handle # 0 /\ handle[reader[c].handle].callback
             /\ ~ handle'[reader[c].handle].callback]_vars

(* A blocked XREAD is answered in the end once an entry arrived for it, or *)
(* when it has a timeout.                                                  *)
BlockedIsAnswered ==
    \A h \in Handle :
        (handle[h].callback /\ (h \in timers \/ \E k \in Key : Missing(h, k)))
            ~> ~ handle[h].callback
=============================================================================
