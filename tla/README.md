# A verification of build-your-own-redis in TLA+

The program is a Redis server in C++: strings and streams, blocking reads,
replication with `WAIT`, and loading of a database file. Each process is one thread
that runs an event loop, and what is hard about it is the order in which the loop
interleaves clients, replicas, posted jobs and timeouts, and what is left behind when
one of them goes away. This directory holds TLA+ models of that, TLC runs that check
them on small instances, and proofs that TLAPS checks for every value of the constants.

Paths below are relative to `src/src/`.

- [1. The system](#1-the-system)
- [2. The modules](#2-the-modules)
- [3. What is checked](#3-what-is-checked)
- [4. Bounds](#4-bounds)
- [5. Fairness](#5-fairness)
- [6. What is proved](#6-what-is-proved)
- [7. What the models show of the code](#7-what-the-models-show-of-the-code)
- [8. What is not modelled](#8-what-is-not-modelled)
- [9. What is left](#9-what-is-left)

## 1. The system

`main.cpp` wires the parts; `EventLoop::start` (`events.cpp`) then never returns. One
turn of it runs every one-time job (`post`), every repeated job (`repeat`), every
timeout that is due (`set_timeout`), and the events queue, which nothing uses. An
exception that derives from `std::exception` ends the job it comes from and nothing else.
Parts call each other directly, through interfaces or through `Signal`/`Slot`
(`signal_slot.h`), which is a synchronous call of every slot that is still alive.

| Part | State | Operations | What is hard | What makes it correct |
|---|---|---|---|---|
| `EventLoop` | one-time, repeated and timeout jobs | `post`, `repeat`, `set_timeout`, `start` | jobs whose owner is gone, jobs that throw, a timeout due in the turn of the event it waits for | every valid job is run; none is run for a destroyed owner |
| `Poller` | `_fds`, `_handlers` | add, remove, poll and dispatch | a handler that removes itself while events are dispatched; flags that are not initialised; descriptors used again | an event reaches the handler of the connection it was polled for; what must be written is polled for |
| `Server`, `HandlersManager` | listening socket; a `Handler` for each descriptor | `accept`, `add`, `remove` | accepting from within the dispatch; a descriptor closed and given again | kernel, manager and poller agree on who has a descriptor |
| `Handler` | descriptor, read and write buffer | `read`, `write`, `process_read`, `process_write`, `close` | end of stream together with data, partial writes, exceptions out of slots, `this` destroyed in `close` | commands run once and in order; replies arrive in order, none is lost |
| `ServerTalker`, `Talker` | `_pending`, `_replica_id` | `listen`, `say`, `interrupt` | commands answered later, after their connection ended | a client gets the replies to its own commands |
| `StorageMiddleware` | `_replicas` with `bytes_pushed`, `bytes_ack`; `_waits` | `set` and `push`, `add_replica`, `remove_replica`, `replica_process_conf`, `wait_for` | counters kept in two processes; overlapping `WAIT`s; replicas that leave; a timeout racing an acknowledgement | `WAIT` counts only replicas that hold the writes before it, and answers once |
| `ReplicaTalker`, `Replica` | `_state`, `_bytes_in` | the handshake, `process` | pushes between the answers of the handshake; messages a state ignores | a replica converges to its master |
| `Storage`, streams | streams, `_stream_waitlists`, `WaitHandle`s | `xadd`, `xrange`, `xread` | a read that blocks between an `XADD` and its job; a key named twice; ids that wrap; bounds in the wrong order | ids increase, no entry is lost, a reader misses nothing, each read is answered once |
| `Storage`, strings | values and when they expire | `set`, `get`, `restore` | durations that are pushed and start anew at the replica; a clock that is set back; a replica that loaded a dump file of its own | what expired stays away; a replica loses nothing before its master, and keeps nothing for ever that its master does not, but for keys of its own dump file |
| `MessageParser`, `Message` | position in the read buffer | `try_parse`, `to_string` | messages in parts; lengths; empty strings, which are written as `$-1` | the parser returns what `to_string` wrote |
| `Command` and its subclasses | none | `try_parse`, `construct` | widths of numbers | arguments mean what the client wrote |
| `RDBParser` | none | `RDBParse` | encodings of lengths; a file that ends early | what is restored is what is in the file |

How they interact:

    client --bytes--> Handler --messages--> ServerTalker --calls--> StorageMiddleware --> Storage
      ^                 |  ^                     |                        |                  |
      |                 |  +---- say() ----------+<------ slot -----------+<--- callback ----+
      +---- bytes ------+
    Server --accept--> HandlersManager --creates--> Handler --add/remove--> Poller
    StorageMiddleware --pushed SETs, GETACKs--> (a slot of each replica's ServerTalker)
    master's stream --> Handler --> ReplicaTalker --set--> Storage of the replica

## 2. The modules

| Module | Models | Uses |
|---|---|---|
| `Replication` | `storage_middleware`, `replica_talker`, the replication part of `server_talker`, both streams | `WaitPromise` |
| `WaitPromise` | abstract: what `WAIT` promises | |
| `StreamValue` | ids and entries of a stream: `StreamId`, `BoundStreamId`, `append`, `xrange`, `xread`, `last_id` | |
| `StreamStorage` | `Storage::xadd`, `xrange`, `xread`, `WaitHandle`, the loop that answers them | `StreamValue` |
| `Keyspace` | `Storage::set`, `get`, `restore` on a master and its replica, and the clock | |
| `RDBParser` | `rdb_parser`, `Storage::restore`, what `main` and a replica do when it throws | |
| `MessageParser` | `message_parser`, `Message::to_string`, the loop in `process_read`, what `ReplicaTalker` expects next | |
| `Commands` | `try_parse` and `construct` of every command, the checks of `REPLCONF` | |
| `Connections` | `events`, `poller`, `server`, `handlers_manager`, `handler`, the slots of `server_talker` | `Session` |
| `Session` | abstract: what the server promises a client | |
| `ReplicationProofs`, `WaitProofs` | theorems about `Replication` | `WaitProofs` extends the first |
| `StreamProofs`, `KeyspaceProofs`, `RDBProofs`, `MessageParserProofs`, `CommandsProofs`, `ConnectionsProofs` | theorems about the module each is named for | |
| `MC...` | an instance for TLC | the module they are named for |

Definitions keep the names of the code. Where a definition is a mutated form of the one
behind it (`Less` and `LessByMs`), it is a plausible bug that the runs have to notice, and
no specification uses it.

The modules meet where the code hands over something whole. `MessageParser` shows that a
talker is given the messages that were written and that the bytes counted are the bytes that
came in, up to the first message that spoils the stream (`Spoils`). The one such message this program writes is a
`SET` with an empty key or value: `Replication` says of each `SET` where it has an empty string (`hole`), and a replica that met
one reads nothing from then on (`jammed`). `Commands` shows that a command the
program constructs is parsed to the same command, and which `SET`s are not (`Framed`); `Replication` and `Keyspace` send commands, not
words. `RDBParser` shows what is in the storage once a file was read; `Keyspace` takes an intact file
as one step. `Connections` delivers commands and replies and does not look into them.

**`Replication`.** A step is one command, message, timeout or failure: each is handled
whole by one thread, and the streams keep order, so nothing can come in between. A stream
runs from the sender's `_pending` through both sockets to the receiver's parser.
`Set`, `Wait`, `WaitTimeout`, `MasterPing`, `MasterReplConf`, `MasterPsync`, `MasterAck` are
`listen` of the master's talkers with all it calls; `ReplicaHandshake` and
`ReplicaProcess` are `ReplicaTalker::listen` and `process`; `MasterCloses` is
`Handler::close` with `interrupt` and `remove_replica`. A value is the number of
the `SET` that wrote it. An array is complete at the `$-1` of its last word, so that a `SET` with an empty value and no `PX` is
processed and counted before the parser is stuck (`ReplicaProcess`); with an empty string further in front it
never is complete (`ReplicaJams`). The connection stays up either way. History fields (what a replica had been pushed when a `WAIT` began,
which replicas owed an answer then, `bytes_pushed` at the time of each message) are used by
properties alone.

**`WaitPromise`.** A `WAIT` is idle, pending, or answered. While it is pending, the replicas that hold
the writes before it become more by themselves. It may be answered early with a number between what
it asked for and how many hold them, or late with fewer than it asked for, and never again. Offsets, acknowledgements and timers are not in it.

**`StreamStorage`.** The turn of the loop is visible here: jobs, then the poller and with it
commands, then timeouts, since `xadd` leaves the answer of blocked reads to a job. What
keeps a `WaitHandle` alive is its place in a waitlist (`Alive`); a job for a handle
that is gone does nothing, and one that throws ends its job (`ReplyThrows`). `stream_its`
keeps one iterator for each key, so `Leave` takes a handle out of a waitlist once. A reader
keeps, as a well-behaved client does, the last id it got; how its last `XREAD` was answered, and whether
with data, is a history field (`last`). A range whose begin is behind its end
is iterated past the last entry, which is undefined (`XRangeUndefined`). A `SET` takes the place of a stream; if it
has `PX`, `Get` erases it when it has expired, which the system clock may show at any time, and the next `XADD` begins a new
stream. The log of a key is that of the stream it holds, and begins anew with it.

**`Keyspace`.** An entry is a value and the time it expires, 0 for never. `Set` computes that time from
the master's clock and pushes the duration; `Receive` computes it anew. Both servers load a dump file when they
start (`Init`): `main` does so before it asks whether the server is a replica. `Psync` sends the
master's dump file as it is on the disk, which no `SET` ever changed, and the replica merges it with what it has (`Restored`). `own` remembers the keys
it has from its own file alone. `SetClockBack` is there because the
code compares with `system_clock`. `denied` remembers what `GET` found gone.

**`RDBParser`.** A file is a sequence of tokens, which may be cut anywhere; each action is one turn of
the loops in `parse` and `parse_db`, and the clock may advance between two of them. Lengths go through
`DecodedLength`, which does what the shifts and sums of the code do; where they give another
length than the file meant, the parser reads on in the middle of a string (`astray`), and
what it makes of it is not followed further than that it restores something, returns or throws.

**`MessageParser`.** A unit is the text of a line or one byte of a string, so that a stream may be split
everywhere the parser can see a difference. A message is the sequence of its parts: itself, then those of its elements.
A part says how many messages are still due behind it (`left`), which is what the recursion of `parse` has on its
stack, so each call of it is a step (`ParseLine`, `ParseString`, `ParseArray`). A stream is a record of
its parts, the pieces (lines and strings) they are written as, and where each of them lies (`first`, `at`); `HasForm` says which
streams a peer may write: what `to_string` writes, empty arrays and strings as other programs write them, and malformed lines.
`Read` brings some units; `TryParse` is one turn of
`try_parse`: `GetNextRawMessage` with its two modes (line, and string of a length known from before, kept
in `length` between two reads). `UngetAll` puts back what is not yet a message, `ParseThrows` loses what
is an error, `Return` gives a message to `listen`. `Listen` changes what is expected next, as `ReplicaTalker` does for
the database file. The file is not empty in `HasForm`: behind `$0` without a delimiter the loop, which
wants bytes in the buffer, would not see it before more arrives. No RDB file is empty.

**`Commands`.** A message is an array of words; a word is what parsers can tell of it. `try_parse` of a command
whose arguments have fixed places is a function of the message, each command an operator of its own. `SET` and
`XREAD` go through their arguments in a loop, and each turn of it is a step (`ParseKeyOrValue`, `ParseParam`,
`ParseBlock`, ...) that moves `data_pos` and keeps the number met last in `option`; what is behind `STREAMS` is one step.
Reading behind the array is an outcome of its own (`Undefined`), as is anything `listen` reads of a `REPLCONF` with
too few arguments. A message this program sends may also never be complete at the other end (`Stuck`), because of an
empty string before its last word; a client can send such words as `$0`, which is parsed.

**`Connections`.** A step goes from one system call or command to the next, because clients
and the kernel act in between. `Poll` notes what `poll()` reports; `Accept`, `HandleError`,
`Read`, `ReadEnd` and `ReadyToWrite` dispatch it; `Listen` and `Say` are one turn each of the
loops in `process_read` and `process_write`. What a command does is reduced to when and
through what it is answered.

**Undefined behaviour.** Where the code uses freed memory or a wrong cast, the model takes
what a build can do: `StreamStorage` stops (`defined = FALSE`), `Replication` and
`Connections` either go on as if nothing was found or end the process (`up = FALSE`). In
`Connections` the answer to a `WAIT` whose client left may also reach a client that came
later (`heirs`), because the talker of that client can lie at the same address. Reading
`flags` uninitialised in `Poller` gives any value that contains the bits asked for.

## 3. What is checked

Every property has a mutant: a plausible bug in a mapped definition under which the run
must find it violated.

| Run | Instance | Properties | Shows |
|---|---|---|---|
| `wait` | 2 replicas, 2 WAITs for 1 or 2, 2 SETs | `TypeOK` `WaitSound` `NoAckLost` `OffsetsAgree` `AckedWasProcessed` `ReplicaConverges` `HandshakeInStep` `KeepsPromise` | overlapping WAITs against replicas that join, answer and leave; both ends of a stream in step, also above the limit of `parseInt` |
| `live` | 1 replica, 2 WAITs, 2 SETs with empty strings anywhere, with fairness | `EveryWaitAnswered` `WritesArrive` `GoalsAreReached` | WAITs end; writes arrive and are acknowledged unless an empty string comes before them |
| `ids` | up to 4 entries, every explicit id, `ms-*` and `*`, a `SET` with `PX` and its expiry, every range | `ReturnedIdsIncrease` `ReturnedIsStored` `RangeIsLog` | ids go up, no entry takes another's place, a range is the part of the log it names |
| `reads` | 2 readers, 2 streams, timeouts and none, with fairness | `NoHandleLeft` `SeenInOrder` `WokenWithData` `BlockedIsAnswered` | readers miss nothing, get nothing twice, and are answered |
| `twice` | reads that name a key twice, start ahead of the stream, or meet a string | `NoWakeupLost` `AnswersMatch` | what remains true when a handle stays behind in a waitlist |
| `wrap` | the largest second part of an id | `ReturnedIdsIncrease` (violated) | `++last_id.id` wraps |
| `expiry` | 2 keys, a dump file at each server, 3 SETs with and without PX, a clock that is set back | `DeniedStaysDenied` `NotLostBefore` `ExpiresThereToo` | what expired stays away, on both servers |
| `rdb` | files with 2 strings, whole, cut, with a token lost or changed | `LoadsWellFormed` `CompleteAtEof` `RestoredSoFar` | what is restored is what is in the file, whole if the file ends as it should |
| `parser` | up to 3 messages in every split, well-formed and not; a master's stream with the database file | `Faithful` `NothingWithheld` `BytesCounted` | what was written is what `listen` is given |
| `commands` | every message of up to seven words, and all that is sent, also with empty keys and values | `SetGrammar` `XReadGrammar` `RoundTrip` `WithinMessage` | what is accepted, and what it means |
| `sockets` | 2 clients, 2 descriptors, flags with garbage, commands that throw or are answered later | `DescriptorsInStep` `PendingIsPolled` `LeftUnparsed` `SessionKept` `FdsFixedInDispatch` | the maps that are keyed by descriptors stay in step; `Connections` implements `Session` |
| `served` | 2 clients, 1 descriptor, flags with garbage, commands that throw, sockets that hold one reply, with fairness | `EveryCommandRuns` `EveryReplyArrives` | commands of who was accepted run and replies arrive, also when the next `accept` throws in every turn |

In words, the ones that are the reason for the models:

- `OffsetsAgree`: `bytes_pushed` of the master is `_bytes_in` of the replica plus the sizes
  of the messages between them. Two processes count the same bytes, one through
  `Message::size` of what it sends and the other of what it parsed.
- `WaitSound`: the number `WAIT` answers is at most the number of replicas that hold
  every write they were pushed before the `WAIT`. A replica before its `PSYNC` counts at once,
  since 0 bytes were pushed to it.
- `NoAckLost`: a `WAIT` counts every replica whose acknowledgement covers it, except those
  that owed an answer to an earlier `GETACK`. The exception is real: that older answer takes
  the replica off the waitlist uncounted, and of two overlapping `WAIT`s the later one then
  ends by its timeout although all replicas have the write.
- `KeepsPromise`: refinement of `WaitPromise`. It hides the counters and keeps the state of a `WAIT`, who
  takes part, who holds its writes, and the answer.
- `ReplicaConverges`: a replica is behind its master but never different in what was written
  after its `PSYNC`, whatever part of the handshake the writes came into.
- `SeenInOrder`: a reader that goes on from the last id it got receives every entry once and in
  order: nothing falls between `$` being resolved, the `XADD`, the job that answers it, and the
  next `XREAD`.
- `NoWakeupLost`: a blocked read for which an entry arrived is in a job, unless an older read that
  was answered is still in some waitlist, be it that of another key. That happens only to reads that
  name a key twice (`NoHandleLeft` holds without them): a later job that calls such a handle throws
  there and starves the reads behind it. The requests of run `twice` reach it:
  `XREAD` of k1, of k2 and k1, and of k1, k1 and k2.
- `NotLostBefore`: a key that is live on the master and settled on the replica is live there with the same
  value. The replica's time starts later, so it expires later; a clock that is set back between the two
  breaks that, and the property says so.
- `ExpiresThereToo`: what a replica has for ever its master has for ever, but for keys the replica loaded from its own
  dump file and got nothing for since: `FULLRESYNC` does not flush.
- `WritesArrive` and `GoalsAreReached`: their premise `ParsableTo` is that no write up to the one in question that was
  pushed to the replica has an empty string (or only the last one, at its end): behind it nothing is ever processed.
- `RoundTrip`: a command this program sends is parsed to the same command, unless a word before its last one is empty, which
  only a `SET` can have; that one is parsed to nothing.
- `WithinMessage`: a message is read past its end exactly if it is a `WAIT` or a `REPLCONF` with too few arguments that
  nothing throws at before.
- `CompleteAtEof`: a load that returns restored every entry of the file. At the end of the file `peek` gives
  0xFF, which is also the opcode that ends a file; what keeps a cut file from passing is that the opcode is then read.
- `Faithful` and `NothingWithheld`: whatever the parts a stream arrives in, `listen` is given the messages written, as soon
  as their last byte is there. `Spoils` names the only exceptions: lines that are not well-formed, the length
  -1 that `to_string` writes for an empty string, and a database file that was refused.
- `DescriptorsInStep`: the kernel's table, `HandlersManager::_handlers`, `Poller::_handlers`
  and the places in `_fds` agree, through every close and reuse.
- `FdsFixedInDispatch`: `_fds` does not grow while `Poller` iterates over it by reference. A new
  connection is accepted inside that iteration; what saves it is that `Handler` posts its start
  instead of registering itself.
- `SessionKept`: refinement of `Session`, under the mapping that keeps `sent`, `executed`,
  `said` and `got` and hides everything else. Only the answer to a `WAIT` may reach another client.

Deadlock is not checked: a server without commands to run, a process that ended, a stream that was read to its
end, and bounds that are used up are states without a next step.

## 4. Bounds

Bounds are constants (`MaxSets`, `MaxAdds`, `MaxReads`, `MaxNow`, `MaxSends`, `MaxItems`, `WaitId`) or the
sizes of sets.

- Two replicas and two `WAIT`s are what it takes for one `WAIT`'s acknowledgement to take a
  replica from the other's list, and for replicas to differ. Sizes 3 and 2 of `SET` and `GETACK`
  are different and have different sums. `IntMax = 7` lies between the offsets
  that two messages and three reach.
- Two readers and two streams give handles in two waitlists, jobs for the same handle from both,
  and a handle behind another one. A clock of one tick is before and at a deadline.
- `MaxMs` and `MaxSeq` replace 2^64 - 1; all runs but `wrap` keep below them.
- Three `SET`s on two keys give one that is overwritten under way and one behind the file; three ticks with
  durations of up to two put an expiry before, between and after what is read and received.
- Files have up to two entries, one of each way to expire; three databases and an entry that names a key again.
  Lengths 63, 64, 256, 258, 2^14 lie in each branch of the encoding, on both sides of what is read right.
- `Sizes` (64 and 16) stands for 2^64 as the number of lengths: above every length in the
  stream, so that a negative one wraps to one that is above them all.
- Messages of seven words hold three `PX`, or two `BLOCK` and `STREAMS`; messages that begin with two `BLOCK` go on
  for five more.
- Two connections with one descriptor (`served`) make the second wait for the first to end and get its
  descriptor, while `accept` fails with EMFILE in every turn; with two descriptors (`sockets`) both are served in one dispatch, and
  each may be given again. `Capacity = 1` makes the
  second reply wait for `POLLOUT`. `MaxSends` bounds the commands of all clients together: with
  two of them two clients have one each, or one has a reply behind another. Replies and commands are whole here: that
  sockets split them is the subject of `MessageParser`.
- `Garbage = {"out"}` in `sockets` and `served` lets flags hold a wrong `POLLOUT`.
- `Hole = {"none"}` in `wait`: an empty string makes a replica stop reading, and for safety a replica that stops
  reading is one that is slow. `live` has empty strings everywhere, and so do the theorems.
- `PxKey` is not empty in `ids` alone: a stream that begins anew under lower ids takes from the readers of `reads` what they
  are promised there (section 7), and the keys that `twice` overwrites stay strings so that a read meets them.

Clients, replicas, WAITs and readers are interchangeable and nothing orders them, so safety
runs use symmetry where they can. Runs of liveness do not.

## 5. Fairness

`FairSpec` of each module assumes weak fairness of what the loop does by itself, and nothing of
what clients or failures do. The loop is `while (true)`; in each turn it empties the one-time jobs,
polls every descriptor and runs every due timeout, so a step of it that stays enabled is
taken.

- `Replication`: each timeout, the reading of each stream at both ends, and the closing of a
  dead connection. The replica's own loop is the same code.
- `StreamStorage`: each job, each timeout, the turn of the loop, and time.
- `Connections`: the loop as a whole, and `Receive`, which says that a client that stays reads
  its replies. Without it a full socket would hold the rest back for good, as it should.

## 6. What is proved

For all constants that satisfy the assumptions of the modules (finite set of replicas, sizes
above 0, numbers natural, requests sequences of keys, files of tokens, messages of words). The bounds are constants, too, so
the theorems hold for any number of commands.

**`ReplicationProofs`.** `TypeCorrect`: type correctness, the base of the rest. `InvCorrect`:
`Inv` is inductive relative to `TypeOK`. Its parts, each kept by every action (lemma `<part>Step`):
- `HandshakeInv`: where a connection is in its handshake fixes both streams (`Stage`): at most one
  question or answer is under way, and pushed messages come only behind the database file.
- `StreamInv`: the `end` fields of pushed messages step from `_bytes_in` to `bytes_pushed` by
  their sizes.
- `OrderInv`: writes in a stream are ordered and above what the replica holds.
- `AckInv`: `bytes_ack`, then the ACKs under way, then `_bytes_in` do not decrease.
- `StoreInv` and `DueInv`: for each write a replica was pushed, it has it already or a message
  that carries it lies in the stretch up to the offset that counts for it. That is what connects
  an offset with data, and why an acknowledged goal means the write is there.
- `CountInv`, `WaitlistInv`: a `WAIT` counted only members whose goal is processed, and no one twice.

From it: `HandshakeCorrect`, `AckCorrect`, `WaitCorrect` (`WaitSound`), and `ForwardCorrect`: no step takes
a key of a replica back to an older write.

**`WaitProofs`.** `OffsetsCorrect`: what lies between the counters (`Gap`) is counted through the places
messages have in a stream, whose number changes by one with each message sent or read (`NumGrown`,
`NumShrunk`). `ConvergesCorrect`: nothing newer than the last write pushed is held or under way
(`WriteInv`), none is lost (`StoreInv`), and the last one in the stream wins (`OrderInv`).
`NoAckLostCorrect`: the stretches of `StreamInv` have no gaps
(`TightInv`), so the answer to a `GETACK` carries exactly what was pushed up to it; and what comes from
a replica that owed nothing when a `WAIT` began covers the goal of that `WAIT` (`FreshInv`). Hence only
replicas that owed an answer are taken off a waitlist uncounted (`CountsAll`).
`PromiseCorrect`: `Replication` implements `WaitPromise`, step by step, from `Inv` and the
invariant that a pending `WAIT` has counted too few.

**`StreamProofs`.** Three inductive invariants of the streams and their waitlists.
- `AllKept` (`KeptCorrect`): the ids of a stream's log go up, and a stream holds what was added since it
  began, at the ids returned, through any `SET`, with `PX` or without, and any `GET` that erases one. It needs `NoWrap`: no id reaches the largest second part within
  `MaxAdds`; run `wrap` shows what happens otherwise. From it `IdsIncrease` and `IdsStored`. What `append` returns is a
  lemma of its own (`AppendAbove`): above every id of the stream, whatever the input and the clock.
- `Linked` (`LinkedCorrect`): a handle with a callback is the one its reader waits for, and a reader waits for a
  handle that exists. From it `AnswersCorrect` (`AnswersMatch`): each blocked read is answered once, by its own handle.
  With `NoTwice` (no request names a key twice) every handle is in a waitlist at most once (`Single`), so that
  `Leave` leaves none behind: `NoneLeft` (`NoHandleLeft`).
- `Queued` (`QueuedCorrect`): older handles come before newer ones in every waitlist and in every job (`InOrder`,
  `Posted`), and every set of ids has a largest one, wrapped or not (`AllTopped`).
  `NoWakeupLost` is inductive with it, without any assumption on requests (`WakeupCorrect`): `xadd` calls all that wait
  for its key, and a job that throws does so at a handle that was answered and is older than all it leaves uncalled.
  With `NoTwice` there is no such handle, and no read ever starves (`NoneStarves`).

What `XRANGE` and `XREAD` return follows from `AllKept` and `NoWrap`. A range of a stream is a
stretch of its log (`Stretch`), so that `RangeCorrect` (`RangeIsLog`) is a statement about the order of ids alone. `SeenCorrect`
(`SeenInOrder`) needs `NoTwice` and the invariant `Going`: what a reader has seen of a key is a stretch that ends at its
cursor, and the ids a blocked read asks from are the cursors its reader has. A key named twice
would give its entries twice in one answer. `WokenCorrect` (`WokenWithData`) needs that no request starts at an id
still to come (`NoIdGiven`), since such a read is woken by entries before that id, and the invariant
`Awaited`: the ids a blocked read asks from are `0-0` or were returned before it, so that any later entry is above them, and
every handle that was called finds such an entry, unless a `SET` took the place of the stream, which is undefined. Both need
`NoExpiry` (`PxKey = {}`): a stream that begins anew may hold ids below those a reader asks from. The other theorems do not.

**`KeyspaceProofs`.** All three properties of `Keyspace` from one inductive invariant: the file comes first in the link and
once, and until then the replica has nothing but what its own file had (`LinkInv`); what the master has from the file is as it is there, or lost (`FileInv`); a pushed `SET` is
not overtaken by the file (`PushInv`); the last `SET` of a key under way (`MatchInv`), or the entry it became
(`FollowInv`), is compared with the master's entry, whose time began earlier.

**`RDBProofs`.** For any files made of the module's tokens, of which strings are the only values, cut or damaged anywhere, and any clock that goes up.
`Placed`: `parse` is never behind an expiry whose entry has yet to follow, and has read nothing at the header. So it
ends well only where it has read the opcode of the end: `CompleteCorrect` (`CompleteAtEof`). `Restored`: what is stored of a key is
the last entry of it that was passed and had not expired then, or what was there before, which gives `SoFarCorrect`
(`RestoredSoFar`). `Regular`: in a file of strings Redis wrote, with lengths that are read right, what follows is always what
`parse` waits for, so that it neither throws nor goes astray; that is `LoadsCorrect` (`LoadsWellFormed`). That
the shift of the code reads lengths below 64, and those of up to 14 bits that are multiples of 256, is `ShortDecoded`.

**`MessageParserProofs`.** For any streams of the form `HasForm`, of any number and depth of messages, in every split. The
assumption `StreamForm` says that of the streams, and that there are more lengths than units in one of them: 2^64 in the code.
The inductive invariant `IInv` (`InvariantCorrect`) says that the parser is either `Lost` or in its place. It is lost when
a line of the message it is at, or of one before, is malformed: `get_next_raw_message` or `parse` throws, and what was
taken out is gone. `Faithful` is part of the invariant, since what was returned before that remains what was written. `Placed` is
- `InOrder`: what was returned and what `parse` has of the next message are the parts written, and the lines read are theirs;
- `Held`, `Buffered`: what was cut out, the buffer, and what has yet to arrive follow each other in the stream. A file that was
  refused leaves `SyncResponse` expected, so the next string is cut without the delimiter behind it (`Skewed`);
- `Due`: the length that is kept is that of the line cut last; `Reached`: no line that was cut is malformed, nor one with
  a negative length unless it is the last;
- `Expecting`: the talker expects a database file just when one is next, unless one was refused;
- `Pending`, `Starved`: no message ends in what `parse` has seen, and an idle parser has cut all that arrived whole.

With it go `Counting`, that sizes add up to places in the stream, and `Fresh`, that nothing is on `unget_stack` outside
of `parse`. Each action has a lemma (`ReadKeeps`, `TryParseKeeps`, `ParseStringKeeps`, `ReturnKeeps`, ...). The core of it:
the first delimiter in the buffer is the one behind the line that is next (`TryParseLine`), the string
that is due is taken by the delimiter it was written with (`TextDue`), and the message that begins with
part `a + 1` ends where `left` is 0 for the first time. `FaithfulCorrect`, `NothingWithheldCorrect` and `BytesCountedCorrect` follow; the last
is why the bytes a replica counts can be compared with those its master pushed, however the sockets split them.

**`CommandsProofs`.** For messages of any words and any length. The loops of `SET` and `XREAD` have an invariant each
(`SetSoFar`, `XReadSoFar`): what is behind `data_pos` is of the grammar, and `option` is the number read last. The grammar
is then decided where the loop ends: a word at which it throws cannot be part of a message of the grammar
(`SetCorrect`, `XReadCorrect`). For `XREAD` the number of `BLOCK` before `STREAMS` has to be shown unique
(`BlocksAhead`). `RoundTripCorrect`: what `construct` writes is of the grammar, with the same arguments, if it is `Framed`; a message that is
not is a `SET`, which no step parses. `WithinCorrect`: `WAIT` and `REPLCONF` with too few arguments read behind their message, and
nothing else does.

**`ConnectionsProofs`.** All safety properties of `Connections`, for any number of connections and descriptors.
`DescriptorsCorrect`, `PolledCorrect` and `FdsFixedCorrect` come from `TypeInv /\ StepInv`:
`DescriptorsInStep` is not inductive by itself, since who may be started, run or dispatched next is kept in
other places than who has a descriptor. So the kernel and `HandlersManager` agree (`ManagerInv`), `Poller`'s map
and array agree with each other and with it (`PollerInv`); who waits in the backlog is untouched (`BacklogInv`);
who is to be started has a descriptor and no entry yet (`JobsInv`); who is run is registered (`RunInv`); an event to be
dispatched has its place in `_fds`, and an error is one of the connection that is still there (`DueInv`); what is left to write is polled (`PolledInv`).
`CloseKeeps`, `StartKeeps`, `WriteKeeps`, `AcceptKeeps` and `PollKeeps` are the steps that disturb it, and `QuietKeeps`
all others. `SessionCorrect` shows the refinement from `SessionInv`: the commands a client
sent are executed, buffered or in the socket, in order (`CommandsInv`); what was said to it is received, in the
socket, in the buffer or pending, in order (`RepliesInv`); what is blocked was not answered (`BlockedInv`).
`LeftCorrect`: `LeftUnparsed` is inductive with those. The order in which ready descriptors are dispatched is a fold over
`_fds`; lemmas about it (`FlattenType`) are proved through the least place at which they would fail, whose existence the
library states without an operator parameter.

Every safety and action property of the passing runs is a theorem, and so are both refinements. Only model-checked is liveness
(`EveryWaitAnswered`, `WritesArrive`, `GoalsAreReached`, `BlockedIsAnswered`, `EveryCommandRuns`, `EveryReplyArrives`): the
prover has no rules for fairness. Run `wrap` is a counterexample, which needs no proof. That
a message in messages, flattened, has the form the theorems assume of a stream would be an induction over its depth; `MCMessageParser`
flattens such trees (`Parts`, `Of`), and TLC finds `StreamForm` true of all of them.

## 7. What the models show of the code

- `storage.cpp:261` and `269`: the id of `*` and of `ms-*` is `++last_id.id` unchecked. At the
  largest value it wraps to 0, and the entry gets an id below the top, or is dropped while its id is
  returned (run `wrap`, against the message at `storage.cpp:27`).
- `storage.cpp:297`: `XRANGE` with its bounds in the wrong order is undefined (`RangeIsLog` names all bounds that are safe).
- `storage_middleware.cpp:163`: an acknowledgement that is too small for a `WAIT` takes the replica
  off its list (see `NoAckLost`).
- `storage_middleware.cpp:219` with `server_talker.cpp:141`: the slot of a `WAIT` outlives its talker
  (see `SessionKept`).
- `storage.cpp:348`: `stream_its` keeps one iterator for each key, so a read that names a key twice stays in its waitlist
  when it was answered. It lives on, and a job of any key it names calls it again: it throws, and the job ends before
  the reads behind it (see `NoWakeupLost`). An entry for k2 can so fail to wake a reader of k2 whose waitlist
  is clean, because of an answered read that is left in the list of k1.
- `storage.cpp:414`: only `GET` erases what expired. `KEYS` and `TYPE` still show it, and `XADD` refuses the key.
- `handler.cpp:127`: `process_read` calls `process_write` on a `Handler` that `close()` destroyed, with
  every connection that ends.
- `handler.cpp:22`: `ConnReset` inherits privately from `std::runtime_error`. When it comes from
  `write()` in the `ReadyToWrite` slot, no handler of the loop matches and the process ends
  (`ReadyToWrite`). So does a write to a peer that closed (SIGPIPE, `Say`).
- `handler.cpp:115`: an exception in `listen` leaves the commands behind it unparsed until the client
  sends more (`LeftUnparsed` names the only cause).
- `message_parser.cpp:230`: the length -1, which `to_string` writes for an empty string, becomes 2^64 - 1. With the
  delimiter the sum wraps to 1, and every later read throws; where no delimiter is due the parser waits
  for ever (`Spoils`).
- `message.cpp:37` with it: after `SET k ""` the master's replicas process nothing more, although their connections stay up;
  no later write arrives, and a `WAIT` for one ends by its timeout (`jammed`). An empty key, or an empty value with `PX`, does not
  even arrive itself (`ReplicaJams`, `Stuck`).
- `main.cpp:32` with `storage.cpp:389`: a replica loads its own dump file, and the one of its master is only merged with
  it: keys of which the master knows nothing stay (`own`).
- `storage.cpp:394` and `414`: `SET` with `PX` over a stream, a `GET` once it expired and an `XADD` begin a new stream, whose ids
  may be below those returned before; a reader that goes on from its last id never gets such entries, and one that
  is blocked is woken by them with nothing to return (`Get` of `StreamStorage`).
- `rdb_parser.cpp:203`: lengths from 64 on are decoded wrong: `<<` binds weaker than `+`, and four bytes are
  read in the order of the host (`Decoded14`, `Swapped`).
- `command.cpp:242`: `WAIT` refuses three arguments, not other numbers than two; with less than
  two it reads behind the array. A negative number becomes a large one (`ParseWait`).
- `command_storage.cpp:337`: `XREAD BLOCK n BLOCK m` without `STREAMS` is taken for a read of no streams (`XReadGrammar`).
- `storage_middleware.cpp:96` and `replica_talker.cpp:117`: a `REPLCONF` with too few arguments is logged, and then read.
- A replica gets the dump file as it is on the disk, so that what was written before its `PSYNC` is not
  on it (`source = "missed"` in `Keyspace`; `joined` in `Replication`).

## 8. What is not modelled

- What commands that change nothing answer: `PING`, `ECHO`, `KEYS`, `TYPE`, `INFO`, `CONFIG`; `XReadCommand::construct`,
  which the program never sends.
- What the parser of the RDB file restores once it went astray, and databases other than their number.
- Errors of the kernel other than end of stream, ECONNRESET, EPIPE, EAGAIN, EMFILE and a failure to
  bind; `POLLHUP` and `POLLNVAL` by themselves, which `poll()` does not show for these sockets.
- Name resolution and `connect` of a replica; a failure there ends its start job.
- `SET` and `XADD` on a replica: the first is refused, the second is executed and goes nowhere.
- Helpers without state (`utils`, `base64`, `debug`) and the wiring in `main`.

## 9. What is left

- Each property is about one module. A composition of `Replication` with two instances of
  `Connections` would show the handshake over sockets that are written in parts; the instance has more states than
  TLC can visit, and what it would add is what `MessageParser` shows of every split.
