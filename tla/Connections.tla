---------------------------- MODULE Connections ----------------------------
(***************************************************************************)
(* EventLoop, Poller, Server, HandlersManager and Handler: how clients are *)
(* accepted, their commands read and executed, the replies written, and    *)
(* what is left behind when a connection ends and its descriptor is given  *)
(* to the next one.                                                        *)
(*                                                                         *)
(* The loop is one thread.  A step of it goes from one system call or      *)
(* command to the next; clients and their sockets change in between.  What *)
(* a command does is left to the other modules: here it is answered at     *)
(* once ("plain"), answered and then ended by an exception ("throws"), or  *)
(* answered later by another command or a timeout, through a weak pointer  *)
(* ("blocks", XREAD BLOCK) or a bare one ("waits", WAIT).                  *)
(***************************************************************************)
EXTENDS Integers, SequencesExt, FiniteSetsExt

CONSTANTS
    Conn,         \* the connections clients make, each of them once
    Server,       \* the owner of the listening socket
    None,         \* no owner, no connection
    Kind,         \* the kinds of commands clients send
    MaxFd,        \* the kernel gives the descriptors 1..MaxFd
    Garbage,      \* what a variable may hold that was not initialised
    Capacity,     \* how many replies fit into a socket
    MaxSends      \* bound: how many commands all clients send

ASSUME ConnectionsAssumption ==
    /\ Server \notin Conn /\ None \notin Conn \cup {Server}
    /\ Kind \subseteq {"plain", "throws", "blocks", "waits"}
    /\ Garbage \subseteq {"out"}
    /\ MaxFd \in Nat \ {0} /\ Capacity \in Nat \ {0} /\ MaxSends \in Nat

ServerFd == 0
NoFd == -1
Fd == 1..MaxFd

VARIABLES
    \* the clients and the kernel
    peer,         \* none, connected, closed, aborted (ECONNRESET), broken (EPIPE)
    sent,         \* the kinds of the commands a client sent
    inbox,        \* the commands its socket holds, by number
    wire,         \* the replies its socket holds
    got,          \* the replies the client received
    backlog,      \* the connections to be accepted
    descriptor,   \* the descriptor of each connection
    \* EventLoop
    up,           \* the process runs
    phase,        \* what EventLoop::start is doing
    jobs,         \* _onetime_jobs: who is to be started
    repeated,     \* _repeated_jobs after that of Poller: process_write of each
    turn,         \* how many of those were run
    due,          \* the events of this poll still to be dispatched
    running,      \* the handler being run, and what it does
    \* Poller
    fds,          \* _fds
    registered,   \* _handlers of Poller
    \* HandlersManager, Handler and ServerTalker
    manager,      \* _handlers of HandlersManager
    read_buffer,  \* _read_buffer, whole commands
    write_buffer, \* _write_buffer, whole replies
    pending,      \* _pending
    blocked,      \* the commands that are to be answered later
    heirs,        \* the connections that may have got the memory of one that ended
    \* history
    executed,     \* how many commands of a client were executed
    said          \* the replies given to its talker

kernel   == <<peer, sent, inbox, wire, got, backlog, descriptor>>
poller   == <<fds, registered>>
handlers == <<manager, read_buffer, write_buffer, pending, heirs>>
history  == <<blocked, executed, said>>
loop     == <<up, phase, jobs, repeated, turn, due, running>>
vars == <<kernel, poller, handlers, history, loop>>

Reply(c, n) == [conn |-> c, command |-> n]
NoEntry == [conn |-> None, flags |-> {}, pos |-> 0]
Idle == [conn |-> None, doing |-> "nothing"]

Init ==
    /\ peer = [c \in Conn |-> "none"]
    /\ sent = [c \in Conn |-> <<>>] /\ inbox = [c \in Conn |-> <<>>]
    /\ wire = [c \in Conn |-> <<>>] /\ got = [c \in Conn |-> <<>>]
    /\ backlog = <<>> /\ descriptor = [c \in Conn |-> NoFd]
    /\ up = TRUE /\ phase = "jobs" /\ jobs = <<Server>> /\ repeated = <<>>
    /\ turn = 0 /\ due = <<>> /\ running = Idle
    /\ fds = <<>> /\ registered = [f \in Fd \cup {ServerFd} |-> NoEntry]
    /\ manager = [f \in Fd |-> None]
    /\ read_buffer = [c \in Conn |-> <<>>] /\ write_buffer = [c \in Conn |-> <<>>]
    /\ pending = [c \in Conn |-> <<>>] /\ heirs = [c \in Conn |-> {}]
    /\ blocked = [c \in Conn |-> {}]
    /\ executed = [c \in Conn |-> 0] /\ said = [c \in Conn |-> <<>>]

(* The Handler of a connection exists.                                     *)
Alive(c) == \E f \in Fd : manager[f] = c

-----------------------------------------------------------------------------
(* Clients.  One that sent its commands may go away at any time; it is     *)
(* reset if it aborts, or if replies come in after it closed.              *)

Connect(c) ==
    /\ peer[c] = "none" /\ registered[ServerFd].conn = Server
    /\ peer' = [peer EXCEPT ![c] = "connected"]
    /\ backlog' = Append(backlog, c)
    /\ UNCHANGED <<sent, inbox, wire, got, descriptor, poller, handlers, history, loop>>

Sends == MapThenSumSet(LAMBDA c : Len(sent[c]), Conn)
Send(c, kind) ==
    /\ peer[c] = "connected" /\ Sends < MaxSends
    /\ sent' = [sent EXCEPT ![c] = Append(@, kind)]
    /\ inbox' = [inbox EXCEPT ![c] = Append(@, Len(sent[c]) + 1)]
    /\ UNCHANGED <<peer, wire, got, backlog, descriptor, poller, handlers, history, loop>>

Receive(c) ==
    /\ peer[c] = "connected" /\ wire[c] # <<>>
    /\ got' = [got EXCEPT ![c] = Append(@, Head(wire[c]))]
    /\ wire' = [wire EXCEPT ![c] = Tail(@)]
    /\ UNCHANGED <<peer, sent, inbox, backlog, descriptor, poller, handlers, history, loop>>

GoAway(c) ==
    /\ \/ peer[c] = "connected" /\ \E how \in {"closed", "aborted"} : peer' = [peer EXCEPT ![c] = how]
       \/ peer[c] = "closed" /\ wire[c] # <<>> /\ peer' = [peer EXCEPT ![c] = "broken"]
    /\ UNCHANGED <<sent, inbox, wire, got, backlog, descriptor, poller, handlers, history, loop>>

-----------------------------------------------------------------------------
(* Poller.                                                                 *)

(* Poller::_slot_add sets bits in a variable that was not initialised: it  *)
(* may ask for POLLOUT as well.  All of its callers ask for POLLIN.        *)
AddFd(f, c, events) ==
    \E flags \in {events \cup g : g \in SUBSET Garbage} :
        IF registered[f] = NoEntry
        THEN /\ fds' = Append(fds, [fd |-> f, events |-> flags])
             /\ registered' = [registered EXCEPT ![f] =
                   [conn |-> c, flags |-> flags, pos |-> Len(fds) + 1]]
        ELSE /\ fds' = [fds EXCEPT ![registered[f].pos].events = flags]
             /\ registered' = [registered EXCEPT ![f].conn = c, ![f].flags = flags]

(* Poller::_slot_remove                                                    *)
RemoveFd(f) ==
    /\ fds' = IF registered[f] = NoEntry THEN fds
              ELSE [fds EXCEPT ![registered[f].pos].fd = NoFd]
    /\ registered' = [registered EXCEPT ![f] = NoEntry]

(* What poll() reports of a descriptor, in the order it is dispatched.     *)
(* Errors are reported unasked, and always with POLLHUP behind them.       *)
Reset(c) == peer[c] \in {"aborted", "broken"}
Shows(c, event) ==
    CASE event = "err" -> c # Server /\ Reset(c)
      [] event = "in"  -> IF c = Server THEN backlog # <<>>
                          ELSE inbox[c] # <<>> \/ peer[c] # "connected"
      [] event = "out" -> c # Server /\ (Len(wire[c]) < Capacity \/ Reset(c))
Owner(f) == IF f = ServerFd THEN {Server}
            ELSE {c \in Conn : f # NoFd /\ descriptor[c] = f}
Reported(i, event) ==
    IF event \in fds[i].events \cup {"err"} /\ \E c \in Owner(fds[i].fd) : Shows(c, event)
    THEN <<[pos |-> i, event |-> event]>> ELSE <<>>
Revents(i) == Reported(i, "err") \o Reported(i, "in") \o Reported(i, "out")

Poll ==
    /\ up /\ phase = "poll"
    /\ due' = FlattenSeq([i \in DOMAIN fds |-> Revents(i)])
    /\ phase' = "dispatch"
    /\ UNCHANGED <<up, jobs, repeated, turn, running, kernel, poller, handlers, history>>

(* The next event, and the handler it is for.                              *)
Dispatches(event) ==
    /\ up /\ phase = "dispatch" /\ running = Idle /\ due # <<>>
    /\ Head(due).event = event
DueFd == fds[Head(due).pos].fd
DueConn == IF DueFd = NoFd THEN None ELSE registered[DueFd].conn

(* The reference to a handler that removed itself from the map is still    *)
(* used: what it shows is skipped, or ends the process.                    *)
DispatchGone ==
    /\ \E event \in {"err", "in", "out"} : Dispatches(event)
    /\ DueConn = None
    /\ \/ due' = Tail(due) /\ UNCHANGED up
       \/ up' = FALSE /\ UNCHANGED due
    /\ UNCHANGED <<phase, jobs, repeated, turn, running, kernel, poller, handlers, history>>

-----------------------------------------------------------------------------
(* Server and HandlersManager.                                             *)

(* A slot with a bare pointer to the talker of d is kept for a WAIT.       *)
WaitsFor(d) == \E n \in blocked[d] : sent[d][n] = "waits"

FreeFd == Fd \ {descriptor[c] : c \in Conn}

AddStarted(f, c) ==
    /\ manager' = [manager EXCEPT ![f] = c]
    /\ fds' = Append(fds, [fd |-> f, events |-> {"in"}])
    /\ registered' = [registered EXCEPT ![f] =
          [conn |-> c, flags |-> {"in"}, pos |-> Len(fds) + 1]]
    /\ UNCHANGED <<due, jobs, heirs>>

(* HandlersManager::add refuses a descriptor it still has; the exception   *)
(* ends the accepting.  The Handler posts its own start.                   *)
Add(f, c) ==
    IF manager[f] # None
    THEN due' = Tail(due) /\ UNCHANGED <<manager, jobs, heirs, poller>>
    ELSE /\ manager' = [manager EXCEPT ![f] = c]
         /\ jobs' = Append(jobs, c)
         /\ heirs' = [d \in Conn |-> IF ~ Alive(d) /\ WaitsFor(d) THEN heirs[d] \cup {c} ELSE heirs[d]]
         /\ UNCHANGED <<due, poller>>

Accept ==
    /\ Dispatches("in") /\ DueConn = Server
    /\ backlog # <<>> /\ FreeFd # {}
    /\ backlog' = Tail(backlog)
    /\ descriptor' = [descriptor EXCEPT ![Head(backlog)] = Min(FreeFd)]
    /\ Add(Min(FreeFd), Head(backlog))
    /\ UNCHANGED <<peer, sent, inbox, wire, got, history, read_buffer, write_buffer,
                   pending, up, phase, repeated, turn, running>>

(* EAGAIN, or EMFILE, whose exception is caught.                           *)
AcceptDone ==
    /\ Dispatches("in") /\ DueConn = Server
    /\ backlog = <<>> \/ FreeFd = {}
    /\ due' = Tail(due)
    /\ UNCHANGED <<up, phase, jobs, repeated, turn, running, kernel, poller, handlers, history>>

-----------------------------------------------------------------------------
(* Handler.                                                                *)

(* The start job of Server, which may fail to bind, and that of a Handler. *)
StartServer ==
    /\ up /\ phase = "jobs" /\ jobs # <<>> /\ Head(jobs) = Server
    /\ jobs' = Tail(jobs)
    /\ AddFd(ServerFd, Server, {"in"}) \/ UNCHANGED poller
    /\ UNCHANGED <<up, phase, repeated, turn, due, running, kernel, handlers, history>>

StartHandler(c) ==
    /\ up /\ phase = "jobs" /\ jobs # <<>> /\ Head(jobs) = c
    /\ jobs' = Tail(jobs)
    /\ AddFd(descriptor[c], c, {"in"})
    /\ repeated' = Append(repeated, c)
    /\ UNCHANGED <<up, phase, turn, due, running, kernel, handlers, history>>

CloseKeepingHandler(c) ==
    /\ RemoveFd(descriptor[c])
    /\ descriptor' = [descriptor EXCEPT ![c] = NoFd]
    /\ UNCHANGED <<peer, sent, inbox, wire, got, backlog, handlers>>

(* Handler::close takes the descriptor out of Poller, then out of          *)
(* HandlersManager, which destroys the Handler, and gives it back to the   *)
(* kernel, which drops what the socket holds.                              *)
Close(c) ==
    /\ RemoveFd(descriptor[c])
    /\ manager' = [manager EXCEPT ![descriptor[c]] = None]
    /\ descriptor' = [descriptor EXCEPT ![c] = NoFd]
    /\ read_buffer' = [read_buffer EXCEPT ![c] = <<>>]
    /\ write_buffer' = [write_buffer EXCEPT ![c] = <<>>]
    /\ pending' = [pending EXCEPT ![c] = <<>>]
    /\ inbox' = [inbox EXCEPT ![c] = <<>>] /\ wire' = [wire EXCEPT ![c] = <<>>]
    /\ UNCHANGED <<peer, sent, got, backlog, heirs>>

(* POLLERR: close() and an exception, which ends the dispatch.             *)
HandleError ==
    /\ Dispatches("err") /\ DueConn \in Conn
    /\ Close(DueConn) /\ due' = <<>>
    /\ UNCHANGED <<up, phase, jobs, repeated, turn, running, history>>

(* Handler::read: everything there is, or what is there and then the end   *)
(* of the stream or ECONNRESET, which are thrown before it is parsed.      *)
Read ==
    LET c == DueConn
    IN  /\ Dispatches("in") /\ c \in Conn /\ peer[c] = "connected"
        /\ read_buffer' = [read_buffer EXCEPT ![c] = @ \o inbox[c]]
        /\ inbox' = [inbox EXCEPT ![c] = <<>>]
        /\ running' = [conn |-> c, doing |-> "listen"]
        /\ due' = Tail(due)
        /\ UNCHANGED <<peer, sent, wire, got, backlog, descriptor, poller, manager, write_buffer,
                       pending, heirs, history, up, phase, jobs, repeated, turn>>

(* process_read goes on to process_write after close() has destroyed the   *)
(* Handler: it finds nothing to say, throws, or ends the process.          *)
ReadEnd ==
    LET c == DueConn
    IN  /\ Dispatches("in") /\ c \in Conn /\ peer[c] # "connected"
        /\ Close(c)
        /\ \/ due' = Tail(due) /\ UNCHANGED up
           \/ due' = <<>> /\ UNCHANGED up
           \/ up' = FALSE /\ UNCHANGED due
        /\ UNCHANGED <<phase, jobs, repeated, turn, running, history>>

Runs(c, doing) == up /\ running = [conn |-> c, doing |-> doing]

Says(c, n) ==
    /\ pending' = [pending EXCEPT ![c] = Append(@, Reply(c, n))]
    /\ said' = [said EXCEPT ![c] = Append(@, Reply(c, n))]

(* The next message is parsed, and ServerTalker::listen executes it.       *)
Listen(c) ==
    LET n == Head(read_buffer[c])
        kind == sent[c][n]
    IN  /\ Runs(c, "listen") /\ read_buffer[c] # <<>>
        /\ read_buffer' = [read_buffer EXCEPT ![c] = Tail(@)]
        /\ executed' = [executed EXCEPT ![c] = n]
        /\ \/ kind = "plain" /\ Says(c, n) /\ UNCHANGED <<blocked, running, due>>
           \/ kind = "throws" /\ Says(c, n) /\ running' = Idle /\ due' = <<>> /\ UNCHANGED blocked
           \/ /\ kind \in {"blocks", "waits"}
              /\ blocked' = [blocked EXCEPT ![c] = @ \cup {n}]
              /\ UNCHANGED <<said, pending, running, due>>
        /\ UNCHANGED <<kernel, poller, manager, write_buffer, heirs, up, phase, jobs, repeated, turn>>

ListenOnce(c) ==
    /\ Runs(c, "listen")
    /\ running' = [running EXCEPT !.doing = "say"]
    /\ UNCHANGED <<up, phase, jobs, repeated, turn, due, kernel, poller, handlers, history>>

ListenDone(c) ==
    /\ Runs(c, "listen") /\ read_buffer[c] = <<>>
    /\ running' = [running EXCEPT !.doing = "say"]
    /\ UNCHANGED <<up, phase, jobs, repeated, turn, due, kernel, poller, handlers, history>>

(* Handler::write: the socket takes what it has room for, and POLLOUT is   *)
(* asked for if something is left.                                         *)
InterestInInput(rest) == {"in"}
Interest(rest) == IF rest = <<>> THEN {"in"} ELSE {"in", "out"}

Write(c, buffer) ==
    LET n == Min({Capacity - Len(wire[c]), Len(buffer)})
        rest == SubSeq(buffer, n + 1, Len(buffer))
    IN  /\ wire' = [wire EXCEPT ![c] = @ \o SubSeq(buffer, 1, n)]
        /\ write_buffer' = [write_buffer EXCEPT ![c] = rest]
        /\ AddFd(descriptor[c], c, Interest(rest))

(* Handler::process_write: the talker's next reply is sent.  ECONNRESET    *)
(* closes the connection; SIGPIPE, which comes with EPIPE, ends the        *)
(* process.                                                                *)
Say(c) ==
    /\ Runs(c, "say") /\ pending[c] # <<>>
    /\ \/ /\ ~ Reset(c)
          /\ pending' = [pending EXCEPT ![c] = Tail(@)]
          /\ Write(c, Append(write_buffer[c], Head(pending[c])))
          /\ UNCHANGED <<up, running, peer, sent, inbox, got, backlog, descriptor, manager,
                         read_buffer, heirs>>
       \/ peer[c] = "aborted" /\ Close(c) /\ running' = Idle /\ UNCHANGED up
       \/ peer[c] = "broken" /\ up' = FALSE /\ UNCHANGED <<running, kernel, poller, handlers>>
    /\ UNCHANGED <<phase, jobs, repeated, turn, due, history>>

SayDone(c) ==
    /\ Runs(c, "say") /\ pending[c] = <<>>
    /\ running' = Idle
    /\ UNCHANGED <<up, phase, jobs, repeated, turn, due, kernel, poller, handlers, history>>

(* POLLOUT: write(), unless the flags changed or nothing is left.  No one  *)
(* catches ConnReset here: it does not publicly inherit from               *)
(* std::exception.                                                         *)
ReadyToWrite ==
    LET c == DueConn
    IN  /\ Dispatches("out") /\ c \in Conn
        /\ due' = Tail(due)
        /\ \/ /\ "out" \notin registered[DueFd].flags \/ write_buffer[c] = <<>>
              /\ UNCHANGED <<up, wire, write_buffer, poller>>
           \/ /\ "out" \in registered[DueFd].flags /\ write_buffer[c] # <<>>
              /\ ~ Reset(c) /\ Write(c, write_buffer[c]) /\ UNCHANGED up
           \/ /\ "out" \in registered[DueFd].flags /\ write_buffer[c] # <<>>
              /\ Reset(c) /\ up' = FALSE /\ UNCHANGED <<wire, write_buffer, poller>>
        /\ UNCHANGED <<peer, sent, inbox, got, backlog, descriptor, manager, read_buffer, pending,
                       heirs, history, phase, jobs, repeated, turn, running>>

-----------------------------------------------------------------------------
(* Storage and StorageMiddleware answer a command later, from a one-time   *)
(* job or a timeout, and a WAIT also from the acknowledgement of another   *)
(* connection.                                                             *)

(* Whom the slot of a command reaches.  That of an XREAD is gone with its  *)
(* talker; that of a WAIT lives on with a bare pointer to memory that a    *)
(* later talker may have got.                                              *)
ReachedByBare(c, kind) == IF Alive(c) THEN {c} ELSE {d \in heirs[c] : Alive(d)} \cup {None}
Reached(c, kind) ==
    IF Alive(c) THEN {c}
    ELSE IF kind = "waits" THEN {d \in heirs[c] : Alive(d)} \cup {None} ELSE {None}

MayAnswer(kind) ==
    \/ phase = "jobs" \/ phase = "timeouts"
    \/ kind = "waits" /\ phase = "dispatch" /\ running # Idle /\ running.doing = "listen"

Answer(c, n) ==
    /\ up /\ n \in blocked[c] /\ MayAnswer(sent[c][n])
    /\ blocked' = [blocked EXCEPT ![c] = @ \ {n}]
    /\ \/ \E d \in Reached(c, sent[c][n]) :
             /\ pending' = IF d = None THEN pending ELSE [pending EXCEPT ![d] = Append(@, Reply(c, n))]
             /\ said' = IF d = None THEN said ELSE [said EXCEPT ![d] = Append(@, Reply(c, n))]
             /\ UNCHANGED up
       \/ /\ sent[c][n] = "waits" /\ ~ Alive(c)
          /\ up' = FALSE /\ UNCHANGED <<pending, said>>
    /\ UNCHANGED <<kernel, poller, manager, read_buffer, write_buffer, heirs, executed,
                   phase, jobs, repeated, turn, due, running>>

-----------------------------------------------------------------------------
(* EventLoop::start.                                                       *)

Goto(from, to) ==
    /\ up /\ phase = from /\ running = Idle /\ phase' = to
    /\ UNCHANGED <<up, jobs, repeated, due, running, kernel, poller, handlers, history>>

JobsDone == jobs = <<>> /\ Goto("jobs", "poll") /\ turn' = 0
DispatchDone == due = <<>> /\ Goto("dispatch", "writes") /\ UNCHANGED turn
WritesDone == turn = Len(repeated) /\ Goto("writes", "timeouts") /\ UNCHANGED turn
TimeoutsDone == Goto("timeouts", "jobs") /\ UNCHANGED turn

(* The next repeated job; that of a Handler which is gone is not valid.    *)
RunRepeated ==
    /\ up /\ phase = "writes" /\ running = Idle /\ turn < Len(repeated)
    /\ turn' = turn + 1
    /\ running' = IF Alive(repeated[turn + 1])
                  THEN [conn |-> repeated[turn + 1], doing |-> "say"] ELSE Idle
    /\ UNCHANGED <<up, phase, jobs, repeated, due, kernel, poller, handlers, history>>

(* What clients do once the process has ended is of no interest.           *)
Client(c) ==
    up /\ (Connect(c) \/ (\E kind \in Kind : Send(c, kind)) \/ Receive(c) \/ GoAway(c))

EventLoop ==
    \/ StartServer \/ Poll \/ DispatchGone \/ Accept \/ AcceptDone
    \/ HandleError \/ Read \/ ReadEnd \/ ReadyToWrite
    \/ \E c \in Conn : StartHandler(c) \/ Listen(c) \/ ListenDone(c) \/ Say(c) \/ SayDone(c)
    \/ JobsDone \/ DispatchDone \/ RunRepeated \/ WritesDone \/ TimeoutsDone

Next ==
    \/ \E c \in Conn : Client(c)
    \/ EventLoop
    \/ \E c \in Conn : \E n \in blocked[c] : Answer(c, n)

(* The loop never stops.  A client that stays reads what it is sent.       *)
Fairness == WF_vars(EventLoop) /\ \A c \in Conn : WF_vars(up /\ Receive(c))

Spec == Init /\ [][Next]_vars
FairSpec == Spec /\ Fairness

-----------------------------------------------------------------------------
(* Properties.                                                             *)

(* The kernel, HandlersManager and Poller agree on who has a descriptor,   *)
(* and Poller on where in _fds it is, whatever was closed and accepted     *)
(* again: no event reaches the handler of another connection, and no       *)
(* connection is left without one.                                         *)
DescriptorsInStep ==
    /\ \A c \in Conn : descriptor[c] # NoFd => manager[descriptor[c]] = c
    /\ \A f \in Fd : manager[f] # None => descriptor[manager[f]] = f
    /\ \A f \in Fd \cup {ServerFd} : registered[f] # NoEntry =>
          /\ fds[registered[f].pos] = [fd |-> f, events |-> registered[f].flags]
          /\ registered[f].conn = IF f = ServerFd THEN Server ELSE manager[f]
    /\ \A i \in DOMAIN fds : fds[i].fd # NoFd => registered[fds[i].fd].pos = i

(* Nothing is appended to _fds while Poller iterates over it, although     *)
(* connections are accepted from there.                                    *)
FdsFixedInDispatch == [][phase = "dispatch" => Len(fds') = Len(fds)]_vars

(* As long as a handler has something left to write, it is polled for      *)
(* POLLOUT.                                                                *)
PendingIsPolled ==
    \A c \in Conn : Alive(c) /\ write_buffer[c] # <<>> =>
        "out" \in registered[descriptor[c]].flags

(* A command that was read waits to be executed only while the commands    *)
(* before it are executed, or after one of them threw.                     *)
LeftUnparsed ==
    \A c \in Conn : read_buffer[c] # <<>> =>
        \/ running = [conn |-> c, doing |-> "listen"]
        \/ executed[c] > 0 /\ sent[c][executed[c]] = "throws"

(* What Session promises is kept: commands are executed once and in order, *)
(* and replies arrive in the order they were given, none lost or repeated  *)
(* between two that arrive.  No client gets the reply to the command of    *)
(* another one, also if it has the descriptor of one that left; but for    *)
(* those to WAIT.                                                          *)
Promise == INSTANCE Session
    WITH Conn <- Conn, Kind <- Kind,
         sent <- sent, executed <- executed, said <- said, got <- got
SessionKept == Promise!SessionSpec

(* A command reaches the server in the end, if a connection was accepted   *)
(* and its client stays, and no command before it threw.                   *)
EveryCommandRuns ==
    \A c \in Conn : \A n \in 1..MaxSends :
        (descriptor[c] # NoFd /\ Len(sent[c]) >= n /\ \A m \in 1..n - 1 : sent[c][m] # "throws")
            ~> (executed[c] >= n \/ peer[c] # "connected" \/ ~ up)

(* A reply that was given arrives in the end, if the client stays.         *)
EveryReplyArrives ==
    \A c \in Conn : \A n \in 1..MaxSends :
        Len(said[c]) >= n ~> (Len(got[c]) >= n \/ peer[c] # "connected" \/ ~ up)
=============================================================================
