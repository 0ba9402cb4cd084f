------------------------- MODULE ConnectionsProofs -------------------------
(***************************************************************************)
(* Theorems of Connections: that everything kept by descriptor stays in    *)
(* step, and that the server keeps its promise to each client, for any     *)
(* number of connections, descriptors and commands.                        *)
(***************************************************************************)
EXTENDS Connections, SequenceTheorems, WellFoundedInduction, TLAPS

(* A set of numbers that is not empty has a least one.                     *)
LEMMA LeastExists ==
    ASSUME NEW T \in SUBSET Nat, T # {}
    PROVE  \E x \in T : \A y \in T : x <= y
  <1>1. PICK x \in T : \A y \in T : <<y, x>> \notin OpToRel(<, Nat)
    BY NatLessThanWellFounded, WFMin, Zenon
  <1>2. \A y \in T : y \in Nat /\ x \in Nat /\ ~ (y < x)
    BY <1>1 DEF OpToRel
  <1>. QED  BY <1>2

LEMMA MinType ==
    ASSUME NEW T \in SUBSET Nat, T # {}
    PROVE  Min(T) \in T /\ \A y \in T : Min(T) <= y
  BY LeastExists DEF Min

LEMMA Min2 ==
    ASSUME NEW a \in Nat, NEW b \in Nat
    PROVE  Min({a, b}) \in Nat /\ Min({a, b}) <= a /\ Min({a, b}) <= b
           /\ (Min({a, b}) = a \/ Min({a, b}) = b)
  <1>1. {a, b} \in SUBSET Nat /\ {a, b} # {}
    OBVIOUS
  <1>2. Min({a, b}) \in {a, b} /\ \A y \in {a, b} : Min({a, b}) <= y
    BY <1>1, MinType
  <1>. QED  BY <1>2

-----------------------------------------------------------------------------
(* The elements of a flattened sequence are those of its members: by the   *)
(* first length, were there one, at which it fails.                        *)
Joins(f, s, n) ==
    f = [i \in 1..n |-> IF i = 1 THEN s[i] ELSE f[i - 1] \o s[i]]
Flattened(s, n, S) ==
    \E f : Joins(f, s, n) /\ \A i \in 1..n : f[i] \in Seq(S)

LEMMA FlattenStep ==
    ASSUME NEW S, NEW s \in Seq(Seq(S)), NEW n \in Nat, n + 1 <= Len(s), Flattened(s, n, S)
    PROVE  Flattened(s, n + 1, S)
  <1>1. PICK f : Joins(f, s, n) /\ \A i \in 1..n : f[i] \in Seq(S)
    BY DEF Flattened
  <1>. DEFINE last == IF n = 0 THEN s[1] ELSE f[n] \o s[n + 1]
              g == [i \in 1..n + 1 |-> IF i = n + 1 THEN last ELSE f[i]]
  <1>2. n + 1 \in 1..Len(s) /\ s[n + 1] \in Seq(S)
    OBVIOUS
  <1>3. last \in Seq(S)
    <2>1. CASE n = 0
      BY <1>2, <2>1
    <2>2. CASE n # 0
      <3>1. f[n] \in Seq(S)
        BY <1>1, <2>2
      <3>. QED  BY <1>2, <2>2, <3>1, ConcatProperties
    <2>. QED  BY <2>1, <2>2
  <1>4. \A i \in 1..n + 1 : g[i] \in Seq(S)
    BY <1>1, <1>3
  <1>5. \A i \in 1..n + 1 : g[i] = IF i = 1 THEN s[i] ELSE g[i - 1] \o s[i]
    <2>1. SUFFICES ASSUME NEW i \in 1..n + 1
                   PROVE  g[i] = IF i = 1 THEN s[i] ELSE g[i - 1] \o s[i]
      OBVIOUS
    <2>2. CASE i = n + 1 /\ n = 0
      BY <2>2
    <2>3. CASE i = n + 1 /\ n # 0
      <3>1. i - 1 = n /\ n \in 1..n + 1 /\ n # n + 1 /\ i # 1
        BY <2>3
      <3>2. g[n] = f[n]
        BY <3>1
      <3>3. g[i] = f[n] \o s[n + 1]
        BY <2>3
      <3>. QED  BY <2>3, <3>1, <3>2, <3>3
    <2>4. CASE i # n + 1
      <3>1. i \in 1..n /\ g[i] = f[i] /\ (i # 1 => g[i - 1] = f[i - 1])
        BY <2>4
      <3>2. f[i] = IF i = 1 THEN s[i] ELSE f[i - 1] \o s[i]
        BY <1>1, <3>1 DEF Joins
      <3>. QED  BY <3>1, <3>2
    <2>. QED  BY <2>2, <2>3, <2>4
  <1>6. Joins(g, s, n + 1)
    <2>. DEFINE h == [i \in 1..n + 1 |-> IF i = 1 THEN s[i] ELSE g[i - 1] \o s[i]]
    <2>1. g = h
      <3>. HIDE DEF last
      <3>1. \A i \in 1..n + 1 : g[i] = h[i]
        BY <1>5
      <3>. QED  BY <3>1
    <2>. QED  BY <2>1 DEF Joins
  <1>. HIDE DEF g
  <1>. QED  BY <1>4, <1>6 DEF Flattened

LEMMA FlattenExists ==
    ASSUME NEW S, NEW s \in Seq(Seq(S))
    PROVE  Flattened(s, Len(s), S)
  <1>. DEFINE Failed == {n \in Nat : n <= Len(s) /\ ~ Flattened(s, n, S)}
  <1>1. SUFFICES ASSUME Failed # {} PROVE FALSE
    OBVIOUS
  <1>2. PICK n \in Failed : \A m \in Failed : n <= m
    <2>1. Failed \in SUBSET Nat
      OBVIOUS
    <2>. HIDE DEF Failed
    <2>. QED  BY <1>1, <2>1, LeastExists
  <1>3. Flattened(s, 0, S)
    <2>1. Joins(<<>>, s, 0) /\ \A i \in 1..0 : <<>>[i] \in Seq(S)
      BY DEF Joins
    <2>. QED  BY <2>1 DEF Flattened
  <1>4. n # 0 /\ n - 1 \in Nat /\ n - 1 \notin Failed
    BY <1>2, <1>3
  <1>5. Flattened(s, n - 1, S)
    BY <1>2, <1>4
  <1>6. Flattened(s, (n - 1) + 1, S)
    BY <1>2, <1>4, <1>5, FlattenStep
  <1>. QED  BY <1>2, <1>4, <1>6

LEMMA JoinsType ==
    ASSUME NEW S, NEW s \in Seq(Seq(S)), Len(s) # 0, NEW f, Joins(f, s, Len(s))
    PROVE  f[Len(s)] \in Seq(S)
  <1>. DEFINE Failed == {n \in 1..Len(s) : f[n] \notin Seq(S)}
  <1>1. SUFFICES ASSUME Failed # {} PROVE FALSE
    OBVIOUS
  <1>2. PICK n \in Failed : \A m \in Failed : n <= m
    <2>1. Failed \in SUBSET Nat
      OBVIOUS
    <2>. HIDE DEF Failed
    <2>. QED  BY <1>1, <2>1, LeastExists
  <1>3. n \in 1..Len(s) /\ f[n] \notin Seq(S) /\ s[n] \in Seq(S)
    BY <1>2
  <1>4. CASE n = 1
    BY <1>3, <1>4 DEF Joins
  <1>5. CASE n # 1
    <2>1. n - 1 \in 1..Len(s) /\ n - 1 \notin Failed
      BY <1>2, <1>3, <1>5
    <2>2. f[n - 1] \in Seq(S) /\ f[n] = f[n - 1] \o s[n]
      BY <1>3, <1>5, <2>1 DEF Joins
    <2>. QED  BY <1>3, <2>2, ConcatProperties
  <1>. QED  BY <1>4, <1>5

LEMMA FlattenType ==
    ASSUME NEW S, NEW s \in Seq(Seq(S))
    PROVE  FlattenSeq(s) \in Seq(S)
  <1>1. CASE Len(s) = 0
    <2>1. FlattenSeq(s) = s /\ s = <<>>
      BY <1>1 DEF FlattenSeq
    <2>. QED  BY <2>1
  <1>2. CASE Len(s) # 0
    <2>. DEFINE f == CHOOSE f : Joins(f, s, Len(s))
    <2>1. PICK g : Joins(g, s, Len(s)) /\ \A i \in 1..Len(s) : g[i] \in Seq(S)
      BY FlattenExists DEF Flattened
    <2>2. Joins(f, s, Len(s))
      BY <2>1
    <2>. HIDE DEF f
    <2>3. f[Len(s)] \in Seq(S)
      BY <1>2, <2>2, JoinsType
    <2>. USE DEF f
    <2>4. FlattenSeq(s) = f[Len(s)]
      BY <1>2 DEF FlattenSeq, Joins
    <2>. QED  BY <2>3, <2>4
  <1>. QED  BY <1>1, <1>2
-----------------------------------------------------------------------------
(* What holds of every reachable state.                                    *)

Descriptors == Fd \cup {ServerFd}
Flags == SUBSET {"in", "out"}
Replies == [conn : Conn, command : Nat]
Entries == [conn : Conn \cup {Server, None}, flags : Flags, pos : Nat]
Happening == [pos : Nat, event : {"err", "in", "out"}]
Places == [fd : Descriptors \cup {NoFd}, events : Flags]

KernelType ==
    /\ peer \in [Conn -> {"none", "connected", "closed", "aborted", "broken"}]
    /\ sent \in [Conn -> Seq(Kind)] /\ inbox \in [Conn -> Seq(Nat)]
    /\ wire \in [Conn -> Seq(Replies)] /\ \A c \in Conn : Len(wire[c]) <= Capacity
    /\ got \in [Conn -> Seq(Replies)]
    /\ backlog \in Seq(Conn) /\ descriptor \in [Conn -> Fd \cup {NoFd}]
LoopType ==
    /\ jobs \in Seq(Conn \cup {Server}) /\ repeated \in Seq(Conn) /\ turn \in Nat
    /\ running \in [conn : Conn \cup {None}, doing : {"nothing", "listen", "say"}]
    /\ due \in Seq(Happening)
PollerType ==
    /\ fds \in Seq(Places)
    /\ registered \in [Descriptors -> Entries]
HandlerType ==
    /\ manager \in [Fd -> Conn \cup {None}]
    /\ read_buffer \in [Conn -> Seq(Nat)]
    /\ write_buffer \in [Conn -> Seq(Replies)] /\ pending \in [Conn -> Seq(Replies)]
    /\ heirs \in [Conn -> SUBSET Conn]
    /\ blocked \in [Conn -> SUBSET Nat] /\ executed \in [Conn -> Nat]
    /\ said \in [Conn -> Seq(Replies)]
TypeInv == KernelType /\ LoopType /\ PollerType /\ HandlerType

(* The kernel and HandlersManager agree on who has a descriptor.           *)
ManagerInv ==
    /\ \A c \in Conn : descriptor[c] # NoFd => manager[descriptor[c]] = c
    /\ \A f \in Fd : manager[f] # None => descriptor[manager[f]] = f

(* Poller's map and its array agree, and the map with HandlersManager.     *)
PollerInv ==
    /\ \A f \in Descriptors : registered[f] # NoEntry =>
          /\ registered[f].pos \in 1..Len(fds)
          /\ fds[registered[f].pos] = [fd |-> f, events |-> registered[f].flags]
          /\ registered[f].conn = IF f = ServerFd THEN Server ELSE manager[f]
          /\ registered[f].conn # None
    /\ \A i \in 1..Len(fds) : fds[i].fd # NoFd => registered[fds[i].fd].pos = i

(* A connection is accepted once, and then started, run and polled.        *)
Fresh(c) ==
    /\ descriptor[c] = NoFd /\ said[c] = <<>>
    /\ \A i \in 1..Len(repeated) : repeated[i] # c
BacklogInv ==
    /\ \A c \in Conn : peer[c] = "none" => Fresh(c) /\ \A i \in 1..Len(backlog) : backlog[i] # c
    /\ \A i \in 1..Len(backlog) :
          Fresh(backlog[i]) /\ \A j \in 1..Len(backlog) : backlog[j] = backlog[i] => j = i

Registered(c) == descriptor[c] # NoFd /\ registered[descriptor[c]] # NoEntry
JobsInv ==
    \A i \in 1..Len(jobs) : jobs[i] # Server =>
        /\ descriptor[jobs[i]] # NoFd /\ registered[descriptor[jobs[i]]] = NoEntry
        /\ \A j \in 1..Len(jobs) : jobs[j] = jobs[i] => j = i
RunInv ==
    /\ \A i \in 1..Len(repeated) : descriptor[repeated[i]] # NoFd => Registered(repeated[i])
    /\ running.conn # None => Registered(running.conn)

(* What is still to be dispatched has its place in _fds, and an error is   *)
(* one of the connection that is still there.                              *)
DueInv ==
    \A i \in 1..Len(due) :
        /\ due[i].pos \in 1..Len(fds)
        /\ LET f == fds[due[i].pos].fd
           IN  due[i].event = "err" /\ f # NoFd =>
                 registered[f].conn # Server /\ Reset(registered[f].conn)

(* What is left to be written is polled for.                               *)
PolledInv ==
    \A c \in Conn : write_buffer[c] # <<>> =>
        descriptor[c] # NoFd /\ "out" \in registered[descriptor[c]].flags

(* The commands executed, read and not read are those that were sent.      *)
CommandsAt(c) ==
    LET read == executed[c] + Len(read_buffer[c])
        came == read + Len(inbox[c])
    IN  /\ \A i \in 1..Len(read_buffer[c]) : read_buffer[c][i] = executed[c] + i
        /\ \A i \in 1..Len(inbox[c]) : inbox[c][i] = read + i
        /\ came <= Len(sent[c])
        /\ peer[c] \in {"none", "connected"} => came = Len(sent[c])
CommandsInv == \A c \in Conn : CommandsAt(c)

(* The replies received, in the socket, in the buffer and pending are      *)
(* those that were given.                                                  *)
RepliesAt(c) ==
    LET g == Len(got[c])
        w == g + Len(wire[c])
        b == w + Len(write_buffer[c])
        p == b + Len(pending[c])
    IN  /\ \A i \in 1..g : got[c][i] = said[c][i]
        /\ \A i \in 1..Len(wire[c]) : wire[c][i] = said[c][g + i]
        /\ \A i \in 1..Len(write_buffer[c]) : write_buffer[c][i] = said[c][w + i]
        /\ \A i \in 1..Len(pending[c]) : pending[c][i] = said[c][b + i]
        /\ p <= Len(said[c])
        /\ descriptor[c] # NoFd => p = Len(said[c])
RepliesInv == \A c \in Conn : RepliesAt(c)

(* A command is blocked only until it is answered.                         *)
BlockedInv ==
    /\ \A c \in Conn : \A n \in blocked[c] :
          /\ n \in 1..executed[c]
          /\ \A d \in Conn : \A i \in 1..Len(said[d]) : said[d][i] # Reply(c, n)
    /\ \A d \in Conn : \A i \in 1..Len(said[d]) : said[d][i].command <= executed[said[d][i].conn]

StepInv == ManagerInv /\ PollerInv /\ BacklogInv /\ JobsInv /\ RunInv /\ DueInv /\ PolledInv

-----------------------------------------------------------------------------
(* Types.                                                                  *)

LEMMA InitType == Init => TypeInv
  <1>. SUFFICES ASSUME Init PROVE TypeInv
    OBVIOUS
  <1>1. KernelType
    BY ConnectionsAssumption DEF Init, KernelType
  <1>2. LoopType
    BY DEF Init, LoopType, Idle
  <1>3. PollerType
    <2>1. NoEntry \in Entries
      BY DEF NoEntry, Entries, Flags
    <2>. QED  BY <2>1 DEF Init, PollerType, Descriptors
  <1>4. HandlerType
    BY DEF Init, HandlerType
  <1>. QED  BY <1>1, <1>2, <1>3, <1>4 DEF TypeInv

(* A place of _fds that is written to stays one.                           *)
LEMMA PlaceType ==
    ASSUME NEW s \in Seq(Places), NEW t, DOMAIN t = DOMAIN s,
           \A i \in DOMAIN s : t[i] = s[i] \/ t[i] \in Places,
           t = [i \in DOMAIN t |-> t[i]]
    PROVE  t \in Seq(Places) /\ Len(t) = Len(s)
  <1>1. DOMAIN s = 1..Len(s) /\ Len(s) \in Nat /\ \A i \in 1..Len(s) : s[i] \in Places
    OBVIOUS
  <1>2. t \in [1..Len(s) -> Places]
    BY <1>1
  <1>. QED  BY <1>1, <1>2, SeqDef

LEMMA AddFdType ==
    ASSUME PollerType, NEW f \in Descriptors, NEW c \in Conn \cup {Server},
           NEW events \in Flags, AddFd(f, c, events)
    PROVE  PollerType'
  <1>1. PICK flags \in {events \cup g : g \in SUBSET Garbage} :
            IF registered[f] = NoEntry
            THEN /\ fds' = Append(fds, [fd |-> f, events |-> flags])
                 /\ registered' = [registered EXCEPT ![f] =
                       [conn |-> c, flags |-> flags, pos |-> Len(fds) + 1]]
            ELSE /\ fds' = [fds EXCEPT ![registered[f].pos].events = flags]
                 /\ registered' = [registered EXCEPT ![f].conn = c, ![f].flags = flags]
    BY DEF AddFd
  <1>2. flags \in Flags
    BY ConnectionsAssumption DEF Flags
  <1>3. CASE registered[f] = NoEntry
    <2>1. [fd |-> f, events |-> flags] \in Places
      BY <1>2 DEF Places
    <2>2. fds \in Seq(Places) /\ fds' = Append(fds, [fd |-> f, events |-> flags])
      BY <1>1, <1>3 DEF PollerType
    <2>4. fds' \in Seq(Places)
      BY <2>1, <2>2, AppendProperties
    <2>3. registered' \in [Descriptors -> Entries]
      <3>1. Len(fds) + 1 \in Nat
        BY DEF PollerType
      <3>2. [conn |-> c, flags |-> flags, pos |-> Len(fds) + 1] \in Entries
        BY <1>2, <3>1 DEF Entries
      <3>. QED  BY <1>1, <1>3, <3>2 DEF PollerType
    <2>. QED  BY <2>3, <2>4 DEF PollerType
  <1>4. CASE registered[f] # NoEntry
    <2>1. DOMAIN fds' = DOMAIN fds /\ fds' = [i \in DOMAIN fds' |-> fds'[i]]
      BY <1>1, <1>4
    <2>2. \A i \in DOMAIN fds : fds'[i] = fds[i] \/ fds'[i] = [fds[i] EXCEPT !.events = flags]
      BY <1>1, <1>4
    <2>3. \A i \in DOMAIN fds : fds[i] \in Places
      BY DEF PollerType
    <2>4. \A i \in DOMAIN fds : fds'[i] = fds[i] \/ fds'[i] \in Places
      BY <1>2, <2>2, <2>3 DEF Places
    <2>5. fds' \in Seq(Places)
      BY <2>1, <2>4, PlaceType DEF PollerType
    <2>6. registered[f] \in Entries
      BY DEF PollerType
    <2>7. [registered[f] EXCEPT !.conn = c, !.flags = flags] \in Entries
      BY <1>2, <2>6 DEF Entries
    <2>8. registered' = [registered EXCEPT ![f] = [registered[f] EXCEPT !.conn = c, !.flags = flags]]
      BY <1>1, <1>4 DEF PollerType
    <2>9. registered' \in [Descriptors -> Entries]
      BY <2>7, <2>8 DEF PollerType
    <2>. QED  BY <2>5, <2>9 DEF PollerType
  <1>. QED  BY <1>3, <1>4

LEMMA RemoveFdType ==
    ASSUME PollerType, NEW f \in Descriptors, RemoveFd(f)
    PROVE  PollerType'
  <1>1. NoEntry \in Entries
    BY DEF NoEntry, Entries, Flags
  <1>2. registered' \in [Descriptors -> Entries]
    BY <1>1 DEF RemoveFd, PollerType
  <1>3. fds' \in Seq(Places)
    <2>1. DOMAIN fds' = DOMAIN fds /\ fds' = [i \in DOMAIN fds' |-> fds'[i]]
      <3>1. CASE registered[f] = NoEntry
        BY <3>1 DEF RemoveFd, PollerType
      <3>2. CASE registered[f] # NoEntry
        BY <3>2 DEF RemoveFd, PollerType
      <3>. QED  BY <3>1, <3>2
    <2>2. \A i \in DOMAIN fds : fds'[i] = fds[i] \/ fds'[i] = [fds[i] EXCEPT !.fd = NoFd]
      BY DEF RemoveFd
    <2>3. \A i \in DOMAIN fds : fds[i] \in Places
      BY DEF PollerType
    <2>4. \A i \in DOMAIN fds : fds'[i] = fds[i] \/ fds'[i] \in Places
      BY <2>2, <2>3 DEF Places
    <2>. QED  BY <2>1, <2>4, PlaceType DEF PollerType
  <1>. QED  BY <1>2, <1>3 DEF PollerType

(* The handler an event is for is that of the connection that has the      *)
(* descriptor.                                                             *)
LEMMA DueAlive ==
    ASSUME TypeInv, StepInv, due # <<>>, DueConn \in Conn
    PROVE  /\ Head(due).pos \in 1..Len(fds) /\ DueFd \in Fd
           /\ descriptor[DueConn] = DueFd /\ Registered(DueConn)
           /\ registered[DueFd].conn = DueConn
  <1>1. Head(due) = due[1] /\ 1 \in 1..Len(due)
    BY DEF TypeInv, LoopType
  <1>2. Head(due).pos \in 1..Len(fds)
    BY <1>1 DEF StepInv, DueInv
  <1>3. fds[Head(due).pos] \in Places
    BY <1>2 DEF TypeInv, PollerType
  <1>4. DueFd \in Descriptors /\ DueConn = registered[DueFd].conn
    BY <1>3, ConnectionsAssumption DEF Places, DueFd, DueConn
  <1>5. registered[DueFd] # NoEntry
    BY <1>4, ConnectionsAssumption DEF NoEntry
  <1>6. DueConn = IF DueFd = ServerFd THEN Server ELSE manager[DueFd]
    BY <1>4, <1>5 DEF StepInv, PollerInv
  <1>7. DueFd \in Fd /\ DueConn = manager[DueFd]
    BY <1>4, <1>6, ConnectionsAssumption DEF Descriptors
  <1>8. descriptor[DueConn] = DueFd
    BY <1>7, ConnectionsAssumption DEF StepInv, ManagerInv
  <1>9. DueFd # NoFd
    BY <1>7, ConnectionsAssumption DEF Fd, NoFd
  <1>. QED  BY <1>2, <1>4, <1>5, <1>7, <1>8, <1>9 DEF Registered

LEMMA RunsAlive ==
    ASSUME TypeInv, StepInv, NEW c \in Conn, running.conn = c
    PROVE  descriptor[c] \in Fd /\ Registered(c)
  BY ConnectionsAssumption DEF TypeInv, KernelType, StepInv, RunInv, Registered

LEMMA FreeFdType ==
    ASSUME FreeFd # {}
    PROVE  Min(FreeFd) \in Fd /\ Min(FreeFd) \notin {descriptor[c] : c \in Conn}
  <1>1. FreeFd \in SUBSET Nat
    BY ConnectionsAssumption DEF FreeFd, Fd
  <1>2. Min(FreeFd) \in FreeFd
    BY <1>1, MinType
  <1>. QED  BY <1>2 DEF FreeFd

LEMMA CloseType ==
    ASSUME TypeInv, NEW c \in Conn, descriptor[c] \in Fd, Close(c),
           UNCHANGED <<blocked, executed, said>>
    PROVE  KernelType' /\ PollerType' /\ HandlerType'
  <1>1. PollerType'
    BY RemoveFdType DEF TypeInv, Close, Descriptors
  <1>2. KernelType'
    BY ConnectionsAssumption DEF TypeInv, KernelType, Close
  <1>3. HandlerType'
    BY DEF TypeInv, HandlerType, Close
  <1>. QED  BY <1>1, <1>2, <1>3

LEMMA WriteType ==
    ASSUME TypeInv, NEW c \in Conn, descriptor[c] \in Fd, NEW buffer \in Seq(Replies),
           Write(c, buffer)
    PROVE  /\ wire' \in [Conn -> Seq(Replies)] /\ write_buffer' \in [Conn -> Seq(Replies)]
           /\ \A d \in Conn : Len(wire'[d]) <= Capacity
           /\ PollerType'
  <1>. DEFINE n == Min({Capacity - Len(wire[c]), Len(buffer)})
              now == SubSeq(buffer, 1, n)
              rest == SubSeq(buffer, n + 1, Len(buffer))
  <1>1. wire[c] \in Seq(Replies) /\ Len(wire[c]) \in Nat /\ Len(wire[c]) <= Capacity
    BY DEF TypeInv, KernelType
  <1>2. n \in Nat /\ n <= Len(buffer) /\ n <= Capacity - Len(wire[c])
    BY <1>1, ConnectionsAssumption, Min2
  <1>3. /\ wire' = [wire EXCEPT ![c] = @ \o now]
        /\ write_buffer' = [write_buffer EXCEPT ![c] = rest]
        /\ AddFd(descriptor[c], c, Interest(rest))
    BY DEF Write
  <1>. HIDE DEF n
  <1>4. /\ now \in Seq(Replies) /\ rest \in Seq(Replies) /\ Len(now) = n
    <2>1. \A i \in 1..Len(buffer) : buffer[i] \in Replies
      OBVIOUS
    <2>2. \A i \in 1..n : buffer[i] \in Replies
      BY <1>2, <2>1
    <2>3. \A i \in n + 1..Len(buffer) : buffer[i] \in Replies
      BY <1>2, <2>1
    <2>4. now \in Seq(Replies) /\ Len(now) = n
      BY <1>2, <2>2, SubSeqProperties
    <2>5. rest \in Seq(Replies)
      BY <1>2, <2>3, SubSeqProperties
    <2>. QED  BY <2>4, <2>5
  <1>. HIDE DEF now, rest
  <1>5. wire[c] \o now \in Seq(Replies) /\ Len(wire[c] \o now) = Len(wire[c]) + n
    BY <1>1, <1>4, ConcatProperties
  <1>6. wire' \in [Conn -> Seq(Replies)]
    BY <1>3, <1>5 DEF TypeInv, KernelType
  <1>7. \A d \in Conn : Len(wire'[d]) <= Capacity
    <2>1. Len(wire[c] \o now) <= Capacity
      BY <1>1, <1>2, <1>5, ConnectionsAssumption
    <2>. QED  BY <1>3, <2>1 DEF TypeInv, KernelType
  <1>8. write_buffer' \in [Conn -> Seq(Replies)]
    BY <1>3, <1>4 DEF TypeInv, HandlerType
  <1>9. PollerType'
    <2>1. Interest(rest) \in Flags
      BY DEF Interest, Flags
    <2>. QED  BY <1>3, <2>1, AddFdType DEF TypeInv, Descriptors
  <1>. QED  BY <1>6, <1>7, <1>8, <1>9

(* What a step leaves alone keeps its type.                                *)
LEMMA KernelSame == KernelType /\ UNCHANGED kernel => KernelType'
  BY DEF KernelType, kernel
LEMMA PollerSame == PollerType /\ UNCHANGED poller => PollerType'
  BY DEF PollerType, poller
LEMMA HandlerSame == HandlerType /\ UNCHANGED <<handlers, history>> => HandlerType'
  BY DEF HandlerType, handlers, history
LEMMA LoopSame == LoopType /\ UNCHANGED loop => LoopType'
  BY DEF LoopType, loop

LEMMA ClientType == ASSUME TypeInv, NEW c \in Conn, Client(c) PROVE TypeInv'
  <1>1. CASE Connect(c)
    <2>1. KernelType'
      BY <1>1 DEF TypeInv, KernelType, Connect
    <2>. QED  BY <1>1, <2>1, PollerSame, HandlerSame, LoopSame DEF TypeInv, Connect
  <1>2. ASSUME NEW kind \in Kind, Send(c, kind) PROVE TypeInv'
    <2>1. KernelType'
      BY <1>2 DEF TypeInv, KernelType, Send
    <2>. QED  BY <1>2, <2>1, PollerSame, HandlerSame, LoopSame DEF TypeInv, Send
  <1>3. CASE Receive(c)
    <2>1. /\ Head(wire[c]) \in Replies /\ Tail(wire[c]) \in Seq(Replies)
          /\ Len(Tail(wire[c])) <= Capacity
      BY <1>3, HeadTailProperties, ConnectionsAssumption DEF TypeInv, KernelType, Receive
    <2>2. KernelType'
      BY <1>3, <2>1 DEF TypeInv, KernelType, Receive
    <2>. QED  BY <1>3, <2>2, PollerSame, HandlerSame, LoopSame DEF TypeInv, Receive
  <1>4. CASE GoAway(c)
    <2>1. KernelType'
      BY <1>4 DEF TypeInv, KernelType, GoAway
    <2>. QED  BY <1>4, <2>1, PollerSame, HandlerSame, LoopSame DEF TypeInv, GoAway
  <1>. QED  BY <1>1, <1>2, <1>3, <1>4 DEF Client

LEMMA DueTail ==
    ASSUME LoopType, due # <<>>
    PROVE  /\ Tail(due) \in Seq(Happening)
           /\ Len(Tail(due)) = Len(due) - 1
           /\ \A i \in 1..Len(Tail(due)) : i + 1 \in 1..Len(due) /\ Tail(due)[i] = due[i + 1]
  BY HeadTailProperties DEF LoopType

LEMMA AcceptType == ASSUME TypeInv, Accept PROVE TypeInv'
  <1>. DEFINE f == Min(FreeFd)
              c == Head(backlog)
  <1>1. f \in Fd /\ c \in Conn /\ Tail(backlog) \in Seq(Conn)
    BY FreeFdType, HeadTailProperties DEF Accept, TypeInv, KernelType
  <1>2. KernelType'
    BY <1>1 DEF TypeInv, KernelType, Accept
  <1>3. LoopType' /\ PollerType' /\ HandlerType'
    <2>0. Add(f, c) /\ due # <<>>
      BY DEF Accept, Dispatches
    <2>. HIDE DEF f, c
    <2>1. CASE manager[f] # None
      <3>1. LoopType'
        BY <2>0, <2>1, DueTail DEF TypeInv, LoopType, Accept, Add
      <3>2. PollerType'
        BY <2>0, <2>1, PollerSame DEF TypeInv, Add
      <3>3. HandlerType'
        BY <2>0, <2>1 DEF TypeInv, HandlerType, Accept, Add, history
      <3>. QED  BY <3>1, <3>2, <3>3
    <2>2. CASE manager[f] = None
      <3>0. /\ manager' = [manager EXCEPT ![f] = c] /\ jobs' = Append(jobs, c)
            /\ heirs' = [d \in Conn |-> IF ~ Alive(d) /\ WaitsFor(d) THEN heirs[d] \cup {c} ELSE heirs[d]]
            /\ UNCHANGED <<due, poller>>
        BY <2>0, <2>2 DEF Add
      <3>1. LoopType'
        <4>1. Append(jobs, c) \in Seq(Conn \cup {Server})
          BY <1>1, AppendProperties DEF TypeInv, LoopType
        <4>. QED  BY <3>0, <4>1 DEF TypeInv, LoopType, Accept
      <3>2. PollerType'
        BY <3>0, PollerSame DEF TypeInv
      <3>3. HandlerType'
        <4>1. manager' \in [Fd -> Conn \cup {None}]
          BY <1>1, <3>0 DEF TypeInv, HandlerType
        <4>2. heirs' \in [Conn -> SUBSET Conn]
          BY <1>1, <3>0 DEF TypeInv, HandlerType
        <4>. QED  BY <4>1, <4>2 DEF TypeInv, HandlerType, Accept, history
      <3>. QED  BY <3>1, <3>2, <3>3
    <2>. QED  BY <2>1, <2>2
  <1>. QED  BY <1>2, <1>3 DEF TypeInv

LEMMA StartType ==
    ASSUME TypeInv, StepInv, StartServer \/ \E c \in Conn : StartHandler(c)
    PROVE  TypeInv'
  <1>1. CASE StartServer
    <2>1. PollerType'
      <3>1. ServerFd \in Descriptors /\ {"in"} \in Flags
        BY DEF Descriptors, Flags
      <3>. QED  BY <1>1, <3>1, AddFdType, PollerSame DEF StartServer, TypeInv
    <2>2. LoopType'
      BY <1>1, HeadTailProperties DEF StartServer, TypeInv, LoopType
    <2>. QED  BY <1>1, <2>1, <2>2, KernelSame, HandlerSame DEF StartServer, TypeInv
  <1>2. ASSUME NEW c \in Conn, StartHandler(c) PROVE TypeInv'
    <2>1. descriptor[c] \in Descriptors
      <3>1. jobs[1] = c /\ 1 \in 1..Len(jobs) /\ c # Server
        BY <1>2, ConnectionsAssumption DEF StartHandler, TypeInv, LoopType
      <3>2. descriptor[c] # NoFd
        BY <3>1 DEF StepInv, JobsInv
      <3>. QED  BY <3>2 DEF TypeInv, KernelType, Descriptors
    <2>2. PollerType'
      <3>1. {"in"} \in Flags
        BY DEF Flags
      <3>. QED  BY <1>2, <2>1, <3>1, AddFdType DEF StartHandler, TypeInv
    <2>3. LoopType'
      BY <1>2, HeadTailProperties, AppendProperties DEF StartHandler, TypeInv, LoopType
    <2>. QED  BY <1>2, <2>2, <2>3, KernelSame, HandlerSame DEF StartHandler, TypeInv
  <1>. QED  BY <1>1, <1>2

LEMMA ReportedType ==
    ASSUME NEW i \in Nat
    PROVE  \A event \in {"err", "in", "out"} : Reported(i, event) \in Seq(Happening)
  <1>1. SUFFICES ASSUME NEW event \in {"err", "in", "out"} PROVE Reported(i, event) \in Seq(Happening)
    OBVIOUS
  <1>2. [pos |-> i, event |-> event] \in Happening
    BY DEF Happening
  <1>3. <<[pos |-> i, event |-> event]>> \in Seq(Happening) /\ <<>> \in Seq(Happening)
    BY <1>2
  <1>. QED  BY <1>3 DEF Reported

LEMMA PollType == ASSUME TypeInv, Poll PROVE TypeInv'
  <1>1. fds \in Seq(Places) /\ Len(fds) \in Nat /\ DOMAIN fds = 1..Len(fds)
    BY DEF TypeInv, PollerType
  <1>2. \A i \in 1..Len(fds) : Revents(i) \in Seq(Happening)
    <2>1. SUFFICES ASSUME NEW i \in 1..Len(fds) PROVE Revents(i) \in Seq(Happening)
      OBVIOUS
    <2>2. /\ Reported(i, "err") \in Seq(Happening) /\ Reported(i, "in") \in Seq(Happening)
          /\ Reported(i, "out") \in Seq(Happening)
      BY <1>1, ReportedType
    <2>3. Reported(i, "err") \o Reported(i, "in") \in Seq(Happening)
      BY <2>2, ConcatProperties
    <2>. QED  BY <2>2, <2>3, ConcatProperties DEF Revents
  <1>3. [i \in DOMAIN fds |-> Revents(i)] \in Seq(Seq(Happening))
    <2>1. [i \in DOMAIN fds |-> Revents(i)] \in [1..Len(fds) -> Seq(Happening)]
      BY <1>1, <1>2
    <2>. QED  BY <1>1, <2>1, SeqDef
  <1>4. due' \in Seq(Happening)
    BY <1>3, FlattenType DEF Poll
  <1>5. LoopType'
    BY <1>4 DEF TypeInv, LoopType, Poll
  <1>. QED  BY <1>5, KernelSame, PollerSame, HandlerSame DEF TypeInv, Poll

LEMMA ReadType == ASSUME TypeInv, Read PROVE TypeInv'
  <1>. DEFINE c == DueConn
  <1>1. c \in Conn /\ due # <<>>
    BY DEF Read, Dispatches
  <1>. HIDE DEF c
  <1>2. /\ read_buffer' = [read_buffer EXCEPT ![c] = @ \o inbox[c]]
        /\ inbox' = [inbox EXCEPT ![c] = <<>>]
        /\ running' = [conn |-> c, doing |-> "listen"]
        /\ due' = Tail(due)
        /\ UNCHANGED <<peer, sent, wire, got, backlog, descriptor, poller, manager, write_buffer,
                       pending, heirs, history, up, phase, jobs, repeated, turn>>
    BY DEF Read, c
  <1>3. KernelType'
    BY <1>1, <1>2 DEF TypeInv, KernelType
  <1>4. LoopType'
    BY <1>1, <1>2, DueTail DEF TypeInv, LoopType
  <1>5. HandlerType'
    <2>1. read_buffer[c] \o inbox[c] \in Seq(Nat)
      BY <1>1, ConcatProperties DEF TypeInv, KernelType, HandlerType
    <2>. QED  BY <1>1, <1>2, <2>1 DEF TypeInv, HandlerType, history
  <1>6. PollerType'
    BY <1>2, PollerSame DEF TypeInv
  <1>. QED  BY <1>3, <1>4, <1>5, <1>6 DEF TypeInv

(* Closing and writing, from wherever they are called.                     *)
LEMMA EndType ==
    ASSUME TypeInv, StepInv, HandleError \/ ReadEnd
    PROVE  TypeInv'
  <1>1. /\ DueConn \in Conn /\ due # <<>> /\ Close(DueConn)
        /\ UNCHANGED <<jobs, repeated, turn, running, history>>
    BY DEF HandleError, ReadEnd, Dispatches
  <1>2. descriptor[DueConn] \in Fd
    BY <1>1, DueAlive
  <1>3. due' = <<>> \/ due' = Tail(due) \/ due' = due
    BY DEF HandleError, ReadEnd
  <1>4. LoopType'
    <2>1. <<>> \in Seq(Happening) /\ Tail(due) \in Seq(Happening) /\ due \in Seq(Happening)
      BY <1>1, DueTail DEF TypeInv, LoopType
    <2>2. due' \in Seq(Happening)
      BY <1>3, <2>1
    <2>. QED  BY <1>1, <2>2 DEF TypeInv, LoopType
  <1>. QED  BY <1>1, <1>2, <1>4, CloseType DEF TypeInv, history

LEMMA ListenType == ASSUME TypeInv, NEW c \in Conn, Listen(c) PROVE TypeInv'
  <1>. DEFINE n == Head(read_buffer[c])
  <1>1. read_buffer[c] \in Seq(Nat) /\ read_buffer[c] # <<>>
    BY DEF TypeInv, HandlerType, Listen
  <1>2. n \in Nat /\ Tail(read_buffer[c]) \in Seq(Nat)
    BY <1>1, HeadTailProperties
  <1>3. Reply(c, n) \in Replies
    BY <1>2 DEF Reply, Replies
  <1>4. /\ Append(pending[c], Reply(c, n)) \in Seq(Replies)
        /\ Append(said[c], Reply(c, n)) \in Seq(Replies)
    BY <1>3, AppendProperties DEF TypeInv, HandlerType
  <1>5. /\ read_buffer' = [read_buffer EXCEPT ![c] = Tail(@)]
        /\ executed' = [executed EXCEPT ![c] = n]
        /\ \/ Says(c, n) /\ UNCHANGED blocked
           \/ blocked' = [blocked EXCEPT ![c] = @ \cup {n}] /\ UNCHANGED <<said, pending>>
        /\ UNCHANGED <<kernel, poller, manager, write_buffer, heirs, up, phase, jobs, repeated, turn>>
        /\ running' \in {running, Idle} /\ due' \in {due, <<>>}
    BY DEF Listen
  <1>. HIDE DEF n
  <1>6. HandlerType'
    <2>1. read_buffer' \in [Conn -> Seq(Nat)] /\ executed' \in [Conn -> Nat]
      BY <1>2, <1>4, <1>5 DEF TypeInv, HandlerType
    <2>2. pending' \in [Conn -> Seq(Replies)] /\ said' \in [Conn -> Seq(Replies)]
      BY <1>2, <1>4, <1>5 DEF TypeInv, HandlerType, Says
    <2>3. blocked' \in [Conn -> SUBSET Nat]
      <3>1. blocked \in [Conn -> SUBSET Nat]
        BY DEF TypeInv, HandlerType
      <3>2. blocked[c] \cup {n} \in SUBSET Nat
        BY <1>2, <3>1
      <3>3. blocked' = blocked \/ blocked' = [blocked EXCEPT ![c] = blocked[c] \cup {n}]
        BY <1>5
      <3>4. [blocked EXCEPT ![c] = blocked[c] \cup {n}] \in [Conn -> SUBSET Nat]
        BY <3>1, <3>2
      <3>. QED  BY <3>1, <3>3, <3>4
    <2>4. UNCHANGED <<manager, write_buffer, heirs>>
      BY <1>5
    <2>. QED  BY <2>1, <2>2, <2>3, <2>4 DEF TypeInv, HandlerType
  <1>7. LoopType'
    <2>1. due' \in Seq(Happening)
      <3>1. <<>> \in Seq(Happening) /\ due \in Seq(Happening)
        BY DEF TypeInv, LoopType
      <3>. QED  BY <1>5, <3>1
    <2>2. running' \in [conn : Conn \cup {None}, doing : {"nothing", "listen", "say"}]
      BY <1>5 DEF TypeInv, LoopType, Idle
    <2>. QED  BY <1>5, <2>1, <2>2 DEF TypeInv, LoopType
  <1>. QED  BY <1>5, <1>6, <1>7, KernelSame, PollerSame DEF TypeInv

LEMMA SayType == ASSUME TypeInv, StepInv, NEW c \in Conn, Say(c) PROVE TypeInv'
  <1>1. pending[c] # <<>> /\ running.conn = c /\ UNCHANGED <<phase, jobs, repeated, turn, due, history>>
    BY DEF Say, Runs
  <1>2. descriptor[c] \in Fd
    BY <1>1, RunsAlive
  <1>3. LoopType'
    <2>1. running' \in {running, Idle}
      BY DEF Say
    <2>. QED  BY <1>1, <2>1 DEF TypeInv, LoopType, Idle
  <1>4. CASE ~ Reset(c) /\ Write(c, Append(write_buffer[c], Head(pending[c])))
             /\ pending' = [pending EXCEPT ![c] = Tail(@)]
             /\ UNCHANGED <<up, running, peer, sent, inbox, got, backlog, descriptor, manager,
                            read_buffer, heirs>>
    <2>1. Head(pending[c]) \in Replies /\ Tail(pending[c]) \in Seq(Replies)
      BY <1>1, HeadTailProperties DEF TypeInv, HandlerType
    <2>2. Append(write_buffer[c], Head(pending[c])) \in Seq(Replies)
      BY <2>1, AppendProperties DEF TypeInv, HandlerType
    <2>3. /\ wire' \in [Conn -> Seq(Replies)] /\ write_buffer' \in [Conn -> Seq(Replies)]
          /\ \A d \in Conn : Len(wire'[d]) <= Capacity
          /\ PollerType'
      BY <1>2, <1>4, <2>2, WriteType
    <2>4. KernelType'
      BY <1>4, <2>3 DEF TypeInv, KernelType
    <2>5. HandlerType'
      BY <1>1, <1>4, <2>1, <2>3 DEF TypeInv, HandlerType, history
    <2>. QED  BY <1>3, <2>3, <2>4, <2>5 DEF TypeInv
  <1>5. CASE Close(c)
    BY <1>1, <1>2, <1>3, <1>5, CloseType DEF TypeInv, history
  <1>6. CASE UNCHANGED <<running, kernel, poller, handlers>>
    BY <1>1, <1>3, <1>6, KernelSame, PollerSame, HandlerSame DEF TypeInv
  <1>. QED  BY <1>4, <1>5, <1>6 DEF Say

LEMMA ReadyType == ASSUME TypeInv, StepInv, ReadyToWrite PROVE TypeInv'
  <1>. DEFINE c == DueConn
  <1>1. /\ c \in Conn /\ due # <<>> /\ due' = Tail(due)
        /\ UNCHANGED <<peer, sent, inbox, got, backlog, descriptor, manager, read_buffer, pending,
                       heirs, history, phase, jobs, repeated, turn, running>>
    BY DEF ReadyToWrite, Dispatches
  <1>2. descriptor[c] \in Fd
    BY <1>1, DueAlive
  <1>3. LoopType'
    BY <1>1, DueTail DEF TypeInv, LoopType
  <1>4. /\ wire' \in [Conn -> Seq(Replies)] /\ write_buffer' \in [Conn -> Seq(Replies)]
        /\ \A d \in Conn : Len(wire'[d]) <= Capacity
        /\ PollerType'
    <2>1. Write(c, write_buffer[c]) \/ UNCHANGED <<wire, write_buffer, poller>>
      BY DEF ReadyToWrite
    <2>2. CASE Write(c, write_buffer[c])
      <3>1. write_buffer[c] \in Seq(Replies)
        BY <1>1 DEF TypeInv, HandlerType
      <3>. QED  BY <1>1, <1>2, <2>2, <3>1, WriteType
    <2>3. CASE UNCHANGED <<wire, write_buffer, poller>>
      BY <2>3, PollerSame DEF TypeInv, KernelType, HandlerType
    <2>. QED  BY <2>1, <2>2, <2>3
  <1>5. KernelType' /\ HandlerType'
    BY <1>1, <1>4 DEF TypeInv, KernelType, HandlerType, history
  <1>. QED  BY <1>3, <1>4, <1>5 DEF TypeInv

LEMMA AnswerType == ASSUME TypeInv, NEW c \in Conn, NEW n \in blocked[c], Answer(c, n) PROVE TypeInv'
  <1>1. Reply(c, n) \in Replies /\ Reached(c, sent[c][n]) \subseteq Conn \cup {None}
    BY DEF TypeInv, HandlerType, Reply, Replies, Reached
  <1>2. \A d \in Conn : /\ Append(pending[d], Reply(c, n)) \in Seq(Replies)
                        /\ Append(said[d], Reply(c, n)) \in Seq(Replies)
    BY <1>1, AppendProperties DEF TypeInv, HandlerType
  <1>3. pending' \in [Conn -> Seq(Replies)] /\ said' \in [Conn -> Seq(Replies)]
    <2>1. CASE UNCHANGED <<pending, said>>
      BY <2>1 DEF TypeInv, HandlerType
    <2>2. ASSUME NEW d \in Reached(c, sent[c][n]),
                 pending' = IF d = None THEN pending ELSE [pending EXCEPT ![d] = Append(@, Reply(c, n))],
                 said' = IF d = None THEN said ELSE [said EXCEPT ![d] = Append(@, Reply(c, n))]
          PROVE  pending' \in [Conn -> Seq(Replies)] /\ said' \in [Conn -> Seq(Replies)]
      <3>1. CASE d = None
        BY <2>2, <3>1 DEF TypeInv, HandlerType
      <3>2. CASE d # None
        BY <1>1, <1>2, <2>2, <3>2 DEF TypeInv, HandlerType
      <3>. QED  BY <3>1, <3>2
    <2>. QED  BY <2>1, <2>2 DEF Answer
  <1>4. HandlerType'
    BY <1>3 DEF TypeInv, HandlerType, Answer
  <1>5. LoopType'
    BY DEF TypeInv, LoopType, Answer
  <1>. QED  BY <1>4, <1>5, KernelSame, PollerSame DEF TypeInv, Answer

(* The steps that only move the loop on.                                   *)
MovesOn ==
    \/ DispatchGone \/ AcceptDone
    \/ \E c \in Conn : ListenDone(c) \/ SayDone(c)
    \/ JobsDone \/ DispatchDone \/ RunRepeated \/ WritesDone \/ TimeoutsDone

LEMMA MovesOnEffect ==
    ASSUME TypeInv, MovesOn
    PROVE  /\ UNCHANGED <<kernel, poller, handlers, history, jobs, repeated>>
           /\ due' = due \/ (due # <<>> /\ due' = Tail(due))
           /\ turn' \in Nat
           /\ \/ running' \in {running, Idle}
              \/ \E c \in Conn : running' = [running EXCEPT !.doing = "say"] /\ running.conn = c
              \/ \E i \in 1..Len(repeated) : /\ Alive(repeated[i])
                                             /\ running' = [conn |-> repeated[i], doing |-> "say"]
  <1>0. turn \in Nat
    BY DEF TypeInv, LoopType
  <1>1. CASE DispatchGone
    BY <1>0, <1>1 DEF DispatchGone, Dispatches
  <1>5. CASE AcceptDone
    BY <1>0, <1>5 DEF AcceptDone, Dispatches
  <1>2. ASSUME NEW c \in Conn, ListenDone(c)
        PROVE  /\ UNCHANGED <<kernel, poller, handlers, history, jobs, repeated, due, turn>>
               /\ running' = [running EXCEPT !.doing = "say"] /\ running.conn = c
    BY <1>2 DEF ListenDone, Runs
  <1>6. ASSUME NEW c \in Conn, SayDone(c)
        PROVE  /\ UNCHANGED <<kernel, poller, handlers, history, jobs, repeated, due, turn>>
               /\ running' = Idle
    BY <1>6 DEF SayDone
  <1>3. CASE JobsDone \/ DispatchDone \/ WritesDone \/ TimeoutsDone
    BY <1>0, <1>3 DEF JobsDone, DispatchDone, WritesDone, TimeoutsDone, Goto
  <1>4. CASE RunRepeated
    <2>1. turn + 1 \in 1..Len(repeated) /\ turn + 1 \in Nat
      BY <1>4 DEF RunRepeated, TypeInv, LoopType
    <2>2. CASE Alive(repeated[turn + 1])
      BY <1>4, <2>1, <2>2 DEF RunRepeated
    <2>3. CASE ~ Alive(repeated[turn + 1])
      BY <1>4, <2>1, <2>3 DEF RunRepeated
    <2>. QED  BY <2>2, <2>3
  <1>. QED  BY <1>0, <1>1, <1>2, <1>3, <1>4, <1>5, <1>6 DEF MovesOn

LEMMA MovesOnType == ASSUME TypeInv, MovesOn PROVE TypeInv'
  <1>1. running' \in [conn : Conn \cup {None}, doing : {"nothing", "listen", "say"}]
    BY MovesOnEffect DEF TypeInv, LoopType, Idle
  <1>2. LoopType'
    BY <1>1, MovesOnEffect, DueTail DEF TypeInv, LoopType
  <1>. QED  BY <1>2, MovesOnEffect, KernelSame, PollerSame, HandlerSame DEF TypeInv

LEMMA StepCases ==
    ASSUME Next
    PROVE  \/ \E c \in Conn : Client(c)
           \/ StartServer \/ \E c \in Conn : StartHandler(c)
           \/ Poll \/ Accept \/ HandleError \/ Read \/ ReadEnd \/ ReadyToWrite
           \/ \E c \in Conn : Listen(c) \/ Say(c)
           \/ \E c \in Conn : \E n \in blocked[c] : Answer(c, n)
           \/ MovesOn
  BY DEF Next, EventLoop, MovesOn

LEMMA TypeStep == ASSUME TypeInv, StepInv, [Next]_vars PROVE TypeInv'
  <1>1. CASE UNCHANGED vars
    BY <1>1, KernelSame, PollerSame, HandlerSame, LoopSame DEF TypeInv, vars
  <1>2. CASE Next
    BY <1>2, StepCases, ClientType, StartType, PollType, AcceptType, EndType, ReadType, ReadyType,
       ListenType, SayType, AnswerType, MovesOnType
  <1>. QED  BY <1>1, <1>2

-----------------------------------------------------------------------------
(* What Poller's two operations do, place by place.                        *)

PlaceOf(f) == IF registered[f] = NoEntry THEN Len(fds) + 1 ELSE registered[f].pos

Placed(f, c, flags) ==
    /\ registered'[f] = [conn |-> c, flags |-> flags, pos |-> PlaceOf(f)]
    /\ \A g \in Descriptors : g # f => registered'[g] = registered[g]
    /\ Len(fds') = IF registered[f] = NoEntry THEN Len(fds) + 1 ELSE Len(fds)
    /\ fds'[PlaceOf(f)] = [fd |-> f, events |-> flags]
    /\ \A i \in 1..Len(fds) : i # PlaceOf(f) => fds'[i] = fds[i]

Removed(f) ==
    /\ registered'[f] = NoEntry
    /\ \A g \in Descriptors : g # f => registered'[g] = registered[g]
    /\ Len(fds') = Len(fds)
    /\ fds'[registered[f].pos].fd = NoFd
    /\ \A i \in 1..Len(fds) : i # registered[f].pos => fds'[i] = fds[i]

LEMMA AddFdEffect ==
    ASSUME PollerType, PollerInv, NEW f \in Descriptors, NEW c \in Conn \cup {Server},
           NEW events \in Flags, AddFd(f, c, events)
    PROVE  \E flags \in Flags : events \subseteq flags /\ Placed(f, c, flags)
  <1>1. PICK flags \in {events \cup g : g \in SUBSET Garbage} :
            IF registered[f] = NoEntry
            THEN /\ fds' = Append(fds, [fd |-> f, events |-> flags])
                 /\ registered' = [registered EXCEPT ![f] =
                       [conn |-> c, flags |-> flags, pos |-> Len(fds) + 1]]
            ELSE /\ fds' = [fds EXCEPT ![registered[f].pos].events = flags]
                 /\ registered' = [registered EXCEPT ![f].conn = c, ![f].flags = flags]
    BY DEF AddFd
  <1>2. flags \in Flags /\ events \subseteq flags
    BY ConnectionsAssumption DEF Flags
  <1>3. fds \in Seq(Places) /\ Len(fds) \in Nat /\ registered \in [Descriptors -> Entries]
    BY DEF PollerType
  <1>4. CASE registered[f] = NoEntry
    <2>1. [fd |-> f, events |-> flags] \in Places
      BY <1>2 DEF Places
    <2>2. fds' = Append(fds, [fd |-> f, events |-> flags])
      BY <1>1, <1>4
    <2>3. /\ Len(fds') = Len(fds) + 1 /\ fds'[Len(fds) + 1] = [fd |-> f, events |-> flags]
          /\ \A i \in 1..Len(fds) : fds'[i] = fds[i]
      BY <1>3, <2>1, <2>2, AppendProperties
    <2>4. PlaceOf(f) = Len(fds) + 1
      BY <1>4 DEF PlaceOf
    <2>5. /\ registered'[f] = [conn |-> c, flags |-> flags, pos |-> Len(fds) + 1]
          /\ \A g \in Descriptors : g # f => registered'[g] = registered[g]
      BY <1>1, <1>3, <1>4
    <2>. QED  BY <1>2, <1>4, <2>3, <2>4, <2>5 DEF Placed
  <1>5. CASE registered[f] # NoEntry
    <2>. DEFINE p == registered[f].pos
    <2>1. p \in 1..Len(fds) /\ fds[p] = [fd |-> f, events |-> registered[f].flags]
      BY <1>5 DEF PollerInv
    <2>2. PlaceOf(f) = p
      BY <1>5 DEF PlaceOf
    <2>3. Len(fds') = Len(fds)
      <3>1. DOMAIN fds' = DOMAIN fds /\ fds' = [i \in DOMAIN fds' |-> fds'[i]]
        BY <1>1, <1>5
      <3>2. \A i \in DOMAIN fds : fds'[i] = fds[i] \/ fds'[i] \in Places
        <4>1. \A i \in DOMAIN fds : fds'[i] = fds[i] \/ fds'[i] = [fds[i] EXCEPT !.events = flags]
          BY <1>1, <1>5
        <4>2. \A i \in DOMAIN fds : fds[i] \in Places
          BY <1>3
        <4>. QED  BY <1>2, <4>1, <4>2 DEF Places
      <3>. QED  BY <1>3, <3>1, <3>2, PlaceType
    <2>4. fds'[p] = [fd |-> f, events |-> flags] /\ \A i \in 1..Len(fds) : i # p => fds'[i] = fds[i]
      BY <1>1, <1>3, <1>5, <2>1
    <2>5. registered[f] \in Entries
      BY <1>3
    <2>6. /\ registered'[f] = [conn |-> c, flags |-> flags, pos |-> p]
          /\ \A g \in Descriptors : g # f => registered'[g] = registered[g]
      BY <1>1, <1>3, <1>5, <2>5 DEF Entries
    <2>. QED  BY <1>2, <1>5, <2>2, <2>3, <2>4, <2>6 DEF Placed
  <1>. QED  BY <1>4, <1>5

LEMMA RemoveFdEffect ==
    ASSUME PollerType, PollerInv, NEW f \in Descriptors, registered[f] # NoEntry, RemoveFd(f)
    PROVE  Removed(f)
  <1>. DEFINE p == registered[f].pos
  <1>1. fds \in Seq(Places) /\ registered \in [Descriptors -> Entries]
    BY DEF PollerType
  <1>2. p \in 1..Len(fds) /\ fds[p] = [fd |-> f, events |-> registered[f].flags]
    BY DEF PollerInv
  <1>3. /\ fds' = [fds EXCEPT ![p].fd = NoFd]
        /\ registered' = [registered EXCEPT ![f] = NoEntry]
    BY DEF RemoveFd
  <1>4. /\ registered'[f] = NoEntry
        /\ \A g \in Descriptors : g # f => registered'[g] = registered[g]
    BY <1>1, <1>3
  <1>5. Len(fds') = Len(fds)
    <2>1. DOMAIN fds' = DOMAIN fds /\ fds' = [i \in DOMAIN fds' |-> fds'[i]]
      BY <1>3
    <2>2. \A i \in DOMAIN fds : fds'[i] = fds[i] \/ fds'[i] \in Places
      <3>1. \A i \in DOMAIN fds : fds'[i] = fds[i] \/ fds'[i] = [fds[i] EXCEPT !.fd = NoFd]
        BY <1>3
      <3>2. \A i \in DOMAIN fds : fds[i] \in Places
        BY <1>1
      <3>. QED  BY <3>1, <3>2 DEF Places
    <2>. QED  BY <1>1, <2>1, <2>2, PlaceType
  <1>6. fds'[p].fd = NoFd /\ \A i \in 1..Len(fds) : i # p => fds'[i] = fds[i]
    BY <1>1, <1>2, <1>3
  <1>. QED  BY <1>4, <1>5, <1>6 DEF Removed

LEMMA PlacedKeeps ==
    ASSUME PollerType, PollerInv, UNCHANGED manager, NEW f \in Descriptors, NEW c, NEW flags,
           c = (IF f = ServerFd THEN Server ELSE manager[f]), c # None, Placed(f, c, flags)
    PROVE  PollerInv'
  <1>1. Len(fds) \in Nat /\ \A i \in 1..Len(fds) : fds[i].fd \in Descriptors \cup {NoFd}
    <2>1. Len(fds) \in Nat /\ \A i \in 1..Len(fds) : fds[i] \in Places
      BY DEF PollerType
    <2>. QED  BY <2>1 DEF Places
  <1>2. PlaceOf(f) \in 1..Len(fds') /\ 1..Len(fds') = 1..Len(fds) \cup {PlaceOf(f)}
    <2>1. CASE registered[f] = NoEntry
      BY <1>1, <2>1 DEF Placed, PlaceOf
    <2>2. CASE registered[f] # NoEntry
      <3>1. PlaceOf(f) \in 1..Len(fds) /\ Len(fds') = Len(fds)
        BY <2>2 DEF PollerInv, Placed, PlaceOf
      <3>. QED  BY <3>1
    <2>. QED  BY <2>1, <2>2
  <1>3. ASSUME NEW g \in Descriptors, registered'[g] # NoEntry
        PROVE  /\ registered'[g].pos \in 1..Len(fds')
               /\ fds'[registered'[g].pos] = [fd |-> g, events |-> registered'[g].flags]
               /\ registered'[g].conn = IF g = ServerFd THEN Server ELSE manager'[g]
               /\ registered'[g].conn # None
    <2>1. CASE g = f
      BY <1>2, <2>1 DEF Placed
    <2>2. CASE g # f
      <3>1. registered'[g] = registered[g]
        BY <2>2 DEF Placed
      <3>2. /\ registered[g].pos \in 1..Len(fds)
            /\ fds[registered[g].pos] = [fd |-> g, events |-> registered[g].flags]
            /\ registered[g].conn = IF g = ServerFd THEN Server ELSE manager[g]
            /\ registered[g].conn # None
        BY <1>3, <3>1 DEF PollerInv
      <3>3. registered[g].pos # PlaceOf(f)
        <4>1. CASE registered[f] = NoEntry
          BY <1>1, <3>2, <4>1 DEF PlaceOf
        <4>2. CASE registered[f] # NoEntry
          <5>1. fds[registered[f].pos].fd = f
            <6>1. fds[registered[f].pos] = [fd |-> f, events |-> registered[f].flags]
              BY <4>2 DEF PollerInv
            <6>. QED  BY <6>1
          <5>. QED  BY <2>2, <3>2, <4>2, <5>1 DEF PlaceOf
        <4>. QED  BY <4>1, <4>2
      <3>. QED  BY <1>2, <3>1, <3>2, <3>3 DEF Placed
    <2>. QED  BY <2>1, <2>2
  <1>4. ASSUME NEW i \in 1..Len(fds'), fds'[i].fd # NoFd
        PROVE  registered'[fds'[i].fd].pos = i
    <2>1. CASE i = PlaceOf(f)
      BY <2>1 DEF Placed
    <2>2. CASE i # PlaceOf(f)
      <3>1. i \in 1..Len(fds) /\ fds'[i] = fds[i]
        BY <1>2, <2>2 DEF Placed
      <3>2. fds[i].fd \in Descriptors /\ registered[fds[i].fd].pos = i
        BY <1>1, <1>4, <3>1 DEF PollerInv
      <3>3. fds[i].fd # f
        BY <1>1, <2>2, <3>1, <3>2 DEF PlaceOf, NoEntry
      <3>. QED  BY <3>1, <3>2, <3>3 DEF Placed
    <2>. QED  BY <2>1, <2>2
  <1>. QED  BY <1>3, <1>4 DEF PollerInv

LEMMA RemovedKeeps ==
    ASSUME PollerType, PollerInv, HandlerType, NEW f \in Fd, registered[f] # NoEntry,
           manager' = [manager EXCEPT ![f] = None], Removed(f)
    PROVE  PollerInv'
  <1>1. Len(fds) \in Nat /\ \A i \in 1..Len(fds) : fds[i].fd \in Descriptors \cup {NoFd}
    <2>1. Len(fds) \in Nat /\ \A i \in 1..Len(fds) : fds[i] \in Places
      BY DEF PollerType
    <2>. QED  BY <2>1 DEF Places
  <1>2. /\ registered[f].pos \in 1..Len(fds) /\ f \in Descriptors
        /\ fds[registered[f].pos] = [fd |-> f, events |-> registered[f].flags]
    BY DEF PollerInv, Descriptors
  <1>3. ASSUME NEW g \in Descriptors, registered'[g] # NoEntry
        PROVE  /\ registered'[g].pos \in 1..Len(fds')
               /\ fds'[registered'[g].pos] = [fd |-> g, events |-> registered'[g].flags]
               /\ registered'[g].conn = IF g = ServerFd THEN Server ELSE manager'[g]
               /\ registered'[g].conn # None
    <2>1. g # f /\ registered'[g] = registered[g]
      BY <1>3 DEF Removed
    <2>2. /\ registered[g].pos \in 1..Len(fds)
          /\ fds[registered[g].pos] = [fd |-> g, events |-> registered[g].flags]
          /\ registered[g].conn = IF g = ServerFd THEN Server ELSE manager[g]
          /\ registered[g].conn # None
      BY <1>3, <2>1 DEF PollerInv
    <2>3. registered[g].pos # registered[f].pos
      BY <1>2, <2>1, <2>2
    <2>4. g # ServerFd => manager'[g] = manager[g]
      BY <2>1 DEF HandlerType, Descriptors
    <2>. QED  BY <2>1, <2>2, <2>3, <2>4 DEF Removed
  <1>4. ASSUME NEW i \in 1..Len(fds'), fds'[i].fd # NoFd
        PROVE  registered'[fds'[i].fd].pos = i
    <2>1. i # registered[f].pos /\ i \in 1..Len(fds) /\ fds'[i] = fds[i]
      BY <1>4 DEF Removed
    <2>2. fds[i].fd \in Descriptors /\ registered[fds[i].fd].pos = i
      BY <1>1, <1>4, <2>1 DEF PollerInv
    <2>3. fds[i].fd # f
      BY <2>1, <2>2
    <2>. QED  BY <2>1, <2>2, <2>3 DEF Removed
  <1>. QED  BY <1>3, <1>4 DEF PollerInv

-----------------------------------------------------------------------------
(* Each kind of step keeps what is kept by descriptor in step.             *)

LEMMA InitStep == Init => StepInv
  <1>. SUFFICES ASSUME Init PROVE StepInv
    OBVIOUS
  <1>1. ManagerInv /\ PollerInv
    BY DEF Init, ManagerInv, PollerInv, Descriptors
  <1>2. BacklogInv
    BY DEF Init, BacklogInv, Fresh
  <1>3. JobsInv /\ RunInv /\ DueInv /\ PolledInv
    BY DEF Init, JobsInv, RunInv, DueInv, PolledInv, Idle
  <1>. QED  BY <1>1, <1>2, <1>3 DEF StepInv

(* Events are dispatched, and no others are added.                         *)
Dispatched == \A i \in 1..Len(due') : \E j \in 1..Len(due) : due'[i] = due[j]

(* Clients come no newer, and those that are gone stay so.                 *)
PeersGoOn ==
    \A c \in Conn : /\ peer'[c] = "none" => peer[c] = "none"
                    /\ peer[c] \in {"aborted", "broken"} => peer'[c] \in {"aborted", "broken"}

Quiet ==
    /\ UNCHANGED <<descriptor, manager, fds, registered, jobs, repeated, backlog, write_buffer>>
    /\ PeersGoOn
    /\ \A c \in Conn : descriptor[c] = NoFd => said'[c] = said[c]
    /\ running'.conn = None \/ Registered(running'.conn)
    /\ Dispatched

LEMMA RegisteredConn ==
    ASSUME PollerType, NEW f \in Descriptors, registered[f].conn # Server,
           registered[f].conn # None
    PROVE  registered[f].conn \in Conn
  <1>1. registered[f] \in Entries
    BY DEF PollerType
  <1>. QED  BY <1>1 DEF Entries

(* The places of what is to be dispatched.                                 *)
LEMMA DuePlaces ==
    ASSUME TypeInv, StepInv, NEW i \in 1..Len(due)
    PROVE  /\ due[i].pos \in 1..Len(fds)
           /\ fds[due[i].pos].fd \in Descriptors \cup {NoFd}
           /\ fds[due[i].pos].fd # NoFd =>
                 LET f == fds[due[i].pos].fd
                 IN  /\ registered[f].pos = due[i].pos /\ registered[f] # NoEntry
                     /\ registered[f].conn = IF f = ServerFd THEN Server ELSE manager[f]
                     /\ registered[f].conn # None
  <1>1. due[i].pos \in 1..Len(fds)
    BY DEF StepInv, DueInv
  <1>2. fds[due[i].pos] \in Places
    BY <1>1 DEF TypeInv, PollerType
  <1>3. fds[due[i].pos].fd \in Descriptors \cup {NoFd}
    BY <1>2 DEF Places
  <1>4. ASSUME NEW f \in Descriptors, f = fds[due[i].pos].fd, f # NoFd
        PROVE  registered[f].pos = due[i].pos /\ registered[f] # NoEntry
    <2>1. registered[f].pos = due[i].pos
      BY <1>1, <1>4 DEF StepInv, PollerInv
    <2>2. Len(fds) \in Nat
      BY DEF TypeInv, PollerType
    <2>. QED  BY <1>1, <2>1, <2>2 DEF NoEntry
  <1>. QED  BY <1>1, <1>3, <1>4 DEF StepInv, PollerInv

(* DueInv, place by place.                                                 *)
LEMMA DueNext ==
    ASSUME \A i \in 1..Len(due') :
             /\ due'[i].pos \in 1..Len(fds')
             /\ due'[i].event = "err" /\ fds'[due'[i].pos].fd # NoFd =>
                   /\ registered'[fds'[due'[i].pos].fd].conn # Server
                   /\ peer'[registered'[fds'[due'[i].pos].fd].conn] \in {"aborted", "broken"}
    PROVE  DueInv'
  BY DEF DueInv, Reset

LEMMA DueNow ==
    ASSUME TypeInv, StepInv, NEW i \in 1..Len(due), due[i].event = "err",
           fds[due[i].pos].fd # NoFd
    PROVE  /\ registered[fds[due[i].pos].fd].conn \in Conn
           /\ peer[registered[fds[due[i].pos].fd].conn] \in {"aborted", "broken"}
  <1>1. /\ registered[fds[due[i].pos].fd].conn # Server
        /\ peer[registered[fds[due[i].pos].fd].conn] \in {"aborted", "broken"}
    BY DEF StepInv, DueInv, Reset
  <1>. QED  BY <1>1, DuePlaces, RegisteredConn DEF TypeInv

LEMMA QuietKeeps == ASSUME TypeInv, StepInv, Quiet PROVE StepInv'
  <1>1. DueInv'
    <2>1. SUFFICES ASSUME NEW i \in 1..Len(due')
                   PROVE  /\ due'[i].pos \in 1..Len(fds')
                          /\ due'[i].event = "err" /\ fds'[due'[i].pos].fd # NoFd =>
                                /\ registered'[fds'[due'[i].pos].fd].conn # Server
                                /\ peer'[registered'[fds'[due'[i].pos].fd].conn] \in {"aborted", "broken"}
      BY DueNext
    <2>2. PICK j \in 1..Len(due) : due'[i] = due[j]
      BY DEF Quiet, Dispatched
    <2>3. due[j].pos \in 1..Len(fds)
      BY DuePlaces
    <2>4. ASSUME due[j].event = "err", fds[due[j].pos].fd # NoFd
          PROVE  /\ registered[fds[due[j].pos].fd].conn # Server
                 /\ peer'[registered[fds[due[j].pos].fd].conn] \in {"aborted", "broken"}
      <3>. DEFINE c == registered[fds[due[j].pos].fd].conn
      <3>1. c \in Conn /\ peer[c] \in {"aborted", "broken"}
        BY <2>4, DueNow
      <3>. HIDE DEF c
      <3>2. c # Server /\ peer'[c] \in {"aborted", "broken"}
        BY <3>1, ConnectionsAssumption DEF Quiet, PeersGoOn
      <3>. QED  BY <3>2 DEF c
    <2>. QED  BY <2>2, <2>3, <2>4 DEF Quiet
  <1>2. ManagerInv' /\ PollerInv' /\ JobsInv' /\ PolledInv'
    BY DEF StepInv, Quiet, ManagerInv, PollerInv, JobsInv, PolledInv
  <1>3. RunInv'
    BY DEF StepInv, Quiet, RunInv, Registered
  <1>4. BacklogInv'
    <2>1. \A c \in Conn : Fresh(c) => Fresh(c)'
      BY DEF Quiet, Fresh
    <2>2. \A i \in 1..Len(backlog) : backlog[i] \in Conn
      BY DEF TypeInv, KernelType
    <2>3. ASSUME NEW c \in Conn, peer'[c] = "none"
          PROVE  Fresh(c)' /\ \A i \in 1..Len(backlog) : backlog[i] # c
      <3>1. peer[c] = "none"
        BY <2>3 DEF Quiet, PeersGoOn
      <3>2. Fresh(c) /\ \A i \in 1..Len(backlog) : backlog[i] # c
        BY <3>1 DEF StepInv, BacklogInv
      <3>. QED  BY <2>1, <3>2
    <2>4. \A i \in 1..Len(backlog) :
            /\ descriptor'[backlog[i]] = NoFd /\ said'[backlog[i]] = <<>>
            /\ \A j \in 1..Len(repeated') : repeated'[j] # backlog[i]
            /\ \A j \in 1..Len(backlog) : backlog[j] = backlog[i] => j = i
      BY <2>2 DEF StepInv, BacklogInv, Quiet, Fresh
    <2>. QED  BY <2>3, <2>4 DEF Quiet, BacklogInv, Fresh
  <1>. QED  BY <1>1, <1>2, <1>3, <1>4 DEF StepInv

(* A handler is closed that was registered.                                *)
CloseEffect(c) ==
    /\ descriptor[c] \in Fd /\ Registered(c) /\ Close(c)
    /\ UNCHANGED <<jobs, repeated, said>> /\ running' = Idle /\ Dispatched

LEMMA OthersApart ==
    ASSUME TypeInv, StepInv, NEW c \in Conn, NEW d \in Conn, c # d,
           descriptor[c] # NoFd, descriptor[d] # NoFd
    PROVE  descriptor[d] # descriptor[c]
  BY DEF StepInv, ManagerInv

LEMMA CloseKeeps ==
    ASSUME TypeInv, StepInv, NEW c \in Conn, CloseEffect(c)
    PROVE  StepInv'
  <1>. DEFINE f == descriptor[c]
  <1>1. f \in Fd /\ f \in Descriptors /\ f # NoFd /\ registered[f] # NoEntry
    BY ConnectionsAssumption DEF CloseEffect, Registered, Descriptors, Fd, NoFd
  <1>2. /\ RemoveFd(f) /\ manager' = [manager EXCEPT ![f] = None]
        /\ descriptor' = [descriptor EXCEPT ![c] = NoFd]
        /\ write_buffer' = [write_buffer EXCEPT ![c] = <<>>]
        /\ UNCHANGED <<peer, backlog, jobs, repeated, said>> /\ running' = Idle
    BY DEF CloseEffect, Close
  <1>3. Removed(f)
    BY <1>1, <1>2, RemoveFdEffect DEF TypeInv, StepInv
  <1>4. manager[f] = c
    BY <1>1 DEF StepInv, ManagerInv
  <1>5. \A d \in Conn : d # c => descriptor'[d] = descriptor[d] /\ (descriptor[d] # NoFd => descriptor[d] # f)
    BY <1>1, <1>2, OthersApart DEF TypeInv, KernelType
  <1>6. descriptor'[c] = NoFd
    BY <1>2 DEF TypeInv, KernelType
  <1>7. \A d \in Conn : descriptor[d] # NoFd => descriptor[d] \in Descriptors
    BY DEF TypeInv, KernelType, Descriptors
  <1>. HIDE DEF f
  <1>8. ManagerInv'
    <2>1. ASSUME NEW d \in Conn, descriptor'[d] # NoFd PROVE manager'[descriptor'[d]] = d
      <3>1. d # c /\ descriptor'[d] = descriptor[d] /\ descriptor[d] # f
        BY <1>5, <1>6, <2>1
      <3>2. manager[descriptor[d]] = d /\ descriptor[d] \in Fd
        BY <2>1, <3>1 DEF StepInv, ManagerInv, TypeInv, KernelType
      <3>. QED  BY <1>2, <3>1, <3>2 DEF TypeInv, HandlerType
    <2>2. ASSUME NEW g \in Fd, manager'[g] # None PROVE descriptor'[manager'[g]] = g
      <3>1. g # f /\ manager'[g] = manager[g]
        BY <1>1, <1>2, <2>2 DEF TypeInv, HandlerType
      <3>2. manager[g] \in Conn /\ descriptor[manager[g]] = g
        BY <2>2, <3>1 DEF TypeInv, HandlerType, StepInv, ManagerInv
      <3>3. manager[g] # c
        BY <3>1, <3>2 DEF f
      <3>. QED  BY <1>5, <3>1, <3>2, <3>3
    <2>. QED  BY <2>1, <2>2 DEF ManagerInv
  <1>9. PollerInv'
    BY <1>1, <1>2, <1>3, RemovedKeeps DEF TypeInv, StepInv
  <1>10. BacklogInv'
    <2>1. \A d \in Conn : Fresh(d) =>
            /\ descriptor'[d] = NoFd /\ said'[d] = <<>>
            /\ \A i \in 1..Len(repeated') : repeated'[i] # d
      BY <1>2, <1>5, <1>6 DEF Fresh
    <2>2. \A i \in 1..Len(backlog) : backlog[i] \in Conn
      BY DEF TypeInv, KernelType
    <2>. QED  BY <1>2, <2>1, <2>2 DEF StepInv, BacklogInv, Fresh
  <1>11. JobsInv'
    <2>1. SUFFICES ASSUME NEW i \in 1..Len(jobs), jobs[i] # Server
                   PROVE  /\ descriptor'[jobs[i]] # NoFd /\ registered'[descriptor'[jobs[i]]] = NoEntry
                          /\ \A j \in 1..Len(jobs) : jobs[j] = jobs[i] => j = i
      BY <1>2 DEF JobsInv
    <2>2. /\ jobs[i] \in Conn /\ descriptor[jobs[i]] # NoFd
          /\ registered[descriptor[jobs[i]]] = NoEntry
          /\ \A j \in 1..Len(jobs) : jobs[j] = jobs[i] => j = i
      BY <2>1 DEF TypeInv, LoopType, StepInv, JobsInv
    <2>3. jobs[i] # c
      BY <1>1, <2>2 DEF f
    <2>4. registered'[descriptor[jobs[i]]] = NoEntry
      BY <1>3, <1>5, <1>7, <2>2, <2>3 DEF Removed
    <2>. QED  BY <1>5, <2>2, <2>3, <2>4
  <1>12. RunInv'
    <2>1. ASSUME NEW i \in 1..Len(repeated), descriptor'[repeated[i]] # NoFd
          PROVE  registered'[descriptor'[repeated[i]]] # NoEntry
      <3>1. repeated[i] \in Conn
        BY DEF TypeInv, LoopType
      <3>2. repeated[i] # c
        BY <1>6, <2>1
      <3>3. descriptor[repeated[i]] # NoFd /\ registered[descriptor[repeated[i]]] # NoEntry
        BY <1>5, <2>1, <3>1, <3>2 DEF StepInv, RunInv, Registered
      <3>. QED  BY <1>3, <1>5, <1>7, <3>1, <3>2, <3>3 DEF Removed
    <2>. QED  BY <1>2, <2>1 DEF RunInv, Registered, Idle
  <1>13. DueInv'
    <2>1. SUFFICES ASSUME NEW i \in 1..Len(due')
                   PROVE  /\ due'[i].pos \in 1..Len(fds')
                          /\ due'[i].event = "err" /\ fds'[due'[i].pos].fd # NoFd =>
                                /\ registered'[fds'[due'[i].pos].fd].conn # Server
                                /\ peer'[registered'[fds'[due'[i].pos].fd].conn] \in {"aborted", "broken"}
      BY DueNext
    <2>2. PICK j \in 1..Len(due) : due'[i] = due[j]
      BY DEF CloseEffect, Dispatched
    <2>3. due[j].pos \in 1..Len(fds')
      BY <1>3, DuePlaces DEF Removed
    <2>4. ASSUME due[j].event = "err", fds'[due[j].pos].fd # NoFd
          PROVE  /\ registered'[fds'[due[j].pos].fd].conn # Server
                 /\ peer'[registered'[fds'[due[j].pos].fd].conn] \in {"aborted", "broken"}
      <3>. DEFINE p == due[j].pos
                  g == fds[p].fd
      <3>1. p \in 1..Len(fds) /\ p # registered[f].pos /\ fds'[p] = fds[p]
        BY <1>3, <2>4, DuePlaces DEF Removed
      <3>2. g \in Descriptors /\ registered[g].pos = p
        BY <2>4, <3>1, DuePlaces
      <3>3. registered[g].conn \in Conn /\ peer[registered[g].conn] \in {"aborted", "broken"}
        BY <2>4, <3>1, DueNow
      <3>. HIDE DEF p, g
      <3>4. registered'[g] = registered[g]
        BY <1>3, <3>1, <3>2 DEF Removed
      <3>5. registered'[g].conn # Server /\ peer'[registered'[g].conn] \in {"aborted", "broken"}
        BY <1>2, <3>3, <3>4, ConnectionsAssumption
      <3>6. fds'[p].fd = g
        BY <3>1 DEF g
      <3>. QED  BY <3>5, <3>6 DEF p
    <2>. QED  BY <2>2, <2>3, <2>4
  <1>14. PolledInv'
    <2>1. ASSUME NEW d \in Conn, write_buffer'[d] # <<>>
          PROVE  descriptor'[d] # NoFd /\ "out" \in registered'[descriptor'[d]].flags
      <3>1. d # c /\ write_buffer'[d] = write_buffer[d]
        BY <1>2, <2>1 DEF TypeInv, HandlerType
      <3>2. descriptor[d] # NoFd /\ "out" \in registered[descriptor[d]].flags
        BY <2>1, <3>1 DEF StepInv, PolledInv
      <3>. QED  BY <1>3, <1>5, <1>7, <3>1, <3>2 DEF Removed
    <2>. QED  BY <2>1 DEF PolledInv
  <1>. QED  BY <1>8, <1>9, <1>10, <1>11, <1>12, <1>13, <1>14 DEF StepInv

(* What is to be dispatched stays where a descriptor is placed.            *)
LEMMA PlacedDue ==
    ASSUME TypeInv, StepInv, NEW f \in Descriptors, NEW c, NEW flags,
           c = (IF f = ServerFd THEN Server ELSE manager[f]), Placed(f, c, flags),
           PeersGoOn, Dispatched
    PROVE  DueInv'
  <1>1. SUFFICES ASSUME NEW i \in 1..Len(due')
                 PROVE  /\ due'[i].pos \in 1..Len(fds')
                        /\ due'[i].event = "err" /\ fds'[due'[i].pos].fd # NoFd =>
                              /\ registered'[fds'[due'[i].pos].fd].conn # Server
                              /\ peer'[registered'[fds'[due'[i].pos].fd].conn] \in {"aborted", "broken"}
    BY DueNext
  <1>2. PICK j \in 1..Len(due) : due'[i] = due[j]
    BY DEF Dispatched
  <1>. DEFINE p == due[j].pos
              g == fds[p].fd
  <1>3. Len(fds) \in Nat /\ p \in 1..Len(fds) /\ p \in 1..Len(fds')
    BY DuePlaces DEF Placed, TypeInv, PollerType
  <1>4. fds'[p].fd = g
    <2>1. CASE p # PlaceOf(f)
      BY <1>3, <2>1 DEF Placed
    <2>2. CASE p = PlaceOf(f)
      <3>1. registered[f] # NoEntry /\ p = registered[f].pos
        BY <1>3, <2>2 DEF PlaceOf
      <3>2. fds[p] = [fd |-> f, events |-> registered[f].flags]
        BY <3>1 DEF StepInv, PollerInv
      <3>3. fds'[p] = [fd |-> f, events |-> flags]
        BY <2>2 DEF Placed
      <3>. QED  BY <3>2, <3>3
    <2>. QED  BY <2>1, <2>2
  <1>5. ASSUME due[j].event = "err", g # NoFd
        PROVE  /\ registered'[g].conn # Server
               /\ peer'[registered'[g].conn] \in {"aborted", "broken"}
    <2>1. registered[g].conn \in Conn /\ peer[registered[g].conn] \in {"aborted", "broken"}
      BY <1>5, DueNow
    <2>2. g \in Descriptors /\ registered[g].conn = IF g = ServerFd THEN Server ELSE manager[g]
      BY <1>5, DuePlaces
    <2>3. registered'[g].conn = registered[g].conn
      BY <2>2 DEF Placed
    <2>. HIDE DEF g
    <2>. QED  BY <2>1, <2>3, ConnectionsAssumption DEF PeersGoOn
  <1>. QED  BY <1>2, <1>3, <1>4, <1>5

(* A reply is written by a handler that is registered.                     *)
WriteEffect(c, buffer) ==
    /\ Registered(c) /\ Write(c, buffer)
    /\ UNCHANGED <<peer, backlog, descriptor, manager, jobs, repeated, said, running>>
    /\ Dispatched

LEMMA WriteKeeps ==
    ASSUME TypeInv, StepInv, NEW c \in Conn, NEW buffer \in Seq(Replies), WriteEffect(c, buffer)
    PROVE  StepInv'
  <1>. DEFINE f == descriptor[c]
              rest == SubSeq(buffer, Min({Capacity - Len(wire[c]), Len(buffer)}) + 1, Len(buffer))
  <1>1. f \in Fd /\ f \in Descriptors /\ f # NoFd /\ registered[f] # NoEntry /\ manager[f] = c
    BY ConnectionsAssumption
    DEF WriteEffect, Registered, Descriptors, Fd, NoFd, TypeInv, KernelType, StepInv, ManagerInv
  <1>2. /\ AddFd(f, c, Interest(rest)) /\ write_buffer' = [write_buffer EXCEPT ![c] = rest]
        /\ UNCHANGED <<peer, backlog, descriptor, manager, jobs, repeated, said, running>>
    BY DEF WriteEffect, Write
  <1>. HIDE DEF rest
  <1>3. PICK flags \in Flags : Interest(rest) \subseteq flags /\ Placed(f, c, flags)
    <2>1. Interest(rest) \in Flags
      BY DEF Interest, Flags
    <2>. QED  BY <1>1, <1>2, <2>1, AddFdEffect DEF TypeInv, StepInv
  <1>4. c = (IF f = ServerFd THEN Server ELSE manager[f]) /\ c # None
    BY <1>1, ConnectionsAssumption DEF Fd, ServerFd
  <1>5. PollerInv'
    BY <1>1, <1>2, <1>3, <1>4, PlacedKeeps DEF TypeInv, StepInv
  <1>6. DueInv'
    BY <1>1, <1>2, <1>3, <1>4, PlacedDue DEF PeersGoOn, WriteEffect
  <1>7. \A d \in Conn : descriptor[d] # NoFd => descriptor[d] \in Descriptors
    BY DEF TypeInv, KernelType, Descriptors
  <1>8. registered'[f] = [conn |-> c, flags |-> flags, pos |-> PlaceOf(f)]
        /\ \A g \in Descriptors : g # f => registered'[g] = registered[g]
    BY <1>3 DEF Placed
  <1>9. registered'[f] # NoEntry
    <2>1. registered'[f].conn = c /\ NoEntry.conn = None
      BY <1>8 DEF NoEntry
    <2>. QED  BY <1>4, <2>1
  <1>10. \A g \in Descriptors : (registered'[g] = NoEntry) <=> (registered[g] = NoEntry)
    BY <1>1, <1>8, <1>9
  <1>11. ManagerInv' /\ BacklogInv'
    BY <1>2 DEF StepInv, ManagerInv, BacklogInv, Fresh
  <1>12. JobsInv'
    BY <1>2, <1>7, <1>10 DEF StepInv, JobsInv, TypeInv, LoopType
  <1>13. RunInv'
    <2>1. running.conn \in Conn \cup {None} /\ \A i \in 1..Len(repeated) : repeated[i] \in Conn
      BY DEF TypeInv, LoopType
    <2>. QED  BY <1>2, <1>7, <1>10, <2>1 DEF StepInv, RunInv, Registered
  <1>14. PolledInv'
    <2>1. ASSUME NEW d \in Conn, write_buffer'[d] # <<>>
          PROVE  descriptor[d] # NoFd /\ "out" \in registered'[descriptor[d]].flags
      <3>1. CASE d = c
        <4>1. rest # <<>>
          BY <1>2, <2>1, <3>1 DEF TypeInv, HandlerType
        <4>2. "out" \in flags
          BY <1>3, <4>1 DEF Interest
        <4>. QED  BY <1>1, <1>8, <3>1, <4>2
      <3>2. CASE d # c
        <4>1. write_buffer'[d] = write_buffer[d]
          BY <1>2, <3>2 DEF TypeInv, HandlerType
        <4>2. descriptor[d] # NoFd /\ "out" \in registered[descriptor[d]].flags
          BY <2>1, <4>1 DEF StepInv, PolledInv
        <4>3. descriptor[d] # f
          BY <1>1, <3>2, <4>2, OthersApart
        <4>. QED  BY <1>7, <1>8, <4>2, <4>3
      <3>. QED  BY <3>1, <3>2
    <2>. QED  BY <1>2, <2>1 DEF PolledInv
  <1>. QED  BY <1>5, <1>6, <1>11, <1>12, <1>13, <1>14 DEF StepInv

(* The job of the one that is started is taken; the others stay.           *)
LEMMA JobsTail ==
    ASSUME TypeInv, StepInv, jobs # <<>>
    PROVE  \A i \in 1..Len(Tail(jobs)) :
             /\ Tail(jobs)[i] \in Conn \cup {Server}
             /\ Tail(jobs)[i] # Server =>
                   /\ Tail(jobs)[i] \in Conn /\ Tail(jobs)[i] # Head(jobs)
                   /\ descriptor[Tail(jobs)[i]] # NoFd
                   /\ registered[descriptor[Tail(jobs)[i]]] = NoEntry
                   /\ \A j \in 1..Len(Tail(jobs)) : Tail(jobs)[j] = Tail(jobs)[i] => j = i
  <1>1. /\ Len(jobs) \in Nat /\ 1 \in 1..Len(jobs) /\ Head(jobs) = jobs[1]
        /\ Len(Tail(jobs)) = Len(jobs) - 1
        /\ \A i \in 1..Len(Tail(jobs)) : i + 1 \in 1..Len(jobs) /\ Tail(jobs)[i] = jobs[i + 1]
    BY HeadTailProperties DEF TypeInv, LoopType
  <1>2. \A i \in 1..Len(jobs) : jobs[i] \in Conn \cup {Server}
    BY DEF TypeInv, LoopType
  <1>3. SUFFICES ASSUME NEW i \in 1..Len(Tail(jobs)), Tail(jobs)[i] # Server
                 PROVE  /\ Tail(jobs)[i] # Head(jobs)
                        /\ descriptor[Tail(jobs)[i]] # NoFd
                        /\ registered[descriptor[Tail(jobs)[i]]] = NoEntry
                        /\ \A j \in 1..Len(Tail(jobs)) : Tail(jobs)[j] = Tail(jobs)[i] => j = i
    BY <1>1, <1>2
  <1>4. i + 1 \in 1..Len(jobs) /\ Tail(jobs)[i] = jobs[i + 1]
    BY <1>1
  <1>5. /\ descriptor[jobs[i + 1]] # NoFd /\ registered[descriptor[jobs[i + 1]]] = NoEntry
        /\ \A j \in 1..Len(jobs) : jobs[j] = jobs[i + 1] => j = i + 1
    BY <1>3, <1>4 DEF StepInv, JobsInv
  <1>6. Tail(jobs)[i] # Head(jobs)
    BY <1>1, <1>4, <1>5
  <1>7. \A j \in 1..Len(Tail(jobs)) : Tail(jobs)[j] = Tail(jobs)[i] => j = i
    BY <1>1, <1>4, <1>5
  <1>. QED  BY <1>4, <1>5, <1>6, <1>7

LEMMA StartKeeps ==
    ASSUME TypeInv, StepInv, NEW f \in Descriptors, NEW c \in Conn \cup {Server},
           \/ c = Server /\ f = ServerFd /\ repeated' = repeated
           \/ c \in Conn /\ f = descriptor[c] /\ repeated' = Append(repeated, c),
           jobs # <<>>, Head(jobs) = c, jobs' = Tail(jobs), AddFd(f, c, {"in"}),
           UNCHANGED <<due, running, kernel, handlers, history>>
    PROVE  StepInv'
  <1>0. UNCHANGED <<due, running, peer, backlog, descriptor, manager, write_buffer, said>>
    BY DEF kernel, handlers, history
  <1>1. c \in Conn => f \in Fd /\ f # NoFd /\ descriptor[c] = f /\ manager[f] = c /\ c # Server
    BY ConnectionsAssumption
    DEF Descriptors, Fd, NoFd, ServerFd, TypeInv, KernelType, StepInv, ManagerInv
  <1>2. c = (IF f = ServerFd THEN Server ELSE manager[f]) /\ c # None
    BY <1>1, ConnectionsAssumption DEF Fd, ServerFd
  <1>3. PICK flags \in Flags : Placed(f, c, flags)
    <2>1. {"in"} \in Flags
      BY DEF Flags
    <2>. QED  BY <2>1, AddFdEffect DEF TypeInv, StepInv
  <1>4. PollerInv'
    BY <1>0, <1>2, <1>3, PlacedKeeps DEF TypeInv, StepInv
  <1>5. DueInv'
    BY <1>0, <1>2, <1>3, PlacedDue DEF PeersGoOn, Dispatched
  <1>6. registered'[f] # NoEntry /\ \A g \in Descriptors : g # f => registered'[g] = registered[g]
    <2>1. registered'[f] = [conn |-> c, flags |-> flags, pos |-> PlaceOf(f)]
          /\ \A g \in Descriptors : g # f => registered'[g] = registered[g]
      BY <1>3 DEF Placed
    <2>2. registered'[f].conn = c /\ NoEntry.conn = None
      BY <2>1 DEF NoEntry
    <2>. QED  BY <1>2, <2>1, <2>2
  <1>7. ASSUME NEW d \in Conn, descriptor[d] # NoFd, d # c
        PROVE  descriptor[d] \in Descriptors /\ descriptor[d] # f
    <2>1. descriptor[d] \in Fd /\ descriptor[d] # ServerFd
      BY <1>7 DEF TypeInv, KernelType, Fd, ServerFd
    <2>2. CASE c \in Conn
      BY <1>1, <1>7, <2>1, <2>2, OthersApart DEF Descriptors, NoFd
    <2>3. CASE c = Server
      BY <1>1, <2>1, <2>3, ConnectionsAssumption DEF Descriptors
    <2>. QED  BY <2>2, <2>3
  <1>8. ManagerInv'
    BY <1>0 DEF StepInv, ManagerInv
  <1>9. \A i \in 1..Len(repeated') :
          (repeated'[i] = c /\ c \in Conn) \/ \E j \in 1..Len(repeated) : repeated'[i] = repeated[j]
    <2>1. CASE repeated' = repeated
      BY <2>1
    <2>2. CASE c \in Conn /\ repeated' = Append(repeated, c)
      <3>1. Len(repeated) \in Nat /\ Len(repeated') = Len(repeated) + 1
            /\ repeated'[Len(repeated) + 1] = c
            /\ \A i \in 1..Len(repeated) : repeated'[i] = repeated[i]
        BY <2>2, AppendProperties DEF TypeInv, LoopType
      <3>. QED  BY <2>2, <3>1
    <2>. QED  BY <2>1, <2>2
  <1>10. BacklogInv'
    <2>1. \A d \in Conn : Fresh(d) => Fresh(d)'
      BY <1>0, <1>1, <1>9 DEF Fresh
    <2>2. \A i \in 1..Len(backlog) : backlog[i] \in Conn
      BY DEF TypeInv, KernelType
    <2>3. \A d \in Conn : peer'[d] = "none" => Fresh(d)' /\ \A i \in 1..Len(backlog') : backlog'[i] # d
      BY <1>0, <2>1 DEF StepInv, BacklogInv
    <2>4. ASSUME NEW i \in 1..Len(backlog)
          PROVE  /\ descriptor'[backlog[i]] = NoFd /\ said'[backlog[i]] = <<>>
                 /\ \A j \in 1..Len(repeated') : repeated'[j] # backlog[i]
      <3>1. backlog[i] \in Conn /\ Fresh(backlog[i])
        BY <2>2 DEF StepInv, BacklogInv
      <3>. QED  BY <2>1, <3>1 DEF Fresh
    <2>5. \A i \in 1..Len(backlog) : \A j \in 1..Len(backlog) : backlog[j] = backlog[i] => j = i
      BY DEF StepInv, BacklogInv
    <2>. QED  BY <1>0, <2>3, <2>4, <2>5 DEF BacklogInv, Fresh
  <1>11. JobsInv'
    BY <1>0, <1>6, <1>7, JobsTail DEF JobsInv
  <1>12. RunInv'
    <2>1. ASSUME NEW d \in Conn, Registered(d) PROVE Registered(d)'
      BY <1>0, <1>1, <1>6, <1>7, <2>1 DEF Registered
    <2>2. c \in Conn => Registered(c)'
      BY <1>0, <1>1, <1>6 DEF Registered
    <2>3. \A i \in 1..Len(repeated) : repeated[i] \in Conn
      BY DEF TypeInv, LoopType
    <2>4. running.conn \in Conn \cup {None}
      BY DEF TypeInv, LoopType
    <2>5. running.conn # None => Registered(running.conn)'
      BY <2>1, <2>4 DEF StepInv, RunInv
    <2>6. \A i \in 1..Len(repeated') : descriptor[repeated'[i]] # NoFd =>
             descriptor[repeated'[i]] # NoFd /\ registered'[descriptor[repeated'[i]]] # NoEntry
      <3>1. \A j \in 1..Len(repeated) : descriptor[repeated[j]] # NoFd =>
               registered'[descriptor[repeated[j]]] # NoEntry
        BY <1>0, <2>1, <2>3 DEF StepInv, RunInv, Registered
      <3>. QED  BY <1>0, <1>9, <2>2, <3>1 DEF Registered
    <2>. QED  BY <1>0, <2>5, <2>6 DEF RunInv, Registered
  <1>13. PolledInv'
    <2>1. ASSUME NEW d \in Conn, write_buffer[d] # <<>>
          PROVE  descriptor[d] # NoFd /\ "out" \in registered'[descriptor[d]].flags
      <3>1. descriptor[d] # NoFd /\ "out" \in registered[descriptor[d]].flags
        BY <2>1 DEF StepInv, PolledInv
      <3>2. d # c
        <4>1. CASE c \in Conn
          <5>1. 1 \in 1..Len(jobs) /\ jobs[1] = c
            BY DEF TypeInv, LoopType
          <5>2. registered[descriptor[c]].flags = {}
            BY <1>1, <4>1, <5>1 DEF StepInv, JobsInv, NoEntry
          <5>. QED  BY <3>1, <5>2
        <4>2. CASE c = Server
          BY <4>2, ConnectionsAssumption
        <4>. QED  BY <4>1, <4>2
      <3>. QED  BY <1>6, <1>7, <3>1, <3>2
    <2>. QED  BY <1>0, <2>1 DEF PolledInv
  <1>. QED  BY <1>4, <1>5, <1>8, <1>10, <1>11, <1>12, <1>13 DEF StepInv

LEMMA StartsKeep ==
    ASSUME TypeInv, StepInv, StartServer \/ \E c \in Conn : StartHandler(c)
    PROVE  StepInv'
  <1>1. ASSUME StartServer, AddFd(ServerFd, Server, {"in"}) PROVE StepInv'
    BY <1>1, StartKeeps DEF StartServer, Descriptors
  <1>2. ASSUME StartServer, UNCHANGED poller PROVE StepInv'
    <2>1. jobs # <<>> /\ jobs' = Tail(jobs) /\ UNCHANGED <<registered, fds, repeated, due, running>>
          /\ UNCHANGED <<peer, backlog, descriptor, manager, write_buffer, said>>
      BY <1>2 DEF StartServer, poller, kernel, handlers, history
    <2>2. JobsInv'
      BY <2>1, JobsTail DEF JobsInv
    <2>3. ManagerInv' /\ PollerInv' /\ BacklogInv' /\ RunInv' /\ PolledInv'
      BY <2>1
      DEF StepInv, ManagerInv, PollerInv, BacklogInv, Fresh, RunInv, Registered, PolledInv
    <2>4. DueInv'
      BY <2>1 DEF StepInv, DueInv, Reset
    <2>. QED  BY <2>2, <2>3, <2>4 DEF StepInv
  <1>3. ASSUME NEW c \in Conn, StartHandler(c) PROVE StepInv'
    <2>1. 1 \in 1..Len(jobs) /\ jobs[1] = c /\ c # Server
      BY <1>3, ConnectionsAssumption DEF StartHandler, TypeInv, LoopType
    <2>2. descriptor[c] \in Descriptors
      BY <2>1 DEF StepInv, JobsInv, TypeInv, KernelType, Descriptors
    <2>. QED  BY <1>3, <2>2, StartKeeps DEF StartHandler
  <1>. QED  BY <1>1, <1>2, <1>3 DEF StartServer

LEMMA AcceptKeeps == ASSUME TypeInv, StepInv, Accept PROVE StepInv'
  <1>. DEFINE f == Min(FreeFd)
              c == Head(backlog)
  <1>1. /\ Len(backlog) \in Nat /\ 1 \in 1..Len(backlog) /\ c = backlog[1] /\ c \in Conn
        /\ Len(Tail(backlog)) = Len(backlog) - 1
        /\ \A i \in 1..Len(Tail(backlog)) :
              i + 1 \in 1..Len(backlog) /\ Tail(backlog)[i] = backlog[i + 1] /\ Tail(backlog)[i] \in Conn
    <2>1. backlog \in Seq(Conn) /\ backlog # <<>>
      BY DEF Accept, TypeInv, KernelType
    <2>2. /\ Head(backlog) = backlog[1] /\ Head(backlog) \in Conn /\ Len(backlog) \in Nat
          /\ Len(backlog) >= 1 /\ Tail(backlog) \in Seq(Conn)
          /\ Len(Tail(backlog)) = Len(backlog) - 1
          /\ \A i \in 1..Len(Tail(backlog)) : Tail(backlog)[i] = backlog[i + 1]
      BY <2>1, HeadTailProperties
    <2>3. \A i \in 1..Len(Tail(backlog)) : Tail(backlog)[i] \in Conn /\ i + 1 \in 1..Len(backlog)
      BY <2>2
    <2>. QED  BY <2>2, <2>3
  <1>2. f \in Fd /\ f # NoFd /\ f # ServerFd /\ \A d \in Conn : descriptor[d] # f
    BY FreeFdType, ConnectionsAssumption DEF Accept, Fd, NoFd, ServerFd
  <1>3. Fresh(c) /\ \A j \in 1..Len(backlog) : backlog[j] = c => j = 1
    BY <1>1 DEF StepInv, BacklogInv
  <1>4. manager[f] = None
    <2>1. manager[f] \in Conn \cup {None}
      BY <1>2 DEF TypeInv, HandlerType
    <2>2. manager[f] # None => descriptor[manager[f]] = f
      BY <1>2 DEF StepInv, ManagerInv
    <2>. QED  BY <1>2, <2>1, <2>2
  <1>5. registered[f] = NoEntry
    BY <1>2, <1>4 DEF StepInv, PollerInv, Descriptors
  <1>6. /\ backlog' = Tail(backlog) /\ descriptor' = [descriptor EXCEPT ![c] = f]
        /\ manager' = [manager EXCEPT ![f] = c] /\ jobs' = Append(jobs, c)
        /\ UNCHANGED <<peer, due, fds, registered, write_buffer, said, repeated, running>>
        /\ running = Idle
    BY <1>4 DEF Accept, Add, Dispatches, poller, history
  <1>. HIDE DEF f, c
  <1>7. /\ descriptor'[c] = f /\ descriptor[c] = NoFd /\ said[c] = <<>>
        /\ \A d \in Conn : d # c => descriptor'[d] = descriptor[d]
    BY <1>1, <1>3, <1>6 DEF TypeInv, KernelType, Fresh
  <1>8. manager'[f] = c /\ \A g \in Fd : g # f => manager'[g] = manager[g]
    BY <1>2, <1>6 DEF TypeInv, HandlerType
  <1>9. \A d \in Conn : descriptor[d] # NoFd => descriptor[d] \in Fd
    BY DEF TypeInv, KernelType
  <1>10. ManagerInv'
    <2>1. ASSUME NEW d \in Conn, descriptor'[d] # NoFd PROVE manager'[descriptor'[d]] = d
      BY <1>2, <1>7, <1>8, <1>9, <2>1 DEF StepInv, ManagerInv
    <2>2. ASSUME NEW g \in Fd, manager'[g] # None PROVE descriptor'[manager'[g]] = g
      <3>1. CASE g = f
        BY <1>7, <1>8, <3>1
      <3>2. CASE g # f
        <4>1. manager'[g] = manager[g] /\ manager[g] \in Conn /\ descriptor[manager[g]] = g
          BY <1>8, <2>2, <3>2 DEF TypeInv, HandlerType, StepInv, ManagerInv
        <4>2. manager[g] # c
          BY <1>7, <4>1 DEF Fd, NoFd
        <4>. QED  BY <1>7, <4>1, <4>2
      <3>. QED  BY <3>1, <3>2
    <2>. QED  BY <2>1, <2>2 DEF ManagerInv
  <1>11. PollerInv'
    <2>1. \A g \in Descriptors : registered[g] # NoEntry =>
            (IF g = ServerFd THEN Server ELSE manager'[g]) = (IF g = ServerFd THEN Server ELSE manager[g])
      BY <1>5, <1>8 DEF Descriptors
    <2>. QED  BY <1>6, <2>1 DEF StepInv, PollerInv
  <1>12. BacklogInv'
    <2>1. \A d \in Conn : Fresh(d) /\ d # c =>
            /\ descriptor'[d] = NoFd /\ said'[d] = <<>>
            /\ \A i \in 1..Len(repeated') : repeated'[i] # d
      BY <1>6, <1>7 DEF Fresh
    <2>2. ASSUME NEW d \in Conn, peer[d] = "none"
          PROVE  /\ descriptor'[d] = NoFd /\ said'[d] = <<>>
                 /\ \A i \in 1..Len(repeated') : repeated'[i] # d
                 /\ \A i \in 1..Len(Tail(backlog)) : Tail(backlog)[i] # d
      <3>1. Fresh(d) /\ \A i \in 1..Len(backlog) : backlog[i] # d
        BY <2>2 DEF StepInv, BacklogInv
      <3>2. d # c
        BY <1>1, <3>1 DEF c
      <3>. QED  BY <1>1, <2>1, <3>1, <3>2
    <2>3. ASSUME NEW i \in 1..Len(Tail(backlog))
          PROVE  /\ descriptor'[Tail(backlog)[i]] = NoFd /\ said'[Tail(backlog)[i]] = <<>>
                 /\ \A j \in 1..Len(repeated') : repeated'[j] # Tail(backlog)[i]
                 /\ \A j \in 1..Len(Tail(backlog)) : Tail(backlog)[j] = Tail(backlog)[i] => j = i
      <3>1. /\ i + 1 \in 1..Len(backlog) /\ Tail(backlog)[i] = backlog[i + 1]
            /\ backlog[i + 1] \in Conn
        BY <1>1
      <3>2. Fresh(backlog[i + 1]) /\ \A j \in 1..Len(backlog) : backlog[j] = backlog[i + 1] => j = i + 1
        BY <3>1 DEF StepInv, BacklogInv
      <3>3. backlog[i + 1] # c
        BY <1>1, <1>3, <3>1
      <3>4. \A j \in 1..Len(Tail(backlog)) : Tail(backlog)[j] = Tail(backlog)[i] => j = i
        BY <1>1, <3>1, <3>2
      <3>. QED  BY <2>1, <3>1, <3>2, <3>3, <3>4
    <2>. QED  BY <1>6, <2>2, <2>3 DEF BacklogInv, Fresh
  <1>13. JobsInv'
    <2>1. Len(jobs) \in Nat /\ Len(jobs') = Len(jobs) + 1 /\ jobs'[Len(jobs) + 1] = c
          /\ \A i \in 1..Len(jobs) : jobs'[i] = jobs[i] /\ jobs[i] \in Conn \cup {Server}
      BY <1>1, <1>6, AppendProperties DEF TypeInv, LoopType
    <2>2. ASSUME NEW i \in 1..Len(jobs), jobs[i] # Server
          PROVE  /\ jobs[i] # c
                 /\ descriptor'[jobs[i]] # NoFd /\ registered[descriptor'[jobs[i]]] = NoEntry
                 /\ \A j \in 1..Len(jobs) : jobs[j] = jobs[i] => j = i
      <3>1. /\ jobs[i] \in Conn /\ descriptor[jobs[i]] # NoFd
            /\ registered[descriptor[jobs[i]]] = NoEntry
            /\ \A j \in 1..Len(jobs) : jobs[j] = jobs[i] => j = i
        BY <2>1, <2>2 DEF StepInv, JobsInv
      <3>. QED  BY <1>7, <3>1
    <2>3. \A i \in 1..Len(jobs) : jobs[i] # c
      BY <1>1, <2>2, ConnectionsAssumption
    <2>4. ASSUME NEW i \in 1..Len(jobs'), jobs'[i] # Server
          PROVE  /\ descriptor'[jobs'[i]] # NoFd /\ registered[descriptor'[jobs'[i]]] = NoEntry
                 /\ \A j \in 1..Len(jobs') : jobs'[j] = jobs'[i] => j = i
      <3>1. CASE i = Len(jobs) + 1
        BY <1>2, <1>5, <1>7, <2>1, <2>3, <3>1
      <3>2. CASE i # Len(jobs) + 1
        <4>1. i \in 1..Len(jobs) /\ jobs'[i] = jobs[i]
          BY <2>1, <3>2
        <4>. QED  BY <2>1, <2>2, <2>4, <4>1
      <3>. QED  BY <3>1, <3>2
    <2>. QED  BY <1>6, <2>4 DEF JobsInv
  <1>14. RunInv'
    <2>1. \A i \in 1..Len(repeated) : repeated[i] \in Conn /\ repeated[i] # c
      BY <1>3 DEF Fresh, TypeInv, LoopType
    <2>. QED  BY <1>6, <1>7, <2>1 DEF StepInv, RunInv, Registered, Idle
  <1>15. DueInv'
    BY <1>6 DEF StepInv, DueInv, Reset
  <1>16. PolledInv'
    <2>1. write_buffer[c] = <<>>
      BY <1>1, <1>7 DEF StepInv, PolledInv
    <2>. QED  BY <1>6, <1>7, <2>1 DEF StepInv, PolledInv
  <1>. QED  BY <1>10, <1>11, <1>12, <1>13, <1>14, <1>15, <1>16 DEF StepInv

LEMMA ConnectKeeps == ASSUME TypeInv, StepInv, NEW c \in Conn, Connect(c) PROVE StepInv'
  <1>1. /\ peer[c] = "none" /\ peer' = [peer EXCEPT ![c] = "connected"]
        /\ backlog' = Append(backlog, c)
        /\ UNCHANGED <<descriptor, manager, jobs, due, fds, registered, write_buffer, said, repeated,
                       running>>
    BY DEF Connect, poller, handlers, history, loop
  <1>2. /\ Len(backlog) \in Nat /\ Len(backlog') = Len(backlog) + 1
        /\ backlog'[Len(backlog) + 1] = c
        /\ \A i \in 1..Len(backlog) : backlog'[i] = backlog[i] /\ backlog[i] \in Conn
    BY <1>1, AppendProperties DEF TypeInv, KernelType
  <1>3. Fresh(c) /\ \A i \in 1..Len(backlog) : backlog[i] # c
    BY <1>1 DEF StepInv, BacklogInv
  <1>4. \A d \in Conn : peer'[d] = IF d = c THEN "connected" ELSE peer[d]
    BY <1>1 DEF TypeInv, KernelType
  <1>5. BacklogInv'
    <2>1. \A d \in Conn : peer'[d] = "none" => Fresh(d) /\ \A i \in 1..Len(backlog') : backlog'[i] # d
      BY <1>2, <1>4 DEF StepInv, BacklogInv
    <2>2. ASSUME NEW i \in 1..Len(backlog')
          PROVE  /\ Fresh(backlog'[i])
                 /\ \A j \in 1..Len(backlog') : backlog'[j] = backlog'[i] => j = i
      <3>1. CASE i = Len(backlog) + 1
        BY <1>2, <1>3, <3>1
      <3>2. CASE i # Len(backlog) + 1
        <4>1. i \in 1..Len(backlog) /\ backlog'[i] = backlog[i]
          BY <1>2, <3>2
        <4>. QED  BY <1>2, <1>3, <4>1 DEF StepInv, BacklogInv
      <3>. QED  BY <3>1, <3>2
    <2>. QED  BY <1>1, <2>1, <2>2 DEF BacklogInv, Fresh
  <1>6. DueInv'
    <2>1. PeersGoOn /\ Dispatched
      BY <1>1, <1>4 DEF PeersGoOn, Dispatched
    <2>2. SUFFICES ASSUME NEW i \in 1..Len(due')
                   PROVE  /\ due'[i].pos \in 1..Len(fds')
                          /\ due'[i].event = "err" /\ fds'[due'[i].pos].fd # NoFd =>
                                /\ registered'[fds'[due'[i].pos].fd].conn # Server
                                /\ peer'[registered'[fds'[due'[i].pos].fd].conn] \in {"aborted", "broken"}
      BY DueNext
    <2>3. i \in 1..Len(due) /\ due'[i] = due[i]
      BY <1>1
    <2>4. due[i].pos \in 1..Len(fds)
      BY <2>3, DuePlaces
    <2>5. ASSUME due[i].event = "err", fds[due[i].pos].fd # NoFd
          PROVE  /\ registered[fds[due[i].pos].fd].conn # Server
                 /\ peer'[registered[fds[due[i].pos].fd].conn] \in {"aborted", "broken"}
      <3>1. /\ registered[fds[due[i].pos].fd].conn \in Conn
            /\ peer[registered[fds[due[i].pos].fd].conn] \in {"aborted", "broken"}
        BY <2>3, <2>5, DueNow
      <3>. QED  BY <1>1, <1>4, <3>1, ConnectionsAssumption
    <2>. QED  BY <1>1, <2>3, <2>4, <2>5
  <1>7. ManagerInv' /\ PollerInv' /\ JobsInv' /\ RunInv' /\ PolledInv'
    BY <1>1 DEF StepInv, ManagerInv, PollerInv, JobsInv, RunInv, Registered, PolledInv
  <1>. QED  BY <1>5, <1>6, <1>7 DEF StepInv

(* What poll() reports has a place, and an error a connection behind it.   *)
Sound ==
    {h \in Happening :
        /\ h.pos \in 1..Len(fds)
        /\ h.event = "err" /\ fds[h.pos].fd # NoFd =>
              registered[fds[h.pos].fd].conn # Server /\ Reset(registered[fds[h.pos].fd].conn)}

LEMMA ReportedSound ==
    ASSUME TypeInv, StepInv, NEW i \in 1..Len(fds), NEW event \in {"err", "in", "out"}
    PROVE  Reported(i, event) \in Seq(Sound)
  <1>. DEFINE f == fds[i].fd
              h == [pos |-> i, event |-> event]
  <1>1. Len(fds) \in Nat /\ i \in Nat /\ h \in Happening
    BY DEF TypeInv, PollerType, Happening
  <1>2. fds[i] \in Places
    BY DEF TypeInv, PollerType
  <1>3. f \in Descriptors \cup {NoFd}
    BY <1>2 DEF Places
  <1>4. CASE \E c \in Owner(f) : Shows(c, event)
    <2>1. ASSUME event = "err", f # NoFd
          PROVE  registered[f].conn # Server /\ Reset(registered[f].conn)
      <3>1. PICK c \in Owner(f) : Shows(c, event)
        BY <1>4
      <3>2. c # Server /\ Reset(c)
        BY <2>1, <3>1 DEF Shows
      <3>3. c \in Conn /\ descriptor[c] = f /\ f # ServerFd
        BY <3>1, <3>2 DEF Owner
      <3>4. manager[f] = c
        BY <2>1, <3>3 DEF StepInv, ManagerInv
      <3>5. registered[f].pos = i
        BY <2>1 DEF StepInv, PollerInv
      <3>6. registered[f] # NoEntry
        BY <1>1, <3>5 DEF NoEntry
      <3>7. registered[f].conn = c
        BY <1>3, <2>1, <3>3, <3>4, <3>6 DEF StepInv, PollerInv
      <3>. QED  BY <3>2, <3>7
    <2>2. h.pos = i /\ h.event = event
      OBVIOUS
    <2>. HIDE DEF h
    <2>3. h \in Sound
      BY <1>1, <2>1, <2>2 DEF Sound
    <2>4. <<h>> \in Seq(Sound) /\ <<>> \in Seq(Sound)
      BY <2>3
    <2>. QED  BY <2>4 DEF Reported, h
  <1>5. CASE ~ \E c \in Owner(f) : Shows(c, event)
    <2>1. Reported(i, event) = <<>>
      BY <1>5 DEF Reported
    <2>2. <<>> \in Seq(Sound)
      OBVIOUS
    <2>. QED  BY <2>1, <2>2
  <1>. QED  BY <1>4, <1>5

LEMMA PollKeeps == ASSUME TypeInv, StepInv, Poll PROVE StepInv'
  <1>1. Len(fds) \in Nat /\ DOMAIN fds = 1..Len(fds)
    BY DEF TypeInv, PollerType
  <1>2. \A i \in 1..Len(fds) : Revents(i) \in Seq(Sound)
    <2>1. SUFFICES ASSUME NEW i \in 1..Len(fds) PROVE Revents(i) \in Seq(Sound)
      OBVIOUS
    <2>2. /\ Reported(i, "err") \in Seq(Sound) /\ Reported(i, "in") \in Seq(Sound)
          /\ Reported(i, "out") \in Seq(Sound)
      BY ReportedSound
    <2>3. Reported(i, "err") \o Reported(i, "in") \in Seq(Sound)
      BY <2>2, ConcatProperties
    <2>. QED  BY <2>2, <2>3, ConcatProperties DEF Revents
  <1>3. [i \in DOMAIN fds |-> Revents(i)] \in Seq(Seq(Sound))
    <2>1. [i \in DOMAIN fds |-> Revents(i)] \in [1..Len(fds) -> Seq(Sound)]
      BY <1>1, <1>2
    <2>. QED  BY <1>1, <2>1, SeqDef
  <1>4. due' \in Seq(Sound)
    BY <1>3, FlattenType DEF Poll
  <1>5. UNCHANGED <<fds, registered, peer, manager, descriptor, backlog, said, jobs, repeated, running,
                    write_buffer>>
    BY DEF Poll, kernel, poller, handlers, history
  <1>6. DueInv'
    <2>1. \A i \in 1..Len(due') : due'[i] \in Sound
      BY <1>4
    <2>. QED  BY <1>5, <2>1 DEF DueInv, Sound, Reset
  <1>7. ManagerInv' /\ PollerInv' /\ BacklogInv' /\ JobsInv' /\ RunInv' /\ PolledInv'
    BY <1>5
    DEF StepInv, ManagerInv, PollerInv, BacklogInv, Fresh, JobsInv, RunInv, Registered, PolledInv
  <1>. QED  BY <1>6, <1>7 DEF StepInv

LEMMA DueShrinks ==
    ASSUME TypeInv, due' = due \/ due' = <<>> \/ (due # <<>> /\ due' = Tail(due))
    PROVE  Dispatched
  <1>1. CASE due' = due \/ due' = <<>>
    BY <1>1 DEF Dispatched
  <1>2. CASE due # <<>> /\ due' = Tail(due)
    BY <1>2, DueTail DEF Dispatched, TypeInv
  <1>. QED  BY <1>1, <1>2

LEMMA AliveHas ==
    ASSUME TypeInv, StepInv, NEW c \in Conn, Alive(c)
    PROVE  descriptor[c] \in Fd /\ descriptor[c] # NoFd
  BY ConnectionsAssumption DEF Alive, StepInv, ManagerInv, Fd, NoFd

LEMMA ClientStep == ASSUME TypeInv, StepInv, NEW c \in Conn, Client(c) PROVE StepInv'
  <1>1. ASSUME (\E kind \in Kind : Send(c, kind)) \/ Receive(c) \/ GoAway(c) PROVE Quiet
    <2>1. /\ UNCHANGED <<descriptor, manager, fds, registered, jobs, repeated, backlog, write_buffer>>
          /\ UNCHANGED <<said, running, due>>
      BY <1>1 DEF Send, Receive, GoAway, poller, handlers, history, loop
    <2>2. PeersGoOn
      <3>1. peer' = peer \/ \E how \in {"closed", "aborted", "broken"} :
                              /\ peer' = [peer EXCEPT ![c] = how]
                              /\ peer[c] \in {"connected", "closed"}
        BY <1>1 DEF Send, Receive, GoAway
      <3>. QED  BY <3>1 DEF PeersGoOn, TypeInv, KernelType
    <2>. QED  BY <2>1, <2>2, DueShrinks DEF Quiet, StepInv, RunInv
  <1>. QED  BY <1>1, QuietKeeps, ConnectKeeps DEF Client

LEMMA MovesOnStep == ASSUME TypeInv, StepInv, MovesOn PROVE StepInv'
  <1>1. /\ UNCHANGED <<descriptor, manager, fds, registered, jobs, repeated, backlog, write_buffer>>
        /\ UNCHANGED <<said, peer>>
    BY MovesOnEffect DEF kernel, poller, handlers, history
  <1>2. running'.conn = None \/ Registered(running'.conn)
    <2>1. CASE running' \in {running, Idle}
      BY <2>1 DEF StepInv, RunInv, Idle
    <2>2. ASSUME NEW c \in Conn, running' = [running EXCEPT !.doing = "say"], running.conn = c
          PROVE  Registered(running'.conn)
      <3>1. running'.conn = c
        BY <2>2 DEF TypeInv, LoopType
      <3>. QED  BY <2>2, <3>1, RunsAlive
    <2>3. ASSUME NEW i \in 1..Len(repeated), Alive(repeated[i]),
                 running' = [conn |-> repeated[i], doing |-> "say"]
          PROVE  Registered(running'.conn)
      <3>1. repeated[i] \in Conn
        BY DEF TypeInv, LoopType
      <3>2. Registered(repeated[i])
        BY <2>3, <3>1, AliveHas DEF StepInv, RunInv
      <3>. QED  BY <2>3, <3>2
    <2>. QED  BY <2>1, <2>2, <2>3, MovesOnEffect
  <1>3. Dispatched
    BY MovesOnEffect, DueShrinks
  <1>. QED  BY <1>1, <1>2, <1>3, QuietKeeps DEF Quiet, PeersGoOn

LEMMA ReadStep == ASSUME TypeInv, StepInv, Read PROVE StepInv'
  <1>1. DueConn \in Conn /\ due # <<>> /\ due' = Tail(due) /\ running'.conn = DueConn
    BY DEF Read, Dispatches
  <1>2. /\ UNCHANGED <<descriptor, manager, fds, registered, jobs, repeated, backlog, write_buffer>>
        /\ UNCHANGED <<said, peer>>
    BY DEF Read, poller, history
  <1>3. Registered(running'.conn) /\ Dispatched
    BY <1>1, DueAlive, DueShrinks
  <1>. QED  BY <1>2, <1>3, QuietKeeps DEF Quiet, PeersGoOn

LEMMA EndStep == ASSUME TypeInv, StepInv, HandleError \/ ReadEnd PROVE StepInv'
  <1>1. /\ DueConn \in Conn /\ Close(DueConn) /\ UNCHANGED <<jobs, repeated, said>> /\ running' = Idle
        /\ due # <<>> /\ (due' = due \/ due' = <<>> \/ due' = Tail(due))
    BY DEF HandleError, ReadEnd, Dispatches, history
  <1>2. CloseEffect(DueConn)
    BY <1>1, DueAlive, DueShrinks DEF CloseEffect
  <1>. QED  BY <1>1, <1>2, CloseKeeps

LEMMA ListenStep == ASSUME TypeInv, StepInv, NEW c \in Conn, Listen(c) PROVE StepInv'
  <1>1. /\ running.conn = c /\ running' \in {running, Idle} /\ due' \in {due, <<>>}
        /\ UNCHANGED <<descriptor, manager, fds, registered, jobs, repeated, backlog, write_buffer>>
        /\ UNCHANGED peer
        /\ said' = said \/ said' = [said EXCEPT ![c] = Append(@, Reply(c, Head(read_buffer[c])))]
    BY DEF Listen, Runs, Says, kernel, poller
  <1>2. descriptor[c] # NoFd /\ Registered(c)
    BY <1>1, RunsAlive, ConnectionsAssumption DEF Fd, NoFd
  <1>3. \A d \in Conn : descriptor[d] = NoFd => said'[d] = said[d]
    BY <1>1, <1>2 DEF TypeInv, HandlerType
  <1>4. running'.conn = None \/ Registered(running'.conn)
    BY <1>1, <1>2 DEF Idle
  <1>. QED  BY <1>1, <1>3, <1>4, DueShrinks, QuietKeeps DEF Quiet, PeersGoOn

LEMMA AnswerStep ==
    ASSUME TypeInv, StepInv, NEW c \in Conn, NEW n \in blocked[c], Answer(c, n)
    PROVE  StepInv'
  <1>1. /\ UNCHANGED <<descriptor, manager, fds, registered, jobs, repeated, backlog, write_buffer>>
        /\ UNCHANGED <<peer, running, due>>
    BY DEF Answer, kernel, poller
  <1>2. \/ said' = said
        \/ \E d \in Conn : Alive(d) /\ said' = [said EXCEPT ![d] = Append(@, Reply(c, n))]
    <2>1. heirs[c] \in SUBSET Conn
      BY DEF TypeInv, HandlerType
    <2>2. \A d \in Reached(c, sent[c][n]) : d = None \/ (d \in Conn /\ Alive(d))
      BY <2>1 DEF Reached
    <2>. QED  BY <2>2 DEF Answer
  <1>3. \A d \in Conn : descriptor[d] = NoFd => said'[d] = said[d]
    BY <1>2, AliveHas DEF TypeInv, HandlerType
  <1>. QED  BY <1>1, <1>3, DueShrinks, QuietKeeps DEF Quiet, PeersGoOn, StepInv, RunInv

LEMMA SayStep == ASSUME TypeInv, StepInv, NEW c \in Conn, Say(c) PROVE StepInv'
  <1>1. /\ pending[c] # <<>> /\ running.conn = c
        /\ UNCHANGED <<jobs, repeated, due, said>>
    BY DEF Say, Runs, history
  <1>2. descriptor[c] \in Fd /\ Registered(c) /\ Dispatched
    BY <1>1, RunsAlive, DueShrinks
  <1>3. ASSUME Write(c, Append(write_buffer[c], Head(pending[c]))),
               UNCHANGED <<running, peer, backlog, descriptor, manager>>
        PROVE  StepInv'
    <2>1. Head(pending[c]) \in Replies
      BY <1>1, HeadTailProperties DEF TypeInv, HandlerType
    <2>2. Append(write_buffer[c], Head(pending[c])) \in Seq(Replies)
      BY <2>1, AppendProperties DEF TypeInv, HandlerType
    <2>. QED  BY <1>1, <1>2, <1>3, <2>2, WriteKeeps DEF WriteEffect
  <1>4. ASSUME Close(c), running' = Idle PROVE StepInv'
    BY <1>1, <1>2, <1>4, CloseKeeps DEF CloseEffect
  <1>5. ASSUME UNCHANGED <<running, kernel, poller, handlers>> PROVE StepInv'
    <2>1. /\ UNCHANGED <<descriptor, manager, fds, registered, backlog, write_buffer, peer>>
      BY <1>5 DEF kernel, poller, handlers
    <2>. QED  BY <1>1, <1>2, <1>5, <2>1, QuietKeeps DEF Quiet, PeersGoOn, StepInv, RunInv
  <1>. QED  BY <1>3, <1>4, <1>5 DEF Say

LEMMA ReadyStep == ASSUME TypeInv, StepInv, ReadyToWrite PROVE StepInv'
  <1>. DEFINE c == DueConn
  <1>1. /\ c \in Conn /\ due # <<>> /\ due' = Tail(due)
        /\ UNCHANGED <<peer, backlog, descriptor, manager, said, jobs, repeated, running>>
        /\ Write(c, write_buffer[c]) \/ UNCHANGED <<write_buffer, fds, registered>>
    BY DEF ReadyToWrite, Dispatches, poller, history
  <1>2. Registered(c) /\ Dispatched
    BY <1>1, DueAlive, DueShrinks
  <1>. HIDE DEF c
  <1>3. CASE Write(c, write_buffer[c])
    <2>1. write_buffer[c] \in Seq(Replies)
      BY <1>1 DEF TypeInv, HandlerType
    <2>. QED  BY <1>1, <1>2, <1>3, <2>1, WriteKeeps DEF WriteEffect
  <1>4. CASE UNCHANGED <<write_buffer, fds, registered>>
    BY <1>1, <1>2, <1>4, QuietKeeps DEF Quiet, PeersGoOn, StepInv, RunInv
  <1>. QED  BY <1>1, <1>3, <1>4

LEMMA StepStep == ASSUME TypeInv, StepInv, [Next]_vars PROVE StepInv'
  <1>1. CASE UNCHANGED vars
    <2>1. /\ UNCHANGED <<descriptor, manager, fds, registered, jobs, repeated, backlog, write_buffer>>
          /\ UNCHANGED <<peer, said, running, due>>
      BY <1>1 DEF vars, kernel, poller, handlers, history, loop
    <2>. QED  BY <2>1, DueShrinks, QuietKeeps DEF Quiet, PeersGoOn, StepInv, RunInv
  <1>2. CASE Next
    BY <1>2, StepCases, ClientStep, StartsKeep, PollKeeps, AcceptKeeps, EndStep, ReadStep, ReadyStep,
       ListenStep, SayStep, AnswerStep, MovesOnStep
  <1>. QED  BY <1>1, <1>2

LEMMA StepAlways == Spec => [](TypeInv /\ StepInv)
  <1>1. Init => TypeInv /\ StepInv
    BY InitType, InitStep
  <1>2. TypeInv /\ StepInv /\ [Next]_vars => (TypeInv /\ StepInv)'
    BY TypeStep, StepStep
  <1>. QED  BY <1>1, <1>2, PTL DEF Spec

-----------------------------------------------------------------------------
(* However connections come, end and give their descriptors to others,     *)
(* the kernel, HandlersManager and Poller agree on who has a descriptor    *)
(* and where in _fds it is: Handler::close takes it out of Poller before   *)
(* it gives it back, and a Handler is started before it is ever polled.    *)
THEOREM DescriptorsCorrect == Spec => []DescriptorsInStep
  <1>1. TypeInv /\ StepInv => DescriptorsInStep
    <2>. SUFFICES ASSUME TypeInv, StepInv PROVE DescriptorsInStep
      OBVIOUS
    <2>1. DOMAIN fds = 1..Len(fds)
      BY DEF TypeInv, PollerType
    <2>. QED  BY <2>1 DEF StepInv, ManagerInv, PollerInv, Descriptors, DescriptorsInStep
  <1>. QED  BY <1>1, StepAlways, PTL

(* As long as a handler has something left to write it is polled for       *)
(* POLLOUT, wherever its descriptor is in _fds and whoever had it before:  *)
(* Handler::write asks for it whenever the socket takes only a part.       *)
THEOREM PolledCorrect == Spec => []PendingIsPolled
  <1>1. StepInv => PendingIsPolled
    BY DEF StepInv, PolledInv, PendingIsPolled
  <1>. QED  BY <1>1, StepAlways, PTL

LEMMA FdsFixedStep ==
    ASSUME TypeInv, StepInv, [Next]_vars, phase = "dispatch"
    PROVE  Len(fds') = Len(fds)
  <1>1. ASSUME NEW c \in Conn, Registered(c), Close(c) PROVE Len(fds') = Len(fds)
    <2>1. descriptor[c] \in Descriptors
      BY <1>1 DEF Registered, TypeInv, KernelType, Descriptors
    <2>. QED  BY <1>1, <2>1, RemoveFdEffect DEF Close, Registered, Removed, TypeInv, StepInv
  <1>2. ASSUME NEW c \in Conn, Registered(c), NEW buffer, Write(c, buffer)
        PROVE  Len(fds') = Len(fds)
    <2>1. descriptor[c] \in Descriptors
      BY <1>2 DEF Registered, TypeInv, KernelType, Descriptors
    <2>2. PICK rest : AddFd(descriptor[c], c, Interest(rest))
      BY <1>2 DEF Write
    <2>3. Interest(rest) \in Flags
      BY DEF Interest, Flags
    <2>4. PICK flags \in Flags : Placed(descriptor[c], c, flags)
      BY <2>1, <2>2, <2>3, AddFdEffect DEF TypeInv, StepInv
    <2>. QED  BY <1>2, <2>4 DEF Registered, Placed
  <1>3. CASE HandleError \/ ReadEnd
    BY <1>1, <1>3, DueAlive DEF HandleError, ReadEnd, Dispatches
  <1>4. CASE ReadyToWrite
    BY <1>2, <1>4, DueAlive DEF ReadyToWrite, Dispatches, poller
  <1>5. ASSUME NEW c \in Conn, Say(c) PROVE Len(fds') = Len(fds)
    <2>1. Registered(c)
      BY <1>5, RunsAlive DEF Say, Runs
    <2>. QED  BY <1>1, <1>2, <1>5, <2>1 DEF Say, poller
  <1>6. CASE Accept
    BY <1>6 DEF Accept, Add, poller
  <1>7. CASE Read \/ \E c \in Conn : Listen(c) \/ Client(c)
    BY <1>7 DEF Read, Listen, Client, Connect, Send, Receive, GoAway, poller
  <1>8. ASSUME NEW c \in Conn, NEW n \in blocked[c], Answer(c, n) PROVE Len(fds') = Len(fds)
    BY <1>8 DEF Answer, poller
  <1>9. CASE MovesOn
    BY <1>9, MovesOnEffect DEF poller
  <1>10. ~ StartServer /\ ~ Poll /\ \A c \in Conn : ~ StartHandler(c)
    BY DEF StartServer, Poll, StartHandler
  <1>11. CASE UNCHANGED vars
    BY <1>11 DEF vars, poller
  <1>. QED  BY <1>3, <1>4, <1>5, <1>6, <1>7, <1>8, <1>9, <1>10, <1>11, StepCases

(* Nothing is appended to _fds while Poller dispatches: what is closed     *)
(* there leaves its place behind, what is written has one, and what is     *)
(* accepted gets one from the job that starts it.                          *)
THEOREM FdsFixedCorrect == Spec => FdsFixedInDispatch
  <1>1. TypeInv /\ StepInv /\ [Next]_vars => [phase = "dispatch" => Len(fds') = Len(fds)]_vars
    BY FdsFixedStep
  <1>. QED  BY <1>1, StepAlways, PTL DEF Spec, FdsFixedInDispatch

-----------------------------------------------------------------------------
(* The promise of Session.  What is not about a connection leaves what it  *)
(* sent and what it is told as they are.                                   *)

LEMMA CommandsFrame ==
    ASSUME NEW d \in Conn, CommandsAt(d), executed'[d] = executed[d],
           read_buffer'[d] = read_buffer[d], inbox'[d] = inbox[d], sent'[d] = sent[d],
           peer'[d] \in {"none", "connected"} => peer[d] \in {"none", "connected"}
    PROVE  CommandsAt(d)'
  BY DEF CommandsAt

LEMMA RepliesFrame ==
    ASSUME TypeInv, NEW d \in Conn, RepliesAt(d), got'[d] = got[d], wire'[d] = wire[d],
           write_buffer'[d] = write_buffer[d], pending'[d] = pending[d], said'[d] = said[d],
           descriptor'[d] # NoFd => descriptor[d] # NoFd \/ said[d] = <<>>
    PROVE  RepliesAt(d)'
  <1>1. /\ Len(got[d]) \in Nat /\ Len(wire[d]) \in Nat /\ Len(write_buffer[d]) \in Nat
        /\ Len(pending[d]) \in Nat
    BY DEF TypeInv, KernelType, HandlerType
  <1>2. descriptor'[d] # NoFd =>
          Len(got[d]) + Len(wire[d]) + Len(write_buffer[d]) + Len(pending[d]) = Len(said[d])
    <2>1. CASE descriptor[d] # NoFd
      BY <2>1 DEF RepliesAt
    <2>2. CASE said[d] = <<>>
      <3>1. Len(said[d]) = 0
        BY <2>2
      <3>2. Len(got[d]) + Len(wire[d]) + Len(write_buffer[d]) + Len(pending[d]) <= Len(said[d])
        BY DEF RepliesAt
      <3>. DEFINE g == Len(got[d])
                  w == Len(wire[d])
                  b == Len(write_buffer[d])
                  p == Len(pending[d])
                  s == Len(said[d])
      <3>3. g \in Nat /\ w \in Nat /\ b \in Nat /\ p \in Nat /\ s = 0 /\ g + w + b + p <= s
        BY <1>1, <3>1, <3>2
      <3>. HIDE DEF g, w, b, p, s
      <3>4. g + w + b + p = s
        BY <3>3
      <3>. QED  BY <3>4 DEF g, w, b, p, s
    <2>. QED  BY <2>1, <2>2
  <1>. QED  BY <1>1, <1>2 DEF RepliesAt

SessionInv == CommandsInv /\ RepliesInv /\ BlockedInv
Promised == Promise!SessionNext \/ UNCHANGED <<sent, executed, said, got>>

LEMMA InitSession == Init => SessionInv
  BY DEF Init, SessionInv, CommandsInv, CommandsAt, RepliesInv, RepliesAt, BlockedInv

(* The steps that neither execute, answer nor carry anything.              *)
Still ==
    /\ UNCHANGED <<sent, inbox, wire, got, read_buffer, write_buffer, pending, blocked, executed, said>>
    /\ \A c \in Conn : /\ peer'[c] \in {"none", "connected"} => peer[c] \in {"none", "connected"}
                       /\ descriptor'[c] # NoFd => descriptor[c] # NoFd \/ said[c] = <<>>

LEMMA StillKeeps == ASSUME TypeInv, SessionInv, Still PROVE SessionInv' /\ Promised
  <1>1. CommandsInv'
    BY CommandsFrame DEF SessionInv, CommandsInv, Still
  <1>2. RepliesInv'
    BY RepliesFrame DEF SessionInv, RepliesInv, Still
  <1>3. BlockedInv'
    BY DEF SessionInv, BlockedInv, Still
  <1>. QED  BY <1>1, <1>2, <1>3 DEF SessionInv, Promised, Still

LEMMA StillSteps ==
    ASSUME TypeInv, StepInv,
           \/ UNCHANGED vars \/ MovesOn \/ Poll \/ StartServer \/ Accept
           \/ \E c \in Conn : StartHandler(c) \/ Connect(c) \/ GoAway(c)
    PROVE  Still
  <1>1. CASE UNCHANGED vars \/ Poll \/ StartServer \/ \E c \in Conn : StartHandler(c)
    BY <1>1 DEF vars, kernel, handlers, history, Poll, StartServer, StartHandler, Still
  <1>2. CASE MovesOn
    BY <1>2, MovesOnEffect DEF kernel, handlers, history, Still
  <1>3. ASSUME NEW c \in Conn, Connect(c) \/ GoAway(c) PROVE Still
    <2>1. /\ UNCHANGED <<sent, inbox, wire, got, read_buffer, write_buffer, pending, blocked, executed>>
          /\ UNCHANGED <<said, descriptor>>
      BY <1>3 DEF Connect, GoAway, handlers, history
    <2>2. \E how \in {"connected", "closed", "aborted", "broken"} : peer' = [peer EXCEPT ![c] = how]
          /\ (how = "connected" => peer[c] = "none")
      BY <1>3 DEF Connect, GoAway
    <2>3. \A d \in Conn : peer'[d] \in {"none", "connected"} => peer[d] \in {"none", "connected"}
      BY <2>2 DEF TypeInv, KernelType
    <2>. QED  BY <2>1, <2>3 DEF Still
  <1>4. CASE Accept
    <2>1. Head(backlog) = backlog[1] /\ 1 \in 1..Len(backlog)
      BY <1>4 DEF Accept, TypeInv, KernelType
    <2>2. said[Head(backlog)] = <<>>
      BY <2>1 DEF StepInv, BacklogInv, Fresh
    <2>3. \A d \in Conn : descriptor'[d] # NoFd => descriptor[d] # NoFd \/ said[d] = <<>>
      BY <1>4, <2>2 DEF Accept, TypeInv, KernelType
    <2>. QED  BY <1>4, <2>3 DEF Accept, history, Still
  <1>. QED  BY <1>1, <1>2, <1>3, <1>4

(* The two parts of the invariant, by the numbers they are about.          *)
CommandsCount(d, e, r, n, s) ==
    /\ executed[d] = e /\ Len(read_buffer[d]) = r /\ Len(inbox[d]) = n /\ Len(sent[d]) = s
    /\ \A i \in 1..r : read_buffer[d][i] = e + i
    /\ \A i \in 1..n : inbox[d][i] = e + r + i
    /\ e + r + n <= s
    /\ peer[d] \in {"none", "connected"} => e + r + n = s

RepliesCount(d, g, w, b, p, s) ==
    /\ Len(got[d]) = g /\ Len(wire[d]) = w /\ Len(write_buffer[d]) = b
    /\ Len(pending[d]) = p /\ Len(said[d]) = s
    /\ \A i \in 1..g : got[d][i] = said[d][i]
    /\ \A i \in 1..w : wire[d][i] = said[d][g + i]
    /\ \A i \in 1..b : write_buffer[d][i] = said[d][g + w + i]
    /\ \A i \in 1..p : pending[d][i] = said[d][g + w + b + i]
    /\ g + w + b + p <= s
    /\ descriptor[d] # NoFd => g + w + b + p = s

LEMMA CommandsElim ==
    ASSUME TypeInv, NEW d \in Conn, CommandsAt(d)
    PROVE  \E e, r, n, s \in Nat : CommandsCount(d, e, r, n, s)
  <1>1. /\ executed[d] \in Nat /\ Len(read_buffer[d]) \in Nat /\ Len(inbox[d]) \in Nat
        /\ Len(sent[d]) \in Nat
    BY DEF TypeInv, KernelType, HandlerType
  <1>2. CommandsCount(d, executed[d], Len(read_buffer[d]), Len(inbox[d]), Len(sent[d]))
    BY Zenon DEF CommandsAt, CommandsCount
  <1>. QED  BY <1>1, <1>2

LEMMA CommandsIntro ==
    ASSUME NEW d \in Conn, NEW e \in Nat, NEW r \in Nat, NEW n \in Nat, NEW s \in Nat,
           CommandsCount(d, e, r, n, s)'
    PROVE  CommandsAt(d)'
  BY Zenon DEF CommandsAt, CommandsCount

LEMMA RepliesElim ==
    ASSUME TypeInv, NEW d \in Conn, RepliesAt(d)
    PROVE  \E g, w, b, p, s \in Nat : RepliesCount(d, g, w, b, p, s)
  <1>1. /\ Len(got[d]) \in Nat /\ Len(wire[d]) \in Nat /\ Len(write_buffer[d]) \in Nat
        /\ Len(pending[d]) \in Nat /\ Len(said[d]) \in Nat
    BY DEF TypeInv, KernelType, HandlerType
  <1>2. RepliesCount(d, Len(got[d]), Len(wire[d]), Len(write_buffer[d]), Len(pending[d]), Len(said[d]))
    BY Zenon DEF RepliesAt, RepliesCount
  <1>. QED  BY <1>1, <1>2

LEMMA RepliesIntro ==
    ASSUME NEW d \in Conn, NEW g \in Nat, NEW w \in Nat, NEW b \in Nat, NEW p \in Nat, NEW s \in Nat,
           RepliesCount(d, g, w, b, p, s)'
    PROVE  RepliesAt(d)'
  BY Zenon DEF RepliesAt, RepliesCount

LEMMA SendKeeps ==
    ASSUME TypeInv, SessionInv, NEW c \in Conn, NEW kind \in Kind, Send(c, kind)
    PROVE  SessionInv' /\ Promised
  <1>1. /\ sent' = [sent EXCEPT ![c] = Append(@, kind)]
        /\ inbox' = [inbox EXCEPT ![c] = Append(@, Len(sent[c]) + 1)]
        /\ UNCHANGED <<peer, wire, got, descriptor, read_buffer, write_buffer, pending, blocked,
                       executed, said>>
        /\ peer[c] = "connected"
    BY DEF Send, handlers, history
  <1>2. /\ Len(sent'[c]) = Len(sent[c]) + 1 /\ Len(inbox'[c]) = Len(inbox[c]) + 1
        /\ inbox'[c][Len(inbox[c]) + 1] = Len(sent[c]) + 1
        /\ \A i \in 1..Len(inbox[c]) : inbox'[c][i] = inbox[c][i]
        /\ \A d \in Conn : d # c => sent'[d] = sent[d] /\ inbox'[d] = inbox[d]
    BY <1>1 DEF TypeInv, KernelType
  <1>3. CommandsInv'
    <2>1. SUFFICES ASSUME NEW d \in Conn PROVE CommandsAt(d)'
      BY DEF CommandsInv
    <2>2. CASE d # c
      BY <1>1, <1>2, <2>2, CommandsFrame DEF SessionInv, CommandsInv
    <2>3. CASE d = c
      <3>0. PICK e, r, n, s \in Nat : CommandsCount(c, e, r, n, s)
        BY CommandsElim DEF SessionInv, CommandsInv
      <3>1. /\ executed[c] = e /\ Len(read_buffer[c]) = r /\ Len(inbox[c]) = n /\ Len(sent[c]) = s
            /\ \A i \in 1..r : read_buffer[c][i] = e + i
            /\ \A i \in 1..n : inbox[c][i] = e + r + i
            /\ e + r + n <= s
            /\ peer[c] \in {"none", "connected"} => e + r + n = s
        BY <3>0 DEF CommandsCount
      <3>2. \A i \in 1..n + 1 : inbox'[c][i] = e + r + i
        <4>1. /\ inbox'[c][n + 1] = s + 1 /\ e + r + n = s
              /\ \A i \in 1..n : inbox'[c][i] = e + r + i
          BY <1>1, <1>2, <3>1
        <4>2. \A i \in 1..n + 1 : i = n + 1 \/ i \in 1..n
          OBVIOUS
        <4>3. s + 1 = e + r + (n + 1)
          BY <4>1
        <4>. QED  BY <4>1, <4>2, <4>3
      <3>3. e + r + (n + 1) = s + 1 /\ e + r + (n + 1) <= s + 1
        BY <1>1, <3>1
      <3>4. /\ Len(inbox'[c]) = n + 1 /\ Len(sent'[c]) = s + 1 /\ n + 1 \in Nat /\ s + 1 \in Nat
            /\ executed'[c] = e /\ Len(read_buffer'[c]) = r
            /\ \A i \in 1..r : read_buffer'[c][i] = e + i
        BY <1>1, <1>2, <3>1
      <3>5. peer'[c] = peer[c]
        BY <1>1
      <3>6. CommandsCount(c, e, r, n + 1, s + 1)'
        BY <3>2, <3>3, <3>4, <3>5 DEF CommandsCount
      <3>. QED  BY <2>3, <3>4, <3>6, CommandsIntro
    <2>. QED  BY <2>2, <2>3
  <1>4. RepliesInv'
    BY <1>1, RepliesFrame DEF SessionInv, RepliesInv
  <1>5. BlockedInv'
    BY <1>1 DEF SessionInv, BlockedInv
  <1>6. Promise!SessionNext
    BY <1>1 DEF Promise!SessionNext, Promise!SendCommand
  <1>. QED  BY <1>3, <1>4, <1>5, <1>6 DEF SessionInv, Promised

LEMMA ReceiveKeeps ==
    ASSUME TypeInv, SessionInv, NEW c \in Conn, Receive(c)
    PROVE  SessionInv' /\ Promised
  <1>1. /\ wire[c] # <<>>
        /\ got' = [got EXCEPT ![c] = Append(@, Head(wire[c]))]
        /\ wire' = [wire EXCEPT ![c] = Tail(@)]
        /\ UNCHANGED <<peer, sent, inbox, descriptor, read_buffer, write_buffer, pending, blocked,
                       executed, said>>
    BY DEF Receive, handlers, history
  <1>2. /\ got[c] \in Seq(Replies) /\ wire[c] \in Seq(Replies)
    BY DEF TypeInv, KernelType
  <1>3. /\ Len(got'[c]) = Len(got[c]) + 1 /\ got'[c][Len(got[c]) + 1] = wire[c][1]
        /\ \A i \in 1..Len(got[c]) : got'[c][i] = got[c][i]
        /\ Len(wire[c]) >= 1 /\ Len(wire'[c]) = Len(wire[c]) - 1
        /\ \A i \in 1..Len(wire'[c]) : wire'[c][i] = wire[c][i + 1]
        /\ \A d \in Conn : d # c => got'[d] = got[d] /\ wire'[d] = wire[d]
        /\ Head(wire[c]) = wire[c][1]
    <2>1. /\ Head(wire[c]) = wire[c][1] /\ Len(wire[c]) >= 1
          /\ Len(Tail(wire[c])) = Len(wire[c]) - 1
          /\ \A i \in 1..Len(Tail(wire[c])) : Tail(wire[c])[i] = wire[c][i + 1]
          /\ Head(wire[c]) \in Replies
      BY <1>1, <1>2, HeadTailProperties
    <2>2. got'[c] = Append(got[c], wire[c][1]) /\ wire'[c] = Tail(wire[c])
      BY <1>1, <2>1 DEF TypeInv, KernelType
    <2>3. /\ Len(got'[c]) = Len(got[c]) + 1 /\ got'[c][Len(got[c]) + 1] = wire[c][1]
          /\ \A i \in 1..Len(got[c]) : got'[c][i] = got[c][i]
      BY <1>2, <2>1, <2>2, AppendProperties
    <2>4. \A d \in Conn : d # c => got'[d] = got[d] /\ wire'[d] = wire[d]
      BY <1>1 DEF TypeInv, KernelType
    <2>. QED  BY <2>1, <2>2, <2>3, <2>4
  <1>0. PICK g, w, b, p, s \in Nat : RepliesCount(c, g, w, b, p, s)
    BY RepliesElim DEF SessionInv, RepliesInv
  <1>4. /\ Len(got[c]) = g /\ Len(wire[c]) = w /\ Len(write_buffer[c]) = b
        /\ Len(pending[c]) = p /\ Len(said[c]) = s
        /\ \A i \in 1..g : got[c][i] = said[c][i]
        /\ \A i \in 1..w : wire[c][i] = said[c][g + i]
        /\ \A i \in 1..b : write_buffer[c][i] = said[c][g + w + i]
        /\ \A i \in 1..p : pending[c][i] = said[c][g + w + b + i]
        /\ g + w + b + p <= s
        /\ descriptor[c] # NoFd => g + w + b + p = s
    BY <1>0 DEF RepliesCount
  <1>5. w >= 1 /\ wire[c][1] = said[c][g + 1] /\ g + 1 <= s
    <2>1. w >= 1
      BY <1>3, <1>4
    <2>2. 1 \in 1..w /\ g + 1 <= s
      BY <1>4, <2>1
    <2>. QED  BY <1>4, <2>1, <2>2
  <1>6. RepliesInv'
    <2>1. SUFFICES ASSUME NEW d \in Conn PROVE RepliesAt(d)'
      BY DEF RepliesInv
    <2>2. CASE d # c
      BY <1>1, <1>3, <2>2, RepliesFrame DEF SessionInv, RepliesInv
    <2>3. CASE d = c
      <3>1. Len(got'[c]) = g + 1 /\ Len(wire'[c]) = w - 1 /\ w - 1 \in Nat /\ g + 1 \in Nat
        BY <1>3, <1>4, <1>5
      <3>2. \A i \in 1..g + 1 : got'[c][i] = said[c][i]
        <4>1. got'[c][g + 1] = said[c][g + 1] /\ \A i \in 1..g : got'[c][i] = said[c][i]
          BY <1>3, <1>4, <1>5
        <4>2. \A i \in 1..g + 1 : i = g + 1 \/ i \in 1..g
          OBVIOUS
        <4>. QED  BY <4>1, <4>2
      <3>3. \A i \in 1..w - 1 : wire'[c][i] = said[c][(g + 1) + i]
        <4>1. \A i \in 1..w - 1 : wire'[c][i] = wire[c][i + 1]
          BY <1>3, <3>1
        <4>2. SUFFICES ASSUME NEW i \in 1..w - 1 PROVE wire'[c][i] = said[c][(g + 1) + i]
          OBVIOUS
        <4>3. i + 1 \in 1..w /\ g + (i + 1) = (g + 1) + i
          BY <1>5
        <4>4. wire[c][i + 1] = said[c][g + (i + 1)]
          BY <1>4, <4>3
        <4>. QED  BY <4>1, <4>3, <4>4
      <3>4. (g + 1) + (w - 1) = g + w
        BY <1>5
      <3>5. /\ Len(write_buffer'[c]) = b /\ Len(pending'[c]) = p /\ Len(said'[c]) = s
            /\ \A i \in 1..b : write_buffer'[c][i] = said'[c][(g + 1) + (w - 1) + i]
            /\ \A i \in 1..p : pending'[c][i] = said'[c][(g + 1) + (w - 1) + b + i]
            /\ \A i \in 1..g + 1 : got'[c][i] = said'[c][i]
            /\ \A i \in 1..w - 1 : wire'[c][i] = said'[c][(g + 1) + i]
        BY <1>1, <1>4, <3>2, <3>3, <3>4
      <3>6. /\ (g + 1) + (w - 1) + b + p <= s
            /\ descriptor'[c] # NoFd => (g + 1) + (w - 1) + b + p = s
        BY <1>1, <1>4, <3>4
      <3>7. RepliesCount(c, g + 1, w - 1, b, p, s)'
        BY <3>1, <3>5, <3>6 DEF RepliesCount
      <3>. QED  BY <2>3, <3>1, <3>7, RepliesIntro
    <2>. QED  BY <2>2, <2>3
  <1>7. CommandsInv'
    BY <1>1, CommandsFrame DEF SessionInv, CommandsInv
  <1>8. BlockedInv'
    BY <1>1 DEF SessionInv, BlockedInv
  <1>9. Promise!SessionNext
    <2>1. got' = [got EXCEPT ![c] = Append(@, said[c][Len(@) + 1])]
      <3>1. Head(wire[c]) = said[c][Len(got[c]) + 1]
        BY <1>3, <1>4, <1>5
      <3>. QED  BY <1>1, <3>1, Zenon
    <2>2. Len(got[c]) < Len(said[c])
      BY <1>4, <1>5
    <2>3. Promise!ReceiveNext(c)
      BY <1>1, <2>1, <2>2, Zenon DEF Promise!ReceiveNext
    <2>. QED  BY <2>3 DEF Promise!SessionNext
  <1>. QED  BY <1>6, <1>7, <1>8, <1>9 DEF SessionInv, Promised

(* What is read is taken from the socket in the order it was sent.         *)
LEMMA ReadKeeps == ASSUME TypeInv, SessionInv, Read PROVE SessionInv' /\ Promised
  <1>1. PICK c \in Conn :
        /\ peer[c] = "connected"
        /\ read_buffer' = [read_buffer EXCEPT ![c] = @ \o inbox[c]]
        /\ inbox' = [inbox EXCEPT ![c] = <<>>]
        /\ UNCHANGED <<peer, sent, wire, got, descriptor, write_buffer, pending, blocked, executed, said>>
    BY DEF Read, history
  <1>2. read_buffer[c] \in Seq(Nat) /\ inbox[c] \in Seq(Nat)
    BY <1>1 DEF TypeInv, KernelType, HandlerType
  <1>3. /\ read_buffer'[c] = read_buffer[c] \o inbox[c] /\ inbox'[c] = <<>>
        /\ \A d \in Conn : d # c => read_buffer'[d] = read_buffer[d] /\ inbox'[d] = inbox[d]
    BY <1>1 DEF TypeInv, KernelType, HandlerType
  <1>5. CommandsInv'
    <2>1. SUFFICES ASSUME NEW d \in Conn PROVE CommandsAt(d)'
      BY DEF CommandsInv
    <2>2. CASE d # c
      BY <1>1, <1>3, <2>2, CommandsFrame DEF SessionInv, CommandsInv
    <2>3. CASE d = c
      <3>0. PICK e, r, n, s \in Nat : CommandsCount(c, e, r, n, s)
        BY <1>1, CommandsElim DEF SessionInv, CommandsInv
      <3>1. /\ executed[c] = e /\ Len(read_buffer[c]) = r /\ Len(inbox[c]) = n /\ Len(sent[c]) = s
            /\ \A i \in 1..r : read_buffer[c][i] = e + i
            /\ \A i \in 1..n : inbox[c][i] = e + r + i
            /\ e + r + n <= s
            /\ peer[c] \in {"none", "connected"} => e + r + n = s
        BY <3>0 DEF CommandsCount
      <3>2. /\ Len(read_buffer'[c]) = r + n /\ Len(inbox'[c]) = 0
            /\ \A i \in 1..r + n : read_buffer'[c][i] =
                  IF i <= r THEN read_buffer[c][i] ELSE inbox[c][i - r]
        <4>1. /\ read_buffer'[c] = read_buffer[c] \o inbox[c] /\ inbox'[c] = <<>>
              /\ Len(read_buffer[c]) = r /\ Len(inbox[c]) = n
          BY <1>3, <3>1
        <4>2. /\ Len(read_buffer[c] \o inbox[c]) = r + n
              /\ \A i \in 1..r + n : (read_buffer[c] \o inbox[c])[i] =
                    IF i <= r THEN read_buffer[c][i] ELSE inbox[c][i - r]
          <5>1. /\ Len(read_buffer[c] \o inbox[c]) = Len(read_buffer[c]) + Len(inbox[c])
                /\ \A i \in 1..Len(read_buffer[c]) + Len(inbox[c]) : (read_buffer[c] \o inbox[c])[i] =
                      IF i <= Len(read_buffer[c]) THEN read_buffer[c][i]
                      ELSE inbox[c][i - Len(read_buffer[c])]
            BY <1>2, ConcatProperties
          <5>. QED  BY <4>1, <5>1
        <4>3. Len(<<>>) = 0
          OBVIOUS
        <4>. QED  BY <4>1, <4>2, <4>3
      <3>3. ASSUME NEW i \in 1..r + n PROVE read_buffer'[c][i] = e + i
        <4>1. CASE i <= r
          <5>1. i \in 1..r
            BY <4>1
          <5>. QED  BY <3>1, <3>2, <4>1, <5>1
        <4>2. CASE ~ (i <= r)
          <5>1. i - r \in 1..n /\ e + r + (i - r) = e + i
            BY <4>2
          <5>. QED  BY <3>1, <3>2, <4>2, <5>1
        <4>. QED  BY <4>1, <4>2
      <3>4. e + (r + n) + 0 = s /\ e + (r + n) + 0 <= s
        BY <1>1, <3>1
      <3>5. /\ executed'[c] = e /\ Len(sent'[c]) = s /\ r + n \in Nat /\ 0 \in Nat
            /\ \A i \in 1..0 : inbox'[c][i] = e + (r + n) + i
        BY <1>1, <3>1
      <3>6. CommandsCount(c, e, r + n, 0, s)'
        BY <3>2, <3>3, <3>4, <3>5 DEF CommandsCount
      <3>. QED  BY <2>3, <3>5, <3>6, CommandsIntro
    <2>. QED  BY <2>2, <2>3
  <1>6. RepliesInv'
    BY <1>1, RepliesFrame DEF SessionInv, RepliesInv
  <1>7. BlockedInv'
    BY <1>1 DEF SessionInv, BlockedInv
  <1>. QED  BY <1>1, <1>5, <1>6, <1>7 DEF SessionInv, Promised

(* What a connection still had in its buffers when it is closed is not     *)
(* executed and not received, and no one else gets it.                     *)
LEMMA CloseSession ==
    ASSUME TypeInv, SessionInv, NEW c \in Conn, Close(c), UNCHANGED <<blocked, executed, said>>,
           peer[c] \notin {"none", "connected"}
    PROVE  SessionInv' /\ Promised
  <1>1. /\ descriptor'[c] = NoFd /\ read_buffer'[c] = <<>> /\ write_buffer'[c] = <<>>
        /\ pending'[c] = <<>> /\ inbox'[c] = <<>> /\ wire'[c] = <<>>
        /\ UNCHANGED <<peer, sent, got>>
    BY DEF Close, TypeInv, KernelType, HandlerType
  <1>2. \A d \in Conn : d # c =>
          /\ descriptor'[d] = descriptor[d] /\ read_buffer'[d] = read_buffer[d]
          /\ write_buffer'[d] = write_buffer[d] /\ pending'[d] = pending[d]
          /\ inbox'[d] = inbox[d] /\ wire'[d] = wire[d]
    BY DEF Close, TypeInv, KernelType, HandlerType
  <1>3. Len(<<>>) = 0
    OBVIOUS
  <1>4. CommandsInv'
    <2>1. SUFFICES ASSUME NEW d \in Conn PROVE CommandsAt(d)'
      BY DEF CommandsInv
    <2>2. CASE d # c
      BY <1>1, <1>2, <2>2, CommandsFrame DEF SessionInv, CommandsInv
    <2>3. CASE d = c
      <3>1. PICK e, r, n, s \in Nat : CommandsCount(c, e, r, n, s)
        BY CommandsElim DEF SessionInv, CommandsInv
      <3>2. executed[c] = e /\ Len(sent[c]) = s /\ e + r + n <= s
        BY <3>1 DEF CommandsCount
      <3>3. e + 0 + 0 <= s
        BY <3>2
      <3>4. CommandsCount(c, e, 0, 0, s)'
        BY <1>1, <1>3, <3>2, <3>3 DEF CommandsCount
      <3>. QED  BY <2>3, <3>4, CommandsIntro
    <2>. QED  BY <2>2, <2>3
  <1>5. RepliesInv'
    <2>1. SUFFICES ASSUME NEW d \in Conn PROVE RepliesAt(d)'
      BY DEF RepliesInv
    <2>2. CASE d # c
      BY <1>1, <1>2, <2>2, RepliesFrame DEF SessionInv, RepliesInv
    <2>3. CASE d = c
      <3>1. PICK g, w, b, p, s \in Nat : RepliesCount(c, g, w, b, p, s)
        BY RepliesElim DEF SessionInv, RepliesInv
      <3>2. /\ Len(got[c]) = g /\ Len(said[c]) = s /\ g + w + b + p <= s
            /\ \A i \in 1..g : got[c][i] = said[c][i]
        BY <3>1 DEF RepliesCount
      <3>3. g + 0 + 0 + 0 <= s
        BY <3>2
      <3>4. RepliesCount(c, g, 0, 0, 0, s)'
        BY <1>1, <1>3, <3>2, <3>3 DEF RepliesCount
      <3>. QED  BY <2>3, <3>4, RepliesIntro
    <2>. QED  BY <2>2, <2>3
  <1>6. BlockedInv'
    BY DEF SessionInv, BlockedInv
  <1>. QED  BY <1>1, <1>4, <1>5, <1>6 DEF SessionInv, Promised

LEMMA EndKeeps ==
    ASSUME TypeInv, StepInv, SessionInv, HandleError \/ ReadEnd
    PROVE  SessionInv' /\ Promised
  <1>1. /\ DueConn \in Conn /\ due # <<>> /\ Close(DueConn) /\ UNCHANGED <<blocked, executed, said>>
        /\ Head(due).event = "err" \/ peer[DueConn] # "connected"
    BY DEF HandleError, ReadEnd, Dispatches, history
  <1>2. descriptor[DueConn] # NoFd /\ DueFd \in Fd
    BY <1>1, DueAlive DEF Registered
  <1>3. peer[DueConn] # "none"
    BY <1>1, <1>2 DEF StepInv, BacklogInv, Fresh
  <1>4. peer[DueConn] # "connected"
    <2>1. CASE Head(due).event = "err"
      <3>1. 1 \in 1..Len(due) /\ Head(due) = due[1] /\ DueFd # NoFd
        BY <1>1, <1>2 DEF TypeInv, LoopType, Fd, NoFd
      <3>2. DueConn = registered[fds[due[1].pos].fd].conn /\ DueFd = fds[due[1].pos].fd
        BY <3>1 DEF DueConn, DueFd
      <3>. QED  BY <2>1, <3>1, <3>2, DueNow
    <2>. QED  BY <1>1, <2>1
  <1>. QED  BY <1>1, <1>3, <1>4, CloseSession

(* A reply is given to a connection that is there.                         *)
LEMMA SaidMore ==
    ASSUME TypeInv, NEW d \in Conn, NEW x \in Replies, said' = [said EXCEPT ![d] = Append(@, x)]
    PROVE  /\ Len(said'[d]) = Len(said[d]) + 1 /\ said'[d][Len(said[d]) + 1] = x
           /\ \A i \in 1..Len(said[d]) : said'[d][i] = said[d][i]
           /\ \A e \in Conn : \A i \in 1..Len(said'[e]) :
                 said'[e][i] = x \/ \E j \in 1..Len(said[e]) : said'[e][i] = said[e][j]
  <1>1. said[d] \in Seq(Replies) /\ said'[d] = Append(said[d], x) /\ Len(said[d]) \in Nat
        /\ \A e \in Conn : e # d => said'[e] = said[e]
    BY DEF TypeInv, HandlerType
  <1>2. /\ Len(said'[d]) = Len(said[d]) + 1 /\ said'[d][Len(said[d]) + 1] = x
        /\ \A i \in 1..Len(said[d]) : said'[d][i] = said[d][i]
    BY <1>1, AppendProperties
  <1>3. \A i \in 1..Len(said[d]) + 1 : i = Len(said[d]) + 1 \/ i \in 1..Len(said[d])
    BY <1>1
  <1>4. ASSUME NEW e \in Conn, NEW i \in 1..Len(said'[e])
        PROVE  said'[e][i] = x \/ \E j \in 1..Len(said[e]) : said'[e][i] = said[e][j]
    <2>1. CASE e = d
      BY <1>2, <1>3, <2>1
    <2>2. CASE e # d
      BY <1>1, <2>2
    <2>. QED  BY <2>1, <2>2
  <1>. QED  BY <1>2, <1>4

LEMMA SaysKeeps ==
    ASSUME TypeInv, RepliesInv, NEW d \in Conn, NEW x \in Replies, descriptor[d] # NoFd,
           pending' = [pending EXCEPT ![d] = Append(@, x)],
           said' = [said EXCEPT ![d] = Append(@, x)],
           UNCHANGED <<got, wire, write_buffer, descriptor>>
    PROVE  RepliesInv'
  <1>1. SUFFICES ASSUME NEW e \in Conn PROVE RepliesAt(e)'
    BY DEF RepliesInv
  <1>2. CASE e # d
    <2>1. said'[e] = said[e] /\ pending'[e] = pending[e]
      BY <1>2 DEF TypeInv, HandlerType
    <2>. QED  BY <2>1, RepliesFrame DEF RepliesInv
  <1>3. CASE e = d
    <2>1. PICK g, w, b, p, s \in Nat : RepliesCount(d, g, w, b, p, s)
      BY RepliesElim DEF RepliesInv
    <2>2. /\ Len(got[d]) = g /\ Len(wire[d]) = w /\ Len(write_buffer[d]) = b
          /\ Len(pending[d]) = p /\ Len(said[d]) = s
          /\ \A i \in 1..g : got[d][i] = said[d][i]
          /\ \A i \in 1..w : wire[d][i] = said[d][g + i]
          /\ \A i \in 1..b : write_buffer[d][i] = said[d][g + w + i]
          /\ \A i \in 1..p : pending[d][i] = said[d][g + w + b + i]
          /\ g + w + b + p = s
      BY <2>1 DEF RepliesCount
    <2>3. /\ Len(said'[d]) = s + 1 /\ said'[d][s + 1] = x
          /\ \A i \in 1..s : said'[d][i] = said[d][i]
      <3>1. /\ Len(said'[d]) = Len(said[d]) + 1 /\ said'[d][Len(said[d]) + 1] = x
            /\ \A i \in 1..Len(said[d]) : said'[d][i] = said[d][i]
        BY SaidMore, Zenon
      <3>. QED  BY <2>2, <3>1
    <2>4. /\ Len(pending'[d]) = p + 1 /\ pending'[d][p + 1] = x
          /\ \A i \in 1..p : pending'[d][i] = pending[d][i]
      <3>1. pending[d] \in Seq(Replies) /\ pending'[d] = Append(pending[d], x)
        BY DEF TypeInv, HandlerType
      <3>. QED  BY <2>2, <3>1, AppendProperties
    <2>5. \A i \in 1..g : i \in 1..s
      BY <2>2
    <2>6. \A i \in 1..w : g + i \in 1..s
      BY <2>2
    <2>7. \A i \in 1..b : g + w + i \in 1..s
      BY <2>2
    <2>8. \A i \in 1..p : g + w + b + i \in 1..s
      BY <2>2
    <2>9. ASSUME NEW i \in 1..p + 1 PROVE pending'[d][i] = said'[d][g + w + b + i]
      <3>1. CASE i = p + 1
        <4>1. g + w + b + i = s + 1
          BY <2>2, <3>1
        <4>. QED  BY <2>3, <2>4, <3>1, <4>1
      <3>2. CASE i # p + 1
        <4>1. i \in 1..p
          BY <3>2
        <4>. QED  BY <2>2, <2>3, <2>4, <2>8, <4>1
      <3>. QED  BY <3>1, <3>2
    <2>10. g + w + b + (p + 1) = s + 1 /\ g + w + b + (p + 1) <= s + 1
      BY <2>2
    <2>11. /\ \A i \in 1..g : got'[d][i] = said'[d][i]
           /\ \A i \in 1..w : wire'[d][i] = said'[d][g + i]
           /\ \A i \in 1..b : write_buffer'[d][i] = said'[d][g + w + i]
      BY <2>2, <2>3, <2>5, <2>6, <2>7
    <2>12. RepliesCount(d, g, w, b, p + 1, s + 1)'
      BY <2>2, <2>3, <2>4, <2>9, <2>10, <2>11 DEF RepliesCount
    <2>13. p + 1 \in Nat /\ s + 1 \in Nat
      OBVIOUS
    <2>. QED  BY <1>3, <2>12, <2>13, RepliesIntro
  <1>. QED  BY <1>2, <1>3

(* Commands are executed in the order they were read, each of them once.   *)
LEMMA ListenKeeps ==
    ASSUME TypeInv, StepInv, SessionInv, NEW c \in Conn, Listen(c)
    PROVE  SessionInv' /\ Promised
  <1>. DEFINE k == Head(read_buffer[c])
              x == Reply(c, k)
  <1>1. /\ running.conn = c /\ read_buffer[c] # <<>>
        /\ read_buffer' = [read_buffer EXCEPT ![c] = Tail(@)]
        /\ executed' = [executed EXCEPT ![c] = k]
        /\ UNCHANGED <<peer, sent, inbox, wire, got, descriptor, write_buffer>>
    BY DEF Listen, Runs, kernel
  <1>2. \/ /\ pending' = [pending EXCEPT ![c] = Append(@, x)]
           /\ said' = [said EXCEPT ![c] = Append(@, x)] /\ UNCHANGED blocked
        \/ blocked' = [blocked EXCEPT ![c] = @ \cup {k}] /\ UNCHANGED <<said, pending>>
    BY DEF Listen, Says
  <1>3. descriptor[c] # NoFd
    BY <1>1, RunsAlive DEF Registered
  <1>4. PICK e, r, n, s \in Nat : CommandsCount(c, e, r, n, s)
    BY CommandsElim DEF SessionInv, CommandsInv
  <1>5. /\ executed[c] = e /\ Len(read_buffer[c]) = r /\ Len(inbox[c]) = n /\ Len(sent[c]) = s
        /\ \A i \in 1..r : read_buffer[c][i] = e + i
        /\ \A i \in 1..n : inbox[c][i] = e + r + i
        /\ e + r + n <= s
        /\ peer[c] \in {"none", "connected"} => e + r + n = s
    BY <1>4 DEF CommandsCount
  <1>6. /\ k = read_buffer[c][1] /\ r >= 1
        /\ Len(Tail(read_buffer[c])) = r - 1
        /\ \A i \in 1..r - 1 : Tail(read_buffer[c])[i] = read_buffer[c][i + 1]
    <2>1. read_buffer[c] \in Seq(Nat)
      BY DEF TypeInv, HandlerType
    <2>2. /\ Head(read_buffer[c]) = read_buffer[c][1] /\ Len(read_buffer[c]) >= 1
          /\ Len(Tail(read_buffer[c])) = Len(read_buffer[c]) - 1
          /\ \A i \in 1..Len(Tail(read_buffer[c])) : Tail(read_buffer[c])[i] = read_buffer[c][i + 1]
      BY <1>1, <2>1, HeadTailProperties
    <2>. QED  BY <1>5, <2>2
  <1>7. k = e + 1 /\ k \in Nat /\ k <= s
    <2>1. 1 \in 1..r /\ e + 1 <= s
      BY <1>5, <1>6
    <2>. QED  BY <1>5, <1>6, <2>1
  <1>8. x = Reply(c, e + 1) /\ x \in Replies /\ x.conn = c /\ x.command = e + 1
    BY <1>7 DEF Reply, Replies
  <1>. HIDE DEF k, x
  <1>9. executed'[c] = e + 1 /\ \A d \in Conn : d # c => executed'[d] = executed[d]
    BY <1>1, <1>7 DEF TypeInv, HandlerType
  <1>10. CommandsInv'
    <2>1. SUFFICES ASSUME NEW d \in Conn PROVE CommandsAt(d)'
      BY DEF CommandsInv
    <2>2. CASE d # c
      <3>1. read_buffer'[d] = read_buffer[d]
        BY <1>1, <2>2 DEF TypeInv, HandlerType
      <3>. QED  BY <1>1, <1>9, <2>2, <3>1, CommandsFrame DEF SessionInv, CommandsInv
    <2>3. CASE d = c
      <3>1. read_buffer'[c] = Tail(read_buffer[c])
        BY <1>1 DEF TypeInv, HandlerType
      <3>2. ASSUME NEW i \in 1..r - 1 PROVE read_buffer'[c][i] = (e + 1) + i
        <4>1. i + 1 \in 1..r /\ e + (i + 1) = (e + 1) + i
          BY <1>6
        <4>2. read_buffer[c][i + 1] = e + (i + 1)
          BY <1>5, <4>1
        <4>. QED  BY <1>6, <3>1, <4>1, <4>2
      <3>3. (e + 1) + (r - 1) = e + r /\ r - 1 \in Nat /\ e + 1 \in Nat
        BY <1>6
      <3>4. CommandsCount(c, e + 1, r - 1, n, s)'
        <4>1. /\ Len(read_buffer'[c]) = r - 1 /\ Len(inbox'[c]) = n /\ Len(sent'[c]) = s
              /\ peer'[c] = peer[c]
              /\ \A i \in 1..n : inbox'[c][i] = (e + 1) + (r - 1) + i
          <5>1. inbox' = inbox /\ sent' = sent /\ peer' = peer
            BY <1>1
          <5>2. \A i \in 1..n : inbox[c][i] = (e + 1) + (r - 1) + i
            BY <1>5, <3>3
          <5>. QED  BY <1>5, <1>6, <3>1, <5>1, <5>2
        <4>2. /\ (e + 1) + (r - 1) + n <= s
              /\ peer[c] \in {"none", "connected"} => (e + 1) + (r - 1) + n = s
          BY <1>5, <3>3
        <4>. QED  BY <1>9, <3>2, <4>1, <4>2 DEF CommandsCount
      <3>. QED  BY <2>3, <3>3, <3>4, CommandsIntro
    <2>. QED  BY <2>2, <2>3
  <1>11. RepliesInv'
    <2>1. CASE UNCHANGED <<said, pending>>
      BY <1>1, <2>1, RepliesFrame DEF SessionInv, RepliesInv
    <2>2. CASE /\ pending' = [pending EXCEPT ![c] = Append(@, x)]
               /\ said' = [said EXCEPT ![c] = Append(@, x)]
      BY <1>1, <1>3, <1>8, <2>2, SaysKeeps DEF SessionInv
    <2>. QED  BY <1>2, <2>1, <2>2
  <1>12. \A d \in Conn : executed[d] \in Nat /\ executed'[d] \in Nat /\ executed[d] <= executed'[d]
    <2>1. SUFFICES ASSUME NEW d \in Conn
                   PROVE  executed[d] \in Nat /\ executed'[d] \in Nat /\ executed[d] <= executed'[d]
      OBVIOUS
    <2>2. executed[d] \in Nat
      BY DEF TypeInv, HandlerType
    <2>3. e + 1 \in Nat /\ e <= e + 1
      OBVIOUS
    <2>4. CASE d = c
      BY <1>5, <1>9, <2>2, <2>3, <2>4
    <2>5. CASE d # c
      BY <1>9, <2>2, <2>5
    <2>. QED  BY <2>4, <2>5
  <1>13. \A d \in Conn : \A i \in 1..Len(said[d]) : said[d][i] \in Replies
    BY DEF TypeInv, HandlerType
  <1>14. ASSUME NEW d \in Conn, NEW i \in 1..Len(said[d])
         PROVE  /\ said[d][i].conn \in Conn /\ said[d][i].command \in Nat
                /\ said[d][i].command <= executed[said[d][i].conn]
                /\ said[d][i] # Reply(c, e + 1)
    <2>1. said[d][i].conn \in Conn /\ said[d][i].command \in Nat
      BY <1>13 DEF Replies
    <2>2. said[d][i].command <= executed[said[d][i].conn]
      BY DEF SessionInv, BlockedInv
    <2>3. ~ (e + 1 <= e)
      OBVIOUS
    <2>. QED  BY <1>5, <2>1, <2>2, <2>3 DEF Reply
  <1>15. BlockedInv'
    <2>1. CASE blocked' = [blocked EXCEPT ![c] = @ \cup {k}] /\ UNCHANGED said
      <3>1. ASSUME NEW d \in Conn, NEW m \in blocked'[d]
            PROVE  /\ m \in 1..executed'[d]
                   /\ \A f \in Conn : \A i \in 1..Len(said[f]) : said[f][i] # Reply(d, m)
        <4>1. m \in blocked[d] \/ (d = c /\ m = e + 1)
          BY <1>7, <2>1, <3>1 DEF TypeInv, HandlerType
        <4>2. CASE m \in blocked[d]
          <5>1. /\ m \in 1..executed[d]
                /\ \A f \in Conn : \A i \in 1..Len(said[f]) : said[f][i] # Reply(d, m)
            BY <4>2 DEF SessionInv, BlockedInv
          <5>. QED  BY <1>12, <5>1
        <4>3. CASE d = c /\ m = e + 1
          <5>1. e + 1 \in 1..e + 1
            OBVIOUS
          <5>. QED  BY <1>9, <1>14, <4>3, <5>1
        <4>. QED  BY <4>1, <4>2, <4>3
      <3>2. ASSUME NEW d \in Conn, NEW i \in 1..Len(said[d])
            PROVE  said[d][i].command <= executed'[said[d][i].conn]
        BY <1>12, <1>14
      <3>. QED  BY <2>1, <3>1, <3>2 DEF BlockedInv
    <2>2. CASE said' = [said EXCEPT ![c] = Append(@, x)] /\ UNCHANGED blocked
      <3>1. \A d \in Conn : \A i \in 1..Len(said'[d]) :
               said'[d][i] = x \/ \E j \in 1..Len(said[d]) : said'[d][i] = said[d][j]
        <4>1. said' = [said EXCEPT ![c] = Append(@, x)] /\ x \in Replies
          BY <1>8, <2>2
        <4>. QED  BY <4>1, SaidMore, Zenon
      <3>2. ASSUME NEW d \in Conn, NEW m \in blocked[d]
            PROVE  /\ m \in 1..executed'[d]
                   /\ \A f \in Conn : \A i \in 1..Len(said'[f]) : said'[f][i] # Reply(d, m)
        <4>1. /\ m \in 1..executed[d]
              /\ \A f \in Conn : \A i \in 1..Len(said[f]) : said[f][i] # Reply(d, m)
          BY DEF SessionInv, BlockedInv
        <4>2. x # Reply(d, m)
          <5>1. ~ (e + 1 \in 1..e)
            OBVIOUS
          <5>2. Reply(d, m).conn = d /\ Reply(d, m).command = m
            BY DEF Reply
          <5>3. SUFFICES ASSUME x = Reply(d, m) PROVE FALSE
            OBVIOUS
          <5>4. d = c /\ m = e + 1
            BY <1>8, <5>2, <5>3
          <5>. QED  BY <1>5, <4>1, <5>1, <5>4
        <4>3. m \in 1..executed'[d]
          BY <1>12, <4>1
        <4>4. ASSUME NEW f \in Conn, NEW i \in 1..Len(said'[f]) PROVE said'[f][i] # Reply(d, m)
          <5>1. CASE said'[f][i] = x
            BY <4>2, <5>1
          <5>2. ASSUME NEW j \in 1..Len(said[f]), said'[f][i] = said[f][j]
                PROVE  said'[f][i] # Reply(d, m)
            BY <4>1, <5>2
          <5>. QED  BY <3>1, <5>1, <5>2
        <4>. QED  BY <4>3, <4>4
      <3>3. ASSUME NEW d \in Conn, NEW i \in 1..Len(said'[d])
            PROVE  said'[d][i].command <= executed'[said'[d][i].conn]
        <4>1. CASE said'[d][i] = x
          <5>1. e + 1 <= e + 1
            OBVIOUS
          <5>. QED  BY <1>8, <1>9, <4>1, <5>1
        <4>2. ASSUME NEW j \in 1..Len(said[d]), said'[d][i] = said[d][j]
              PROVE  said'[d][i].command <= executed'[said'[d][i].conn]
          <5>1. /\ said[d][j].conn \in Conn /\ said[d][j].command \in Nat
                /\ said[d][j].command <= executed[said[d][j].conn]
            BY <1>14
          <5>2. said[d][j].command <= executed'[said[d][j].conn]
            BY <1>12, <5>1
          <5>. QED  BY <4>2, <5>2
        <4>. QED  BY <3>1, <4>1, <4>2
      <3>. QED  BY <2>2, <3>2, <3>3 DEF BlockedInv
    <2>. QED  BY <1>2, <2>1, <2>2
  <1>16. Promise!Execute(c)
    <2>1. executed[c] < Len(sent[c])
      BY <1>5, <1>7
    <2>2. executed' = [executed EXCEPT ![c] = executed[c] + 1]
      BY <1>1, <1>5, <1>7
    <2>3. x = Promise!Reply(c, executed[c] + 1)
      BY <1>5, <1>8 DEF Reply, Promise!Reply
    <2>4. \/ said' = [said EXCEPT ![c] = Append(@, Promise!Reply(c, executed[c] + 1))]
          \/ UNCHANGED said
      BY <1>2, <2>3
    <2>. QED  BY <1>1, <2>1, <2>2, <2>4, Zenon DEF Promise!Execute
  <1>17. Promise!SessionNext
    BY <1>16 DEF Promise!SessionNext
  <1>. QED  BY <1>10, <1>11, <1>15, <1>17 DEF SessionInv, Promised

(* A command that was blocked is answered once, and only that to a WAIT    *)
(* may reach another connection than the one it came from.                 *)
LEMMA AnswerKeeps ==
    ASSUME TypeInv, StepInv, SessionInv, NEW c \in Conn, NEW n \in blocked[c], Answer(c, n)
    PROVE  SessionInv' /\ Promised
  <1>. DEFINE x == Reply(c, n)
  <1>1. /\ blocked' = [blocked EXCEPT ![c] = @ \ {n}]
        /\ UNCHANGED <<peer, sent, inbox, wire, got, descriptor, read_buffer, write_buffer, executed>>
    BY DEF Answer, kernel
  <1>2. /\ n \in 1..executed[c] /\ n \in Nat
        /\ \A d \in Conn : \A i \in 1..Len(said[d]) : said[d][i] # Reply(c, n)
    BY DEF SessionInv, BlockedInv, TypeInv, HandlerType
  <1>3. \A d \in Conn : blocked'[d] = IF d = c THEN blocked[c] \ {n} ELSE blocked[d]
    BY <1>1 DEF TypeInv, HandlerType
  <1>4. CommandsInv'
    BY <1>1, CommandsFrame DEF SessionInv, CommandsInv
  <1>5. CASE UNCHANGED <<pending, said>>
    <2>1. RepliesInv'
      BY <1>1, <1>5, RepliesFrame DEF SessionInv, RepliesInv
    <2>2. BlockedInv'
      BY <1>1, <1>3, <1>5 DEF SessionInv, BlockedInv
    <2>. QED  BY <1>1, <1>4, <1>5, <2>1, <2>2 DEF SessionInv, Promised
  <1>6. ASSUME NEW d \in Conn, Alive(d), d = c \/ sent[c][n] = "waits",
               pending' = [pending EXCEPT ![d] = Append(@, x)],
               said' = [said EXCEPT ![d] = Append(@, x)]
        PROVE  SessionInv' /\ Promised
    <2>1. x \in Replies /\ x.conn = c /\ x.command = n
      BY <1>2 DEF Reply, Replies
    <2>2. descriptor[d] # NoFd
      BY <1>6, AliveHas
    <2>. HIDE DEF x
    <2>3. RepliesInv'
      BY <1>1, <1>6, <2>1, <2>2, SaysKeeps DEF SessionInv
    <2>4. \A e \in Conn : \A i \in 1..Len(said'[e]) :
             said'[e][i] = x \/ \E j \in 1..Len(said[e]) : said'[e][i] = said[e][j]
      <3>1. said' = [said EXCEPT ![d] = Append(@, x)] /\ x \in Replies
        BY <1>6, <2>1
      <3>. QED  BY <3>1, SaidMore, Zenon
    <2>5. BlockedInv'
      <3>1. ASSUME NEW e \in Conn, NEW m \in blocked'[e]
            PROVE  /\ m \in 1..executed[e]
                   /\ \A f \in Conn : \A i \in 1..Len(said'[f]) : said'[f][i] # Reply(e, m)
        <4>1. m \in blocked[e] /\ (e = c => m # n)
          BY <1>3, <3>1
        <4>2. /\ m \in 1..executed[e]
              /\ \A f \in Conn : \A i \in 1..Len(said[f]) : said[f][i] # Reply(e, m)
          BY <4>1 DEF SessionInv, BlockedInv
        <4>3. x # Reply(e, m)
          BY <2>1, <4>1 DEF Reply
        <4>. QED  BY <2>4, <4>2, <4>3
      <3>2. ASSUME NEW e \in Conn, NEW i \in 1..Len(said'[e])
            PROVE  said'[e][i].command <= executed[said'[e][i].conn]
        <4>1. executed[c] \in Nat /\ n <= executed[c]
          BY <1>2 DEF TypeInv, HandlerType
        <4>. QED  BY <2>1, <2>4, <4>1 DEF SessionInv, BlockedInv
      <3>. QED  BY <1>1, <3>1, <3>2 DEF BlockedInv
    <2>6. Promise!AnswerLater(d, c, n)
      <3>1. x = Promise!Reply(c, n)
        BY DEF x, Reply, Promise!Reply
      <3>2. DOMAIN said[d] = 1..Len(said[d])
        BY DEF TypeInv, HandlerType
      <3>3. \A i \in DOMAIN said[d] : said[d][i] # Promise!Reply(c, n)
        BY <1>2, <3>1, <3>2 DEF x
      <3>. QED  BY <1>1, <1>2, <1>6, <3>1, <3>3 DEF Promise!AnswerLater
    <2>7. Promise!SessionNext
      BY <1>2, <2>6 DEF Promise!SessionNext
    <2>. QED  BY <1>4, <2>3, <2>5, <2>7 DEF SessionInv, Promised
  <1>7. \/ UNCHANGED <<pending, said>>
        \/ \E d \in Conn : /\ Alive(d) /\ (d = c \/ sent[c][n] = "waits")
                           /\ pending' = [pending EXCEPT ![d] = Append(@, x)]
                           /\ said' = [said EXCEPT ![d] = Append(@, x)]
    <2>1. heirs[c] \in SUBSET Conn /\ None \notin Conn
      BY ConnectionsAssumption DEF TypeInv, HandlerType
    <2>2. \A d \in Reached(c, sent[c][n]) :
             d = None \/ (d \in Conn /\ d # None /\ Alive(d) /\ (d = c \/ sent[c][n] = "waits"))
      BY <2>1 DEF Reached
    <2>. HIDE DEF x
    <2>3. \/ UNCHANGED <<pending, said>>
          \/ \E d \in Reached(c, sent[c][n]) :
                /\ pending' = IF d = None THEN pending ELSE [pending EXCEPT ![d] = Append(@, x)]
                /\ said' = IF d = None THEN said ELSE [said EXCEPT ![d] = Append(@, x)]
      BY DEF Answer, x
    <2>. QED  BY <2>2, <2>3
  <1>. QED  BY <1>5, <1>6, <1>7

(* The replies of a connection, of which one is put into the buffer or     *)
(* none, before it is written.                                             *)
Buffered(c, buffer, g, w, b, p, s) ==
    /\ Len(got[c]) = g /\ Len(wire[c]) = w /\ Len(buffer) = b /\ Len(pending'[c]) = p
    /\ Len(said[c]) = s
    /\ \A i \in 1..g : got[c][i] = said[c][i]
    /\ \A i \in 1..w : wire[c][i] = said[c][g + i]
    /\ \A i \in 1..b : buffer[i] = said[c][g + w + i]
    /\ \A i \in 1..p : pending'[c][i] = said[c][g + w + b + i]
    /\ g + w + b + p <= s
    /\ descriptor[c] # NoFd => g + w + b + p = s
    /\ \A d \in Conn : d # c => pending'[d] = pending[d]
    /\ UNCHANGED <<got, said, descriptor>>

(* What the socket has room for is taken from the front of the buffer.     *)
LEMMA WriteReplies ==
    ASSUME TypeInv, RepliesInv, NEW c \in Conn, NEW buffer \in Seq(Replies), Write(c, buffer),
           NEW g \in Nat, NEW w \in Nat, NEW b \in Nat, NEW p \in Nat, NEW s \in Nat,
           Buffered(c, buffer, g, w, b, p, s)
    PROVE  RepliesInv'
  <1>0. /\ Len(got[c]) = g /\ Len(wire[c]) = w /\ Len(buffer) = b /\ Len(pending'[c]) = p
        /\ Len(said[c]) = s
        /\ \A i \in 1..g : got[c][i] = said[c][i]
        /\ \A i \in 1..w : wire[c][i] = said[c][g + i]
        /\ \A i \in 1..b : buffer[i] = said[c][g + w + i]
        /\ \A i \in 1..p : pending'[c][i] = said[c][g + w + b + i]
        /\ g + w + b + p <= s
        /\ descriptor[c] # NoFd => g + w + b + p = s
        /\ \A d \in Conn : d # c => pending'[d] = pending[d]
        /\ UNCHANGED <<got, said, descriptor>>
    BY DEF Buffered
  <1>1. wire[c] \in Seq(Replies) /\ w <= Capacity /\ Capacity - w \in Nat
    BY <1>0, ConnectionsAssumption DEF TypeInv, KernelType
  <1>10. PICK k \in Nat : k = Min({Capacity - Len(wire[c]), Len(buffer)}) /\ k <= b
    BY <1>0, <1>1, Min2
  <1>2. k \in Nat /\ k <= b
    BY <1>10
  <1>. DEFINE now == SubSeq(buffer, 1, k)
              rest == SubSeq(buffer, k + 1, Len(buffer))
  <1>3. /\ wire' = [wire EXCEPT ![c] = @ \o now]
        /\ write_buffer' = [write_buffer EXCEPT ![c] = rest]
    BY <1>10 DEF Write
  <1>4. \A i \in 1..b : buffer[i] \in Replies
    BY <1>0
  <1>5. now \in Seq(Replies) /\ Len(now) = k /\ \A i \in 1..k : now[i] = buffer[i]
    <2>1. \A i \in 1..k : buffer[i] \in Replies
      BY <1>2, <1>4
    <2>2. /\ SubSeq(buffer, 1, k) \in Seq(Replies)
          /\ Len(SubSeq(buffer, 1, k)) = IF 1 <= k THEN k - 1 + 1 ELSE 0
          /\ \A i \in 1..k - 1 + 1 : SubSeq(buffer, 1, k)[i] = buffer[1 + i - 1]
      BY <1>2, <2>1, SubSeqProperties
    <2>3. (IF 1 <= k THEN k - 1 + 1 ELSE 0) = k /\ k - 1 + 1 = k /\ \A i \in 1..k : 1 + i - 1 = i
      BY <1>2
    <2>. QED  BY <2>2, <2>3
  <1>6. /\ rest \in Seq(Replies) /\ Len(rest) = b - k /\ b - k \in Nat
        /\ \A i \in 1..b - k : rest[i] = buffer[k + i]
    <2>1. \A i \in k + 1..b : buffer[i] \in Replies
      BY <1>2, <1>4
    <2>2. /\ SubSeq(buffer, k + 1, b) \in Seq(Replies)
          /\ Len(SubSeq(buffer, k + 1, b)) = IF k + 1 <= b THEN b - (k + 1) + 1 ELSE 0
          /\ \A i \in 1..b - (k + 1) + 1 : SubSeq(buffer, k + 1, b)[i] = buffer[k + 1 + i - 1]
      BY <1>2, <2>1, SubSeqProperties
    <2>3. /\ (IF k + 1 <= b THEN b - (k + 1) + 1 ELSE 0) = b - k /\ b - (k + 1) + 1 = b - k
          /\ b - k \in Nat /\ \A i \in 1..b - k : k + 1 + i - 1 = k + i
      BY <1>2
    <2>. QED  BY <1>0, <2>2, <2>3
  <1>. HIDE DEF now, rest
  <1>7. SUFFICES ASSUME NEW d \in Conn PROVE RepliesAt(d)'
    BY DEF RepliesInv
  <1>8. CASE d # c
    <2>1. wire'[d] = wire[d] /\ write_buffer'[d] = write_buffer[d]
      BY <1>3, <1>8 DEF TypeInv, KernelType, HandlerType
    <2>. QED  BY <1>0, <1>8, <2>1, RepliesFrame DEF RepliesInv
  <1>9. CASE d = c
    <2>1. wire'[c] = wire[c] \o now /\ write_buffer'[c] = rest
      BY <1>3 DEF TypeInv, KernelType, HandlerType
    <2>2. /\ Len(wire[c] \o now) = w + k
          /\ \A i \in 1..w + k : (wire[c] \o now)[i] = IF i <= w THEN wire[c][i] ELSE now[i - w]
      <3>1. /\ Len(wire[c] \o now) = Len(wire[c]) + Len(now)
            /\ \A i \in 1..Len(wire[c]) + Len(now) : (wire[c] \o now)[i] =
                  IF i <= Len(wire[c]) THEN wire[c][i] ELSE now[i - Len(wire[c])]
        BY <1>1, <1>5, ConcatProperties
      <3>. QED  BY <1>0, <1>5, <3>1
    <2>3. ASSUME NEW i \in 1..w + k PROVE wire'[c][i] = said[c][g + i]
      <3>1. CASE i <= w
        <4>1. i \in 1..w
          BY <3>1
        <4>. QED  BY <1>0, <2>1, <2>2, <3>1, <4>1
      <3>2. CASE ~ (i <= w)
        <4>1. i - w \in 1..k /\ i - w \in 1..b /\ g + w + (i - w) = g + i
          BY <1>2, <3>2
        <4>2. now[i - w] = buffer[i - w] /\ buffer[i - w] = said[c][g + w + (i - w)]
          BY <1>0, <1>5, <4>1
        <4>. QED  BY <2>1, <2>2, <3>2, <4>1, <4>2
      <3>. QED  BY <3>1, <3>2
    <2>4. ASSUME NEW i \in 1..b - k PROVE write_buffer'[c][i] = said[c][g + (w + k) + i]
      <3>1. k + i \in 1..b /\ g + w + (k + i) = g + (w + k) + i
        BY <1>2, <1>6
      <3>2. buffer[k + i] = said[c][g + w + (k + i)]
        BY <1>0, <3>1
      <3>. QED  BY <1>6, <2>1, <3>1, <3>2
    <2>5. g + (w + k) + (b - k) = g + w + b /\ w + k \in Nat
      BY <1>2, <1>6
    <2>6. RepliesCount(c, g, w + k, b - k, p, s)'
      <3>1. /\ Len(got'[c]) = g /\ Len(wire'[c]) = w + k /\ Len(write_buffer'[c]) = b - k
            /\ Len(pending'[c]) = p /\ Len(said'[c]) = s
            /\ \A i \in 1..g : got'[c][i] = said'[c][i]
            /\ \A i \in 1..w + k : wire'[c][i] = said'[c][g + i]
            /\ \A i \in 1..b - k : write_buffer'[c][i] = said'[c][g + (w + k) + i]
        BY <1>0, <1>6, <2>1, <2>2, <2>3, <2>4
      <3>2. /\ \A i \in 1..p : pending'[c][i] = said'[c][g + (w + k) + (b - k) + i]
            /\ g + (w + k) + (b - k) + p <= s
            /\ descriptor'[c] # NoFd => g + (w + k) + (b - k) + p = s
        BY <1>0, <2>5
      <3>. QED  BY <3>1, <3>2 DEF RepliesCount
    <2>. QED  BY <1>6, <1>9, <2>5, <2>6, RepliesIntro
  <1>. QED  BY <1>8, <1>9

LEMMA SayKeeps ==
    ASSUME TypeInv, StepInv, SessionInv, NEW c \in Conn, Say(c)
    PROVE  SessionInv' /\ Promised
  <1>1. pending[c] # <<>> /\ running.conn = c /\ UNCHANGED <<blocked, executed, said>>
    BY DEF Say, Runs, history
  <1>2. ASSUME Write(c, Append(write_buffer[c], Head(pending[c]))),
               pending' = [pending EXCEPT ![c] = Tail(@)],
               UNCHANGED <<peer, sent, inbox, got, descriptor, read_buffer>>
        PROVE  SessionInv' /\ Promised
    <2>1. PICK g, w, b, p, s \in Nat : RepliesCount(c, g, w, b, p, s)
      BY RepliesElim DEF SessionInv, RepliesInv
    <2>2. /\ Len(got[c]) = g /\ Len(wire[c]) = w /\ Len(write_buffer[c]) = b
          /\ Len(pending[c]) = p /\ Len(said[c]) = s
          /\ \A i \in 1..g : got[c][i] = said[c][i]
          /\ \A i \in 1..w : wire[c][i] = said[c][g + i]
          /\ \A i \in 1..b : write_buffer[c][i] = said[c][g + w + i]
          /\ \A i \in 1..p : pending[c][i] = said[c][g + w + b + i]
          /\ g + w + b + p <= s
          /\ descriptor[c] # NoFd => g + w + b + p = s
      BY <2>1 DEF RepliesCount
    <2>3. /\ pending[c] \in Seq(Replies) /\ write_buffer[c] \in Seq(Replies)
          /\ pending'[c] = Tail(pending[c])
          /\ \A d \in Conn : d # c => pending'[d] = pending[d]
      BY <1>2 DEF TypeInv, HandlerType
    <2>4. /\ Head(pending[c]) = pending[c][1] /\ Head(pending[c]) \in Replies /\ p >= 1
          /\ Len(Tail(pending[c])) = p - 1 /\ p - 1 \in Nat
          /\ \A i \in 1..p - 1 : Tail(pending[c])[i] = pending[c][i + 1]
      <3>1. /\ Head(pending[c]) = pending[c][1] /\ Head(pending[c]) \in Replies
            /\ Len(pending[c]) >= 1 /\ Len(Tail(pending[c])) = Len(pending[c]) - 1
            /\ \A i \in 1..Len(Tail(pending[c])) : Tail(pending[c])[i] = pending[c][i + 1]
        BY <1>1, <2>3, HeadTailProperties
      <3>. QED  BY <2>2, <3>1
    <2>. DEFINE buffer == Append(write_buffer[c], Head(pending[c]))
    <2>5. /\ buffer \in Seq(Replies) /\ Len(buffer) = b + 1
          /\ buffer[b + 1] = pending[c][1] /\ \A i \in 1..b : buffer[i] = write_buffer[c][i]
      <3>1. /\ buffer \in Seq(Replies) /\ Len(buffer) = Len(write_buffer[c]) + 1
            /\ buffer[Len(write_buffer[c]) + 1] = Head(pending[c])
            /\ \A i \in 1..Len(write_buffer[c]) : buffer[i] = write_buffer[c][i]
        <4>1. write_buffer[c] \in Seq(Replies) /\ Head(pending[c]) \in Replies
          BY <2>3, <2>4
        <4>. QED  BY <4>1, AppendProperties
      <3>2. Len(write_buffer[c]) = b /\ Head(pending[c]) = pending[c][1]
        BY <2>2, <2>4
      <3>. HIDE DEF buffer
      <3>. QED  BY <3>1, <3>2
    <2>. HIDE DEF buffer
    <2>6. ASSUME NEW i \in 1..b + 1 PROVE buffer[i] = said[c][g + w + i]
      <3>1. CASE i = b + 1
        <4>1. 1 \in 1..p /\ g + w + b + 1 = g + w + (b + 1)
          BY <2>4
        <4>2. pending[c][1] = said[c][g + w + b + 1]
          BY <2>2, <4>1
        <4>. QED  BY <2>5, <3>1, <4>1, <4>2
      <3>2. CASE i # b + 1
        <4>1. i \in 1..b
          BY <3>2
        <4>. QED  BY <2>2, <2>5, <4>1
      <3>. QED  BY <3>1, <3>2
    <2>7. ASSUME NEW i \in 1..p - 1 PROVE pending'[c][i] = said[c][g + w + (b + 1) + i]
      <3>1. i + 1 \in 1..p /\ g + w + b + (i + 1) = g + w + (b + 1) + i
        BY <2>4
      <3>2. pending[c][i + 1] = said[c][g + w + b + (i + 1)]
        BY <2>2, <3>1
      <3>. QED  BY <2>3, <2>4, <3>1, <3>2
    <2>8. g + w + (b + 1) + (p - 1) = g + w + b + p /\ b + 1 \in Nat
      BY <2>4
    <2>9. Write(c, buffer)
      BY <1>2 DEF buffer
    <2>10. RepliesInv'
      <3>1. Len(pending'[c]) = p - 1 /\ RepliesInv
        BY <2>3, <2>4 DEF SessionInv
      <3>2. /\ g + w + (b + 1) + (p - 1) <= s
            /\ descriptor[c] # NoFd => g + w + (b + 1) + (p - 1) = s
        BY <2>2, <2>8
      <3>3. Buffered(c, buffer, g, w, b + 1, p - 1, s)
        BY <1>1, <1>2, <2>2, <2>3, <2>5, <2>6, <2>7, <3>1, <3>2 DEF Buffered
      <3>. QED  BY <2>4, <2>5, <2>8, <2>9, <3>1, <3>3, WriteReplies
    <2>11. CommandsInv'
      BY <1>1, <1>2, CommandsFrame DEF SessionInv, CommandsInv
    <2>12. BlockedInv'
      BY <1>1 DEF SessionInv, BlockedInv
    <2>. QED  BY <1>1, <1>2, <2>10, <2>11, <2>12 DEF SessionInv, Promised
  <1>3. ASSUME peer[c] = "aborted", Close(c) PROVE SessionInv' /\ Promised
    BY <1>1, <1>3, CloseSession
  <1>4. ASSUME UNCHANGED <<running, kernel, poller, handlers>> PROVE SessionInv' /\ Promised
    <2>1. Still
      BY <1>1, <1>4 DEF Still, kernel, handlers
    <2>. QED  BY <2>1, StillKeeps
  <1>. QED  BY <1>2, <1>3, <1>4 DEF Say

LEMMA ReadyKeeps ==
    ASSUME TypeInv, StepInv, SessionInv, ReadyToWrite
    PROVE  SessionInv' /\ Promised
  <1>1. PICK c \in Conn :
          /\ UNCHANGED <<peer, sent, inbox, got, descriptor, read_buffer, pending, blocked, executed, said>>
          /\ Write(c, write_buffer[c]) \/ UNCHANGED <<wire, write_buffer>>
    BY DEF ReadyToWrite, history
  <1>2. CASE UNCHANGED <<wire, write_buffer>>
    <2>1. Still
      BY <1>1, <1>2 DEF Still
    <2>. QED  BY <2>1, StillKeeps
  <1>3. CASE Write(c, write_buffer[c])
    <2>1. PICK g, w, b, p, s \in Nat : RepliesCount(c, g, w, b, p, s)
      BY RepliesElim DEF SessionInv, RepliesInv
    <2>2. /\ Len(got[c]) = g /\ Len(wire[c]) = w /\ Len(write_buffer[c]) = b
          /\ Len(pending[c]) = p /\ Len(said[c]) = s
          /\ \A i \in 1..g : got[c][i] = said[c][i]
          /\ \A i \in 1..w : wire[c][i] = said[c][g + i]
          /\ \A i \in 1..b : write_buffer[c][i] = said[c][g + w + i]
          /\ \A i \in 1..p : pending[c][i] = said[c][g + w + b + i]
          /\ g + w + b + p <= s
          /\ descriptor[c] # NoFd => g + w + b + p = s
      BY <2>1 DEF RepliesCount
    <2>3. write_buffer[c] \in Seq(Replies) /\ pending' = pending /\ RepliesInv
      BY <1>1 DEF TypeInv, HandlerType, SessionInv
    <2>4. RepliesInv'
      <3>1. Buffered(c, write_buffer[c], g, w, b, p, s)
        BY <1>1, <2>2, <2>3 DEF Buffered
      <3>. QED  BY <1>3, <2>3, <3>1, WriteReplies
    <2>5. CommandsInv'
      BY <1>1, CommandsFrame DEF SessionInv, CommandsInv
    <2>6. BlockedInv'
      BY <1>1 DEF SessionInv, BlockedInv
    <2>. QED  BY <1>1, <2>4, <2>5, <2>6 DEF SessionInv, Promised
  <1>. QED  BY <1>1, <1>2, <1>3

LEMMA SessionStep ==
    ASSUME TypeInv, StepInv, SessionInv, [Next]_vars
    PROVE  SessionInv' /\ Promised
  <1>1. CASE Next
    <2>1. ASSUME NEW c \in Conn, Client(c) PROVE SessionInv' /\ Promised
      BY <2>1, SendKeeps, ReceiveKeeps, StillSteps, StillKeeps DEF Client
    <2>. QED
      BY <1>1, <2>1, StepCases, StillSteps, StillKeeps, EndKeeps, ReadKeeps, ReadyKeeps, ListenKeeps,
         SayKeeps, AnswerKeeps
  <1>2. CASE UNCHANGED vars
    BY <1>2, StillSteps, StillKeeps
  <1>. QED  BY <1>1, <1>2

(* The server keeps Session's promise to every client, however many there  *)
(* are and however their descriptors and sockets are used again: commands  *)
(* are executed once and in order, and what a client receives is what was  *)
(* said to it, in order and with nothing left out.  Every step of the loop *)
(* is one of Session's, or none.                                           *)
THEOREM SessionCorrect == Spec => SessionKept
  <1>1. Init => Promise!SessionInit
    BY DEF Init, Promise!SessionInit
  <1>2. Init => TypeInv /\ StepInv /\ SessionInv
    BY InitType, InitStep, InitSession
  <1>3. TypeInv /\ StepInv /\ SessionInv /\ [Next]_vars => (TypeInv /\ StepInv /\ SessionInv)'
    BY TypeStep, StepStep, SessionStep
  <1>4. TypeInv /\ StepInv /\ SessionInv /\ [Next]_vars =>
          [Promise!SessionNext]_(Promise!sessionVars)
    BY SessionStep DEF Promised, Promise!sessionVars
  <1>. QED
    BY <1>1, <1>2, <1>3, <1>4, PTL DEF Spec, SessionKept, Promise!SessionSpec

-----------------------------------------------------------------------------
(* Commands that were read and not executed.                               *)
LeftAt(d) ==
    read_buffer[d] # <<>> =>
        \/ running = [conn |-> d, doing |-> "listen"]
        \/ executed[d] > 0 /\ sent[d][executed[d]] = "throws"

(* A step that executes nothing, and leaves a handler only once there is   *)
(* nothing more for it to execute.                                         *)
LEMMA LeftFrame ==
    ASSUME NEW d \in Conn, LeftAt(d), executed'[d] = executed[d],
           read_buffer'[d] \in {read_buffer[d], <<>>},
           executed[d] > 0 => sent'[d][executed[d]] = sent[d][executed[d]],
           \/ running' = running
           \/ running # [conn |-> d, doing |-> "listen"]
           \/ read_buffer[d] = <<>>
    PROVE  LeftAt(d)'
  BY DEF LeftAt

LEMMA LeftStep ==
    ASSUME TypeInv, SessionInv, LeftUnparsed, [Next]_vars
    PROVE  LeftUnparsed'
  <1>1. SUFFICES ASSUME NEW d \in Conn PROVE LeftAt(d)'
    BY DEF LeftUnparsed, LeftAt
  <1>2. LeftAt(d)
    BY DEF LeftUnparsed, LeftAt
  <1>3. ASSUME NEW c \in Conn, NEW kind \in Kind, Send(c, kind) PROVE LeftAt(d)'
    <2>1. PICK e, r, n, s \in Nat : CommandsCount(d, e, r, n, s)
      BY CommandsElim DEF SessionInv, CommandsInv
    <2>2. executed[d] = e /\ Len(sent[d]) = s /\ e <= s
      BY <2>1 DEF CommandsCount
    <2>3. sent[d] \in Seq(Kind)
      BY DEF TypeInv, KernelType
    <2>4. e > 0 => sent'[d][e] = sent[d][e]
      <3>1. e > 0 => e \in 1..s
        BY <2>2
      <3>2. sent'[d] = sent[d] \/ sent'[d] = Append(sent[d], kind)
        BY <1>3 DEF Send, TypeInv, KernelType
      <3>. QED  BY <2>2, <2>3, <3>1, <3>2, AppendProperties
    <2>5. UNCHANGED <<executed, read_buffer, running>>
      BY <1>3 DEF Send, handlers, history, loop
    <2>. QED  BY <1>2, <2>2, <2>4, <2>5, LeftFrame
  <1>4. ASSUME \/ UNCHANGED vars \/ Poll \/ StartServer \/ Accept \/ ReadyToWrite
               \/ \E c \in Conn : StartHandler(c) \/ Connect(c) \/ Receive(c) \/ GoAway(c)
               \/ \E c \in Conn : \E n \in blocked[c] : Answer(c, n)
        PROVE  LeftAt(d)'
    <2>1. UNCHANGED <<executed, read_buffer, running, sent>>
      BY <1>4
      DEF vars, kernel, handlers, history, loop, Poll, StartServer, Accept, ReadyToWrite,
          StartHandler, Connect, Receive, GoAway, Answer
    <2>. QED  BY <1>2, <2>1, LeftFrame
  <1>5. ASSUME NEW c \in Conn, Close(c), UNCHANGED <<executed, sent>>,
               running.doing # "listen" \/ running' = running
        PROVE  LeftAt(d)'
    <2>1. read_buffer'[d] \in {read_buffer[d], <<>>}
      BY <1>5 DEF Close, TypeInv, HandlerType
    <2>2. running' = running \/ running # [conn |-> d, doing |-> "listen"]
      BY <1>5
    <2>. QED  BY <1>2, <1>5, <2>1, <2>2, LeftFrame
  <1>6. CASE HandleError \/ ReadEnd
    <2>1. DueConn \in Conn /\ Close(DueConn) /\ UNCHANGED <<executed, sent, running>>
      BY <1>6 DEF HandleError, ReadEnd, Close, history
    <2>. QED  BY <1>5, <2>1
  <1>7. ASSUME NEW c \in Conn, Say(c) PROVE LeftAt(d)'
    <2>1. running.doing = "say" /\ UNCHANGED executed
      BY <1>7 DEF Say, Runs, history
    <2>2. CASE Close(c)
      BY <1>5, <2>1, <2>2 DEF Close
    <2>3. CASE UNCHANGED <<sent, read_buffer>>
      <3>1. running # [conn |-> d, doing |-> "listen"]
        BY <2>1
      <3>. QED  BY <1>2, <2>1, <2>3, <3>1, LeftFrame
    <2>. QED  BY <1>7, <2>2, <2>3 DEF Say, kernel, handlers
  <1>8. CASE MovesOn
    <2>1. UNCHANGED <<executed, read_buffer, sent>>
      BY <1>8, MovesOnEffect DEF kernel, handlers, history
    <2>2. \/ running' = running
          \/ running # [conn |-> d, doing |-> "listen"]
          \/ read_buffer[d] = <<>>
      <3>1. CASE DispatchGone \/ AcceptDone \/ JobsDone \/ DispatchDone \/ WritesDone \/ TimeoutsDone
        BY <3>1
        DEF DispatchGone, AcceptDone, JobsDone, DispatchDone, WritesDone, TimeoutsDone, Goto
      <3>2. CASE RunRepeated
        <4>1. running.doing = "nothing"
          BY <3>2 DEF RunRepeated, Idle
        <4>. QED  BY <4>1
      <3>3. ASSUME NEW c \in Conn, ListenDone(c) \/ SayDone(c)
            PROVE  running # [conn |-> d, doing |-> "listen"] \/ read_buffer[d] = <<>>
        <4>1. (running.conn = c /\ read_buffer[c] = <<>>) \/ running.doing = "say"
          BY <3>3 DEF ListenDone, SayDone, Runs
        <4>. QED  BY <4>1
      <3>. QED  BY <1>8, <3>1, <3>2, <3>3 DEF MovesOn
    <2>. QED  BY <1>2, <2>1, <2>2, LeftFrame
  <1>9. CASE Read
    <2>1. PICK c \in Conn :
            /\ read_buffer' = [read_buffer EXCEPT ![c] = @ \o inbox[c]]
            /\ running' = [conn |-> c, doing |-> "listen"] /\ running = Idle
            /\ UNCHANGED <<executed, sent>>
      BY <1>9 DEF Read, Dispatches, history
    <2>2. CASE d = c
      BY <2>1, <2>2 DEF LeftAt
    <2>3. CASE d # c
      <3>1. read_buffer'[d] = read_buffer[d]
        BY <2>1, <2>3 DEF TypeInv, HandlerType
      <3>2. running # [conn |-> d, doing |-> "listen"]
        BY <2>1 DEF Idle
      <3>. QED  BY <1>2, <2>1, <3>1, <3>2, LeftFrame
    <2>. QED  BY <2>2, <2>3
  <1>10. ASSUME NEW c \in Conn, Listen(c) PROVE LeftAt(d)'
    <2>1. /\ running = [conn |-> c, doing |-> "listen"]
          /\ executed' = [executed EXCEPT ![c] = Head(read_buffer[c])]
          /\ read_buffer' = [read_buffer EXCEPT ![c] = Tail(@)]
          /\ running' = running \/ sent[c][Head(read_buffer[c])] = "throws"
          /\ UNCHANGED sent /\ read_buffer[c] # <<>>
      BY <1>10 DEF Listen, Runs, kernel
    <2>2. CASE d # c
      <3>1. /\ read_buffer'[d] = read_buffer[d] /\ executed'[d] = executed[d]
            /\ running # [conn |-> d, doing |-> "listen"]
        BY <2>1, <2>2 DEF TypeInv, HandlerType
      <3>. QED  BY <1>2, <2>1, <3>1, LeftFrame
    <2>3. CASE d = c
      <3>1. Head(read_buffer[c]) > 0
        <4>1. PICK e, r, n, s \in Nat : CommandsCount(c, e, r, n, s)
          BY CommandsElim DEF SessionInv, CommandsInv
        <4>2. Len(read_buffer[c]) = r /\ \A i \in 1..r : read_buffer[c][i] = e + i
          BY <4>1 DEF CommandsCount
        <4>3. Head(read_buffer[c]) = read_buffer[c][1] /\ r >= 1
          BY <2>1, <4>2, HeadTailProperties DEF TypeInv, HandlerType
        <4>. QED  BY <4>2, <4>3
      <3>2. executed'[c] = Head(read_buffer[c])
        BY <2>1 DEF TypeInv, HandlerType
      <3>. QED  BY <2>1, <2>3, <3>1, <3>2 DEF LeftAt
    <2>. QED  BY <2>2, <2>3
  <1>11. CASE UNCHANGED vars
    BY <1>4, <1>11
  <1>12. CASE Next
    BY <1>3, <1>4, <1>6, <1>7, <1>8, <1>9, <1>10, <1>12, StepCases DEF Client
  <1>. QED  BY <1>11, <1>12

(* A command that was read and not executed is one that is about to be, or *)
(* stands behind one that threw: no other way out of listen leaves         *)
(* anything in _read_buffer.                                               *)
THEOREM LeftCorrect == Spec => []LeftUnparsed
  <1>1. Init => TypeInv /\ StepInv /\ SessionInv
    BY InitType, InitStep, InitSession
  <1>2. TypeInv /\ StepInv /\ SessionInv /\ [Next]_vars => (TypeInv /\ StepInv /\ SessionInv)'
    BY TypeStep, StepStep, SessionStep
  <1>3. Init => LeftUnparsed
    BY DEF Init, LeftUnparsed
  <1>4. TypeInv /\ SessionInv /\ LeftUnparsed /\ [Next]_vars => LeftUnparsed'
    BY LeftStep
  <1>. QED  BY <1>1, <1>2, <1>3, <1>4, PTL DEF Spec

=============================================================================
