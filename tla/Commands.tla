------------------------------ MODULE Commands ------------------------------
(***************************************************************************)
(* Command::try_parse with the try_parse and construct of every command,   *)
(* and what the talkers do with a message before they act on a command.    *)
(* The commands that go through their arguments do so step by step, every  *)
(* turn of their loop an action.                                           *)
(*                                                                         *)
(* A message is an array of words.  A word is a bulk string or not, and    *)
(* what the parsers can tell of its text: the keyword it is in lower case, *)
(* whether it is written so, and the number it holds, if it does.          *)
(***************************************************************************)
EXTENDS Integers, Sequences

CONSTANTS
    Received,     \* what a peer may send: how a message starts, the words
                  \* it may go on with, and how many more there are at most
    Sent,         \* the commands this program constructs and sends
    Text,         \* what words may say
    Sizes         \* how many values std::size_t has (2^64 in the code)

Word(text) == [bulk |-> TRUE, text |-> text, upper |-> FALSE, number |-> {}]
Upper(text) == [bulk |-> TRUE, text |-> text, upper |-> TRUE, number |-> {}]
Number(n)  == [Word("number") EXCEPT !.number = {n}]
NotBulk    == [Word("") EXCEPT !.bulk = FALSE]

WordForm == [bulk : BOOLEAN, text : Text, upper : BOOLEAN, number : SUBSET Int]
TextForm == [bulk : {TRUE}, text : Text, upper : BOOLEAN, number : SUBSET Int]

VARIABLES
    constructed,  \* history: the command the message was constructed from
    message,      \* what listen is given
    data_pos,     \* in a loop: how many words of the message are behind it
    option,       \* in a loop: the number of the PX or BLOCK met last
    outcome       \* what became of the message

vars == <<constructed, message, data_pos, option, outcome>>

(* What try_parse returns or throws.  Past the end of an array anything    *)
(* may be read.  A message may also never reach it.                        *)
Waiting        == [kind |-> "none", command |-> <<>>]
Parsed(type, args) == [kind |-> "parsed", command |-> [type |-> type, args |-> args]]
Refused        == [kind |-> "refused", command |-> <<>>]
Undefined      == [kind |-> "undefined", command |-> <<>>]
Stuck          == [kind |-> "stuck", command |-> <<>>]

-----------------------------------------------------------------------------
(* What is read of one word.                                               *)
AllBulk(words) == \A i \in DOMAIN words : words[i].bulk
Holds(w, n) == w.bulk /\ w.number = {n}
IsInt(w) == w.bulk /\ w.number # {}
ValueOf(w) == CHOOSE n \in w.number : TRUE
(* parseUInt64, and parseInt of a number to be positive                    *)
IsUInt(w) == IsInt(w) /\ ValueOf(w) >= 0
IsPositive(w) == IsInt(w) /\ ValueOf(w) > 0

(* The texts from_string takes: any id is a pair of numbers, which the id  *)
(* of an XADD has to be, 0 apart, and the others may be one number.        *)
IsInputId(w) == w.bulk /\ (w.text \in {"1-1", "1-*", "*"} \/ Holds(w, 0))
IsBoundId(w) == w.bulk /\ (w.text \in {"1-1", "-", "+"} \/ IsUInt(w))
IsReadId(w)  == w.bulk /\ (w.text \in {"1-1", "$"} \/ IsUInt(w))

Args(data) == Tail(data)

(* What the commands are constructed from that this program sends.  The    *)
(* key and the value of a SET are what a client sent, be it empty.         *)
SentForm ==
    {c \in [type : {"ping", "replconf", "psync", "set"}, args : Seq(TextForm)] :
        /\ \/ c.type = "ping" /\ c.args = <<>>
           \/ c.type # "ping" /\ Len(c.args) = 2
           \/ c.type = "set" /\ Len(c.args) = 3 /\ IsPositive(c.args[3])
        /\ \A i \in DOMAIN c.args : c.args[i].text = "" => c.type = "set" /\ i <= 2}

ASSUME CommandsAssumption ==
    /\ \A r \in Received : r.start \in Seq(WordForm) /\ r.words \subseteq WordForm /\ r.more \in Nat
    /\ Sent \subseteq SentForm
    /\ {"ping", "replconf", "psync", "set", "px"} \subseteq Text
    /\ Sizes \in Nat \ {0}

-----------------------------------------------------------------------------
(* The commands with a fixed place for each argument.                      *)
ParseOneArg(type, data) ==
    IF Len(data) >= 2 /\ data[2].bulk THEN Parsed(type, <<data[2]>>) ELSE Refused

ParseEcho(data) ==
    IF Len(data) = 2 /\ data[2].bulk THEN Parsed("echo", <<data[2]>>) ELSE Refused

ParseAll(type, data) == IF AllBulk(Args(data)) THEN Parsed(type, Args(data)) ELSE Refused

ParseXRange(data) ==
    IF Len(data) = 4 /\ data[2].bulk /\ IsBoundId(data[3]) /\ IsBoundId(data[4])
    THEN Parsed("xrange", Args(data)) ELSE Refused

(* WAIT refuses three arguments, and counts no others: with less than two  *)
(* it reads past the array.  Numbers become unsigned.                      *)
SizeT(n) == Number(n % Sizes)
ParseWait(data) ==
    IF Len(data) = 4 THEN Refused
    ELSE IF Len(data) < 2 THEN Undefined
    ELSE IF ~ IsInt(data[2]) THEN Refused
    ELSE IF Len(data) < 3 THEN Undefined
    ELSE IF ~ IsInt(data[3]) THEN Refused
    ELSE Parsed("wait", <<SizeT(ValueOf(data[2])), SizeT(ValueOf(data[3]))>>)

(* XADD takes the rest in pairs.                                           *)
ParseXAdd(data) ==
    IF /\ Len(data) >= 5 /\ data[2].bulk /\ IsInputId(data[3])
       /\ Len(data) % 2 = 1 /\ AllBulk(data)
    THEN Parsed("xadd", Args(data)) ELSE Refused

(* Command::try_parse, without SET and XREAD: the latter only throws here. *)
try_parse(data) ==
    LET text == data[1].text
    IN  IF data = <<>> \/ ~ data[1].bulk THEN Refused
        ELSE IF text = "ping" THEN Parsed("ping", <<>>)
        ELSE IF text = "echo" THEN ParseEcho(data)
        ELSE IF text \in {"get", "keys", "type"} THEN ParseOneArg(text, data)
        ELSE IF text \in {"info", "replconf", "psync", "config"} THEN ParseAll(text, data)
        ELSE IF text = "wait" THEN ParseWait(data)
        ELSE IF text = "xadd" THEN ParseXAdd(data)
        ELSE IF text = "xrange" THEN ParseXRange(data)
        ELSE Refused

(* The construct of the commands that this program sends.                  *)
constructSwapped(command) ==
    IF command.type = "set" /\ Len(command.args) > 2
    THEN <<Upper("set"), command.args[1], command.args[2], Upper("px"), command.args[1]>>
    ELSE <<Upper(command.type)>> \o command.args
construct(command) ==
    IF command.type = "set" /\ Len(command.args) > 2
    THEN <<Upper("set"), command.args[1], command.args[2], Upper("px"), command.args[3]>>
    ELSE <<Upper(command.type)>> \o command.args

(* Message::to_string writes an empty string as $-1.  What parses it takes *)
(* it for an empty word, and then waits for 2^64-1 bytes: the message is   *)
(* complete if that was its last word, and else never will be.             *)
Framed(words) == \A i \in DOMAIN words : words[i].text = "" => i = Len(words)

(* process_conf of a replica's handle and ReplicaTalker::process only log  *)
(* that REPLCONF has not two arguments, and read the first two.            *)
ReadsConf(args) == Len(args) >= 1 /\ (args[1].text \in {"ack", "getack"} => Len(args) >= 2)

Init ==
    /\ data_pos = 0 /\ option = <<>> /\ outcome = Waiting
    /\ \/ /\ constructed = <<>>
          /\ \E r \in Received : \E n \in 0..r.more : \E words \in [1..n -> r.words] :
                message = r.start \o words
       \/ \E c \in Sent : constructed = <<c>> /\ message = construct(c)

-----------------------------------------------------------------------------
(* Steps.                                                                  *)

N == Len(message)
Names(type) == message # <<>> /\ message[1].bulk /\ message[1].text = type

Returns(result) == outcome' = result /\ UNCHANGED <<constructed, message, data_pos, option>>

(* listen of either talker, as far as the command: an error is answered,   *)
(* by a replica logged, and the bytes of the message not counted.          *)
HasLoop == Names("set") \/ (Names("xread") /\ N >= 4)
Arrives == constructed = <<>> \/ Framed(message)
Listen ==
    LET result == try_parse(message)
    IN  /\ outcome = Waiting /\ data_pos = 0 /\ ~ HasLoop /\ Arrives
        /\ Returns(IF result.kind = "parsed" /\ result.command.type = "replconf"
                      /\ ~ ReadsConf(result.command.args)
                   THEN Undefined ELSE result)

ListenInLoop ==
    /\ outcome = Waiting /\ data_pos = 0 /\ HasLoop /\ Arrives
    /\ data_pos' = 1
    /\ UNCHANGED <<constructed, message, option, outcome>>

(* A message this program sends that is not framed: nothing is parsed at   *)
(* the other end, where every later read throws.                           *)
NeverComplete ==
    /\ outcome = Waiting /\ data_pos = 0 /\ ~ Arrives
    /\ Returns(Stuck)

(* A turn of a loop.  What is read next is the word behind data_pos.       *)
Turn(type) == outcome = Waiting /\ data_pos > 0 /\ Names(type) /\ data_pos < N
End(type)  == outcome = Waiting /\ data_pos > 0 /\ Names(type) /\ data_pos >= N
Arg        == message[data_pos + 1]
NextArg    == message[data_pos + 2]

GoesOn(n, met) ==
    /\ data_pos' = data_pos + n /\ option' = met
    /\ UNCHANGED <<constructed, message, outcome>>

(* SET: a key and a value, and PX with its number as often as there is.    *)
ParseKeyOrValue ==
    /\ Turn("set") /\ data_pos <= 2
    /\ IF Arg.bulk THEN GoesOn(1, option) ELSE Returns(Refused)

ParseParamOnce ==
    /\ Turn("set") /\ data_pos > 2
    /\ IF /\ Arg.bulk /\ Arg.text = "px" /\ option = <<>>
          /\ data_pos + 1 < N /\ IsPositive(NextArg)
       THEN GoesOn(2, <<NextArg>>) ELSE Returns(Refused)
ParseParamUnchecked ==
    /\ Turn("set") /\ data_pos > 2
    /\ IF ~ Arg.bulk \/ Arg.text # "px" THEN Returns(Refused)
       ELSE IF data_pos + 1 >= N THEN Returns(Undefined)
       ELSE IF IsPositive(NextArg) THEN GoesOn(2, <<NextArg>>) ELSE Returns(Refused)
ParseParam ==
    /\ Turn("set") /\ data_pos > 2
    /\ IF Arg.bulk /\ Arg.text = "px" /\ data_pos + 1 < N /\ IsPositive(NextArg)
       THEN GoesOn(2, <<NextArg>>) ELSE Returns(Refused)

EndSet ==
    /\ End("set")
    /\ Returns(IF N >= 3 THEN Parsed("set", <<message[2], message[3]>> \o option) ELSE Refused)

(* XREAD: BLOCK with its number as often as there is, then STREAMS, behind *)
(* which one half is keys and the other ids.                               *)
ParseBlockOnce ==
    /\ Turn("xread") /\ Arg.bulk /\ Arg.text = "block"
    /\ IF option = <<>> /\ data_pos + 1 < N /\ IsUInt(NextArg)
       THEN GoesOn(2, <<NextArg>>) ELSE Returns(Refused)
ParseBlock ==
    /\ Turn("xread") /\ Arg.bulk /\ Arg.text = "block"
    /\ IF data_pos + 1 < N /\ IsUInt(NextArg)
       THEN GoesOn(2, <<NextArg>>) ELSE Returns(Refused)

ParseStreams ==
    LET rest == N - data_pos - 1
        n    == rest \div 2
        keys == SubSeq(message, data_pos + 2, data_pos + 1 + n)
        ids  == SubSeq(message, data_pos + 2 + n, data_pos + 1 + 2 * n)
    IN  /\ Turn("xread") /\ Arg.bulk /\ Arg.text = "streams"
        /\ Returns(IF rest >= 2 /\ rest % 2 = 0 /\ AllBulk(keys) /\ \A j \in 1..n : IsReadId(ids[j])
                   THEN Parsed("xread", <<option, [j \in 1..n |-> <<keys[j], ids[j]>>]>>)
                   ELSE Refused)

UnexpectedArg ==
    /\ Turn("xread") /\ ~ (Arg.bulk /\ Arg.text \in {"block", "streams"})
    /\ Returns(Refused)

EndXRead ==
    /\ End("xread")
    /\ Returns(Parsed("xread", <<option, <<>>>>))

Next ==
    \/ Listen \/ ListenInLoop \/ NeverComplete
    \/ ParseKeyOrValue \/ ParseParam \/ EndSet
    \/ ParseBlock \/ ParseStreams \/ UnexpectedArg \/ EndXRead

Spec == Init /\ [][Next]_vars

-----------------------------------------------------------------------------
(* Properties.                                                             *)

Is(type) == outcome \notin {Waiting, Stuck} /\ Names(type)
Accepted == outcome.kind = "parsed"

(* SET takes a key, a value, and any number of PX with a positive number,  *)
(* of which the last one counts; it takes nothing else, and PX is read in  *)
(* any case while a key or a value that is spelt like it stays one.        *)
SetGrammar ==
    Is("set") =>
        /\ Accepted <=>
             /\ N >= 3 /\ N % 2 = 1 /\ AllBulk(message)
             /\ \A i \in 4..N : IF i % 2 = 0 THEN message[i].text = "px" ELSE IsPositive(message[i])
        /\ Accepted => outcome.command.args =
             SubSeq(message, 2, 3) \o (IF N > 3 THEN <<message[N]>> ELSE <<>>)

(* An XREAD that begins with n BLOCK, and one where STREAMS follows them.  *)
Blocks(n) ==
    \A i \in 2..2 * n + 1 :
        IF i % 2 = 0 THEN message[i].bulk /\ message[i].text = "block" ELSE IsUInt(message[i])
Block(n) == IF n = 0 THEN <<>> ELSE <<message[2 * n + 1]>>
Keys(n) == (N - 2 * n - 2) \div 2
WithStreams(n) ==
    /\ 2 * n + 2 <= N /\ message[2 * n + 2].bulk /\ message[2 * n + 2].text = "streams"
    /\ N % 2 = 0 /\ Keys(n) >= 1
    /\ \A i \in 1..Keys(n) : /\ message[2 * n + 2 + i].bulk
                             /\ IsReadId(message[2 * n + 2 + Keys(n) + i])
Request(n) ==
    [i \in 1..Keys(n) |-> <<message[2 * n + 2 + i], message[2 * n + 2 + Keys(n) + i]>>]

(* XREAD takes any number of BLOCK, of which the last one counts, and then *)
(* STREAMS with as many ids as keys, each key paired with its id; or, what *)
(* it should not, two BLOCK or more and no STREAMS.                        *)
XReadGrammar ==
    Is("xread") =>
        /\ Accepted <=> \E n \in 0..(N - 1) \div 2 :
             Blocks(n) /\ (WithStreams(n) \/ (n >= 2 /\ N = 2 * n + 1))
        /\ \A n \in 0..(N - 1) \div 2 : Accepted /\ Blocks(n) /\ WithStreams(n) =>
             outcome.command.args = <<Block(n), Request(n)>>

(* A command this program sends to another one of its kind is parsed there *)
(* to the same command: a pushed SET that were refused would not be        *)
(* counted, and no acknowledgement would reach the offset of the master.   *)
(* Only a SET with an empty word before its last one, which is its key, or *)
(* its value if PX follows, is parsed to nothing.                          *)
HasHole(c) == \E i \in DOMAIN c.args : c.args[i].text = "" /\ i < Len(c.args)
RoundTrip ==
    constructed # <<>> /\ outcome # Waiting =>
        LET c == constructed[1]
        IN  IF HasHole(c) THEN c.type = "set" /\ outcome = Stuck
            ELSE outcome.kind = "parsed" /\ outcome.command = c

(* A message is read past its end where WAIT or REPLCONF has less than the *)
(* two arguments that are used without a look at how many there are, if    *)
(* nothing throws before; and nowhere else, however long the message is.   *)
ReadsPast ==
    \/ Names("wait") /\ N <= 2 /\ (N = 2 => IsInt(message[2]))
    \/ Names("replconf") /\ N <= 2
       /\ (N = 2 => message[2].bulk /\ message[2].text \in {"ack", "getack"})
WithinMessage == outcome # Waiting => (outcome = Undefined <=> ReadsPast)
=============================================================================
