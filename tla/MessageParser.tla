--------------------------- MODULE MessageParser ---------------------------
(***************************************************************************)
(* Message::to_string at one end of a connection, and MessageParser with   *)
(* the loop of Handler::process_read that drives it at the other, where    *)
(* the bytes arrive in parts.                                              *)
(*                                                                         *)
(* A unit stands for what the parser cannot see into: the text of a line,  *)
(* or one byte, so that every way to split a stream is a split of units.   *)
(*                                                                         *)
(* A message is the sequence of its parts: itself, then for an array the   *)
(* parts of each element.  A part says how many messages are still due     *)
(* behind it (left) until the outermost one is complete, which is what the *)
(* recursion of ParseHelper::parse keeps on its stack.                     *)
(***************************************************************************)
EXTENDS Integers, Sequences

CONSTANTS
    Stream,       \* what a peer may write, see StreamForm
    Sizes         \* how many values std::size_t has (2^64 in the code)

Char == [t : {"+", "-", ":", "$", "*", "junk", "byte", "CR", "LF"}, n : Int, ok : BOOLEAN]
Unit(t, n) == [t |-> t, n |-> n, ok |-> TRUE]
Byte == Unit("byte", 0)
CR   == Unit("CR", 0)
LF   == Unit("LF", 0)
Delim == <<CR, LF>>

(* What is written is lines and strings, with or without a delimiter       *)
(* behind.  A line is its type and the number behind it, if that is        *)
(* well-formed; of a simple string the number is its name.                 *)
Line(t, n)   == [line |-> TRUE, text |-> <<Unit(t, n)>>, delim |-> Len(Delim)]
Malformed(t) == [Line(t, 0) EXCEPT !.text = <<[Unit(t, 0) EXCEPT !.ok = FALSE]>>]
Piece == [line : BOOLEAN, text : Seq(Char), delim : {0, Len(Delim)}]
Text(bytes, delim) == [line |-> FALSE, text |-> bytes, delim |-> delim]

Part == [type : {"SimpleString", "SimpleError", "Integer"}, value : Int, left : Nat]
        \cup [type : {"BulkString", "SyncResponse"}, value : Seq(Char), left : Nat]
        \cup [type : {"Array"}, value : Nat, left : Nat]
Message(type, value, left) == [type |-> type, value |-> value, left |-> left]

(* How many elements of its own a part has.                                *)
Count(m) == IF m.type = "Array" THEN m.value ELSE 0

to_string(m) ==
    IF m.type = "SimpleString" THEN <<Line("+", m.value)>>
    ELSE IF m.type = "SimpleError" THEN <<Line("-", m.value)>>
    ELSE IF m.type = "Integer" THEN <<Line(":", m.value)>>
    ELSE IF m.type = "Array" THEN <<Line("*", IF m.value = 0 THEN -1 ELSE m.value)>>
    ELSE IF m.type = "SyncResponse" THEN <<Line("$", Len(m.value)), Text(m.value, 0)>>
    ELSE IF m.value = <<>> THEN <<Line("$", -1)>>
    ELSE <<Line("$", Len(m.value)), Text(m.value, Len(Delim))>>

Size(m) ==
    LET width(piece) == Len(piece.text) + piece.delim
    IN  IF Len(to_string(m)) = 1 THEN width(to_string(m)[1])
        ELSE width(to_string(m)[1]) + width(to_string(m)[2])

FullResync == Message("SimpleString", 0, 0)

-----------------------------------------------------------------------------
(* Streams.  A stream s has the parts of its messages, one after another,  *)
(* and the pieces they are written as: those of part k are behind          *)
(* first[k], and unit j of piece i is unit at[i] + j of the stream.        *)

(* A line that means nothing is malformed.                                 *)
WellFormed(s, k) == LET unit == s.piece[s.first[k] + 1].text[1]
                    IN  unit.ok /\ unit.t # "junk"

Pieces(s, k) == SubSeq(s.piece, s.first[k] + 1, s.first[k + 1])

(* What a peer may write for a part: what this program does, or for an     *)
(* empty array or string what another one does, the last of them wrongly.  *)
MayWrite(s, k, pieces) ==
    LET m == s.part[k]
    IN  \/ pieces = to_string(m)
        \/ m.type = "Array" /\ m.value = 0 /\ \E n \in -Sizes..0 : pieces = <<Line("*", n)>>
        \/ m.type = "BulkString" /\ m.value = <<>>
             /\ pieces = <<Line("$", 0), Text(<<>>, Len(Delim))>>
        \/ m.type = "BulkString" /\ m.value = <<>>
             /\ \E n \in Len(s.units) + 1 - Sizes..-1 : pieces = <<Line("$", n)>>

(* Part k begins a message.                                                *)
Begins(s, k) == k = 1 \/ s.part[k - 1].left = 0

HasForm(s) ==
    /\ Len(s.units) + Len(Delim) < Sizes
    /\ s.talker \in {"server", "replica"}
    /\ s.part \in Seq(Part) /\ s.piece \in Seq(Piece) /\ s.units \in Seq(Char)
    \* where parts and pieces are
    /\ s.first \in [1..Len(s.part) + 1 -> 0..Len(s.piece)]
    /\ s.at \in [1..Len(s.piece) + 1 -> 0..Len(s.units)]
    /\ s.first[1] = 0 /\ s.first[Len(s.part) + 1] = Len(s.piece)
    /\ s.at[1] = 0 /\ s.at[Len(s.piece) + 1] = Len(s.units)
    /\ \A i \in 1..Len(s.piece) :
          LET p == s.piece[i]
          IN  /\ s.at[i + 1] = s.at[i] + Len(p.text) + p.delim
              /\ \A j \in 1..Len(p.text) : s.units[s.at[i] + j] = p.text[j]
              /\ \A j \in 1..p.delim : s.units[s.at[i] + Len(p.text) + j] = Delim[j]
    \* what is written for a part, and what follows it
    /\ \A k \in 1..Len(s.part) :
          IF WellFormed(s, k)
          THEN /\ MayWrite(s, k, Pieces(s, k))
               /\ s.part[k].left = Count(s.part[k]) + (IF Begins(s, k) THEN 0 ELSE s.part[k - 1].left - 1)
          ELSE s.first[k + 1] = s.first[k] + 1
    \* a master answers PSYNC once, with the database file behind the answer,
    \* which is never empty and the only string that is not in an array
    /\ \A k \in 1..Len(s.part) :
          /\ s.part[k].type = "SyncResponse" => s.part[k].value # <<>>
          /\ s.part[k].type = "SyncResponse"
                <=> s.talker = "replica" /\ k > 1 /\ s.part[k - 1] = FullResync /\ Begins(s, k - 1)
          /\ s.talker = "replica" /\ s.part[k].type = "BulkString" => ~ Begins(s, k)
          /\ s.talker = "replica" /\ s.part[k] = FullResync /\ Begins(s, k) =>
                \A j \in 1..k - 1 : ~ (s.part[j] = FullResync /\ Begins(s, j))

ASSUME StreamForm == Sizes \in Nat /\ \A s \in Stream : HasForm(s)

VARIABLES
    stream,       \* what the peer writes
    arrived,      \* how many units of it arrived
    buffer,       \* _read_buffer
    raw,          \* _raw_message_buffer
    length,       \* _length_encoded_message_expected, a set of at most one
    doing,        \* "idle", or what try_parse is at: "cutting" or "parsing"
    read,         \* how much of raw is on unget_stack
    parsed,       \* the parts of the message parse is building
    state,        \* what the talker expects
    failed,       \* history: loading a database file threw
    returned,     \* history: the parts of the messages given to listen
    size,         \* history: to_string of parsed has so many units
    counted       \* history: size() of all messages given to listen

control == <<state, failed, returned, counted>>
vars == <<stream, arrived, buffer, raw, length, doing, read, parsed, size, control>>

TypeOK ==
    /\ stream \in Stream /\ arrived \in 0..Len(stream.units)
    /\ buffer \in Seq(Char) /\ raw \in Seq(Seq(Char))
    /\ length \subseteq Int /\ \A m, n \in length : m = n
    /\ doing \in {"idle", "cutting", "parsing"} /\ read \in 0..Len(raw)
    /\ parsed \in Seq(Part) /\ returned \in Seq(Part) /\ size \in Nat /\ counted \in Nat
    /\ state \in {"Any", "SyncResponse", "commands"} /\ failed \in BOOLEAN

Init ==
    /\ stream \in Stream
    /\ arrived = 0 /\ buffer = <<>> /\ raw = <<>> /\ length = {}
    /\ doing = "idle" /\ read = 0 /\ parsed = <<>> /\ size = 0
    /\ state = "Any" /\ failed = FALSE /\ returned = <<>> /\ counted = 0

-----------------------------------------------------------------------------
(* get_next_raw_message: the next line or string, if it is all there.      *)
Taken(kind, more, rest, due) ==
    [kind |-> kind, raw |-> raw \o more, buffer |-> rest, length |-> due]
Nothing == Taken("nothing", <<>>, buffer, length)
Throws  == Taken("throws", <<>>, buffer, length)

From(i) == SubSeq(buffer, i, Len(buffer))

DelimSize(expected) == IF expected = "SyncResponse" THEN 0 ELSE Len(Delim)

NextStringIfMore(n, expected) ==
    LET chars == n % Sizes
        delim == DelimSize(expected)
    IN  IF Len(buffer) <= (chars + delim) % Sizes THEN Nothing
        ELSE IF chars > Len(buffer) THEN Throws
        ELSE Taken("raw", <<SubSeq(buffer, 1, chars)>>, From(chars + delim + 1), {})

NextStringEatsDelim(n, expected) ==
    LET chars == n % Sizes
        delim == DelimSize(expected)
    IN  IF Len(buffer) < (chars + delim) % Sizes THEN Nothing
        ELSE IF chars > Len(buffer) THEN Throws
        ELSE Taken("raw", <<SubSeq(buffer, 1, chars)>>, From(chars + Len(Delim) + 1), {})

(* The length is an unsigned number, and so is its sum with the delimiter: *)
(* a negative one is larger than any buffer, its sum may be small.  A      *)
(* string with more characters than its range has makes std::string throw. *)
NextString(n, expected) ==
    LET chars == n % Sizes
        delim == DelimSize(expected)
    IN  IF Len(buffer) < (chars + delim) % Sizes THEN Nothing
        ELSE IF chars > Len(buffer) THEN Throws
        ELSE Taken("raw", <<SubSeq(buffer, 1, chars)>>, From(chars + delim + 1), {})

LineEnds == {i \in 1..Len(buffer) - 1 : buffer[i] = CR /\ buffer[i + 1] = LF}

(* A length that is not a number throws when its line was already taken.   *)
NextLine ==
    LET line == buffer[1]
        end == CHOOSE i \in LineEnds : \A j \in LineEnds : i <= j
        take(kind, due) == Taken(kind, <<SubSeq(buffer, 1, end - 1)>>, From(end + Len(Delim)), due)
    IN  IF line.t \notin {"+", "-", ":", "$", "*"} THEN Throws
        ELSE IF LineEnds = {} THEN Nothing
        ELSE IF line.t # "$" THEN take("raw", {})
        ELSE IF line.ok THEN take("raw", {line.n})
        ELSE take("throws", {})

GetNextRawMessageByDelim(expected) ==
    IF length = {} THEN NextLine
    ELSE IF LineEnds = {} THEN Nothing
    ELSE LET end == CHOOSE i \in LineEnds : \A j \in LineEnds : i <= j
         IN  Taken("raw", <<SubSeq(buffer, 1, end - 1)>>, From(end + Len(Delim)), {})

GetNextRawMessage(expected) ==
    IF length = {} THEN NextLine
    ELSE NextString(CHOOSE n \in length : TRUE, expected)

-----------------------------------------------------------------------------
(* ParseHelper::parse, a part at a time.  A message needs one part more,   *)
(* and then as many as the last part says.                                 *)
Left == IF parsed = <<>> THEN 1 ELSE parsed[Len(parsed)].left

(* The line that is next.  An empty string has no character that is known. *)
Ahead == IF raw[read + 1] = <<>> THEN Unit("none", 0) ELSE raw[read + 1][1]

Reads == doing = "parsing" /\ Left # 0 /\ read < Len(raw)

Take(type, value, count, n) ==
    LET part == Message(type, value, Left - 1 + count)
    IN  /\ parsed' = Append(parsed, part) /\ read' = read + n
        /\ size' = size + Size(part)
        /\ UNCHANGED <<stream, arrived, buffer, raw, length, doing, control>>

ParseLine ==
    /\ Reads
    /\ \/ Ahead.t = "+" /\ Take("SimpleString", Ahead.n, 0, 1)
       \/ Ahead.t = "-" /\ Take("SimpleError", Ahead.n, 0, 1)
       \/ Ahead.t = ":" /\ Ahead.ok /\ Take("Integer", Ahead.n, 0, 1)

(* Only the outermost message is parsed with what the talker expects.      *)
ParseString ==
    LET type == IF state = "SyncResponse" /\ parsed = <<>> THEN "SyncResponse" ELSE "BulkString"
    IN  /\ Reads /\ Ahead.t = "$" /\ Ahead.ok
        /\ \/ Ahead.n = -1 /\ Take(type, <<>>, 0, 1)
           \/ Ahead.n # -1 /\ read + 1 < Len(raw) /\ Take(type, raw[read + 2], 0, 2)

ParseArray ==
    LET n == IF Ahead.n < 0 THEN 0 ELSE Ahead.n
    IN  Reads /\ Ahead.t = "*" /\ Ahead.ok /\ Take("Array", n, n, 1)

(* A new helper, with nothing on its unget_stack.                          *)
Afresh == read' = 0 /\ parsed' = <<>> /\ size' = 0

(* What was taken out is lost, and the exception leaves process_read.      *)
ParseThrows ==
    /\ Reads
    /\ \/ Ahead.t \notin {"+", "-", ":", "$", "*"}
       \/ Ahead.t \in {":", "$", "*"} /\ ~ Ahead.ok
    /\ raw' = SubSeq(raw, read + 2, Len(raw)) /\ doing' = "idle" /\ Afresh
    /\ UNCHANGED <<stream, arrived, buffer, length, control>>

(* Not yet a message: all is put back.                                     *)
UngetAll ==
    /\ doing = "parsing" /\ Left # 0
    /\ \/ read = Len(raw)
       \/ read + 1 = Len(raw) /\ Ahead.t = "$" /\ Ahead.ok /\ Ahead.n # -1
    /\ doing' = "cutting" /\ Afresh
    /\ UNCHANGED <<stream, arrived, buffer, raw, length, control>>

-----------------------------------------------------------------------------
(* Handler::read: some more of the stream, and no more for now.            *)
Read ==
    /\ doing = "idle" /\ arrived < Len(stream.units)
    /\ \E n \in arrived + 1..Len(stream.units) :
          /\ buffer' = buffer \o SubSeq(stream.units, arrived + 1, n)
          /\ arrived' = n
    /\ doing' = "cutting"
    /\ UNCHANGED <<stream, raw, length, read, parsed, size, control>>

(* One turn of the loop in try_parse, up to its call of parse.             *)
TryParse ==
    LET next == GetNextRawMessage(state)
    IN  /\ doing = "cutting" /\ buffer # <<>>
        /\ buffer' = next.buffer /\ length' = next.length /\ raw' = next.raw
        /\ doing' = IF next.kind = "raw" THEN "parsing" ELSE "idle"
        /\ UNCHANGED <<stream, arrived, read, parsed, size, control>>

(* ReplicaTalker::listen, as far as it decides what is expected next: the  *)
(* database file behind the answer to PSYNC, until one was loaded.  A file *)
(* may be refused, and the exception leaves process_read.                  *)
Listen(m) ==
    \/ stream.talker = "replica" /\ state = "Any" /\ m = <<FullResync>>
         /\ state' = "SyncResponse" /\ doing' = "cutting" /\ UNCHANGED failed
    \/ state = "SyncResponse" /\ m[1].type = "SyncResponse"
         /\ \/ state' = "commands" /\ doing' = "cutting" /\ UNCHANGED failed
            \/ failed' = TRUE /\ doing' = "idle" /\ UNCHANGED state
    \/ ~ (stream.talker = "replica" /\ state = "Any" /\ m = <<FullResync>>)
         /\ ~ (state = "SyncResponse" /\ m[1].type = "SyncResponse")
         /\ doing' = "cutting" /\ UNCHANGED <<state, failed>>

(* A message is complete: the talker gets it, try_parse is called anew.    *)
Return ==
    /\ doing = "parsing" /\ Left = 0
    /\ raw' = SubSeq(raw, read + 1, Len(raw)) /\ Afresh
    /\ returned' = returned \o parsed /\ counted' = counted + size
    /\ Listen(parsed)
    /\ UNCHANGED <<stream, arrived, buffer, length>>

AllParsed ==
    /\ doing = "cutting" /\ buffer = <<>> /\ doing' = "idle"
    /\ UNCHANGED <<stream, arrived, buffer, raw, length, read, parsed, size, control>>

Parse == ParseLine \/ ParseString \/ ParseArray \/ ParseThrows \/ UngetAll

Next == Read \/ TryParse \/ Parse \/ Return \/ AllParsed
Spec == Init /\ [][Next]_vars

-----------------------------------------------------------------------------
(* Properties.                                                             *)

End(k) == stream.at[stream.first[k + 1] + 1]

(* What makes the parser lose its place: a malformed line, the negative    *)
(* length that to_string writes for an empty string, a file that was       *)
(* refused.                                                                *)
Spoils(k) ==
    LET unit == stream.piece[stream.first[k] + 1].text[1]
    IN  \/ ~ WellFormed(stream, k)
        \/ unit.t = "$" /\ unit.n < 0
        \/ failed /\ stream.part[k].type = "SyncResponse"

(* No line is malformed up to part i or in the same message.               *)
Clean(i) ==
    \A j \in 1..Len(stream.part) :
        j <= i \/ (\A k \in i..j - 1 : stream.part[k].left # 0) => WellFormed(stream, j)

(* Whatever parts a stream arrives in, the messages that listen is given   *)
(* are those that were written, in order, none skipped, split or joined,   *)
(* and only the database file is taken for one.                            *)
Faithful ==
    \A i \in 1..Len(returned) :
        Clean(i) => i \in 1..Len(stream.part) /\ returned[i] = stream.part[i]

(* Nothing is withheld: a message is given to listen in the turn in which  *)
(* the last byte of it arrives, unless the stream was spoiled before.      *)
NothingWithheld ==
    doing = "idle" => \A k \in 1..Len(stream.part) :
        stream.part[k].left = 0 /\ End(k) <= arrived /\ (\A j \in 1..k : ~ Spoils(j))
            => k <= Len(returned)

(* The bytes a ReplicaTalker counts, those of to_string of each message it *)
(* is given, are the bytes of the stream up to the next message; what came *)
(* in behind them is in raw and in the buffer, nowhere else.               *)
BytesCounted ==
    (\A k \in 1..Len(stream.part) : Pieces(stream, k) = to_string(stream.part[k])) /\ ~ failed =>
        LET next == stream.first[Len(returned) + 1] + 1
        IN  /\ counted = stream.at[next]
            /\ arrived = stream.at[next + Len(raw)] + Len(buffer)
=============================================================================
