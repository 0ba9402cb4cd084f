-------------------------- MODULE MCMessageParser --------------------------
(* Small instances of MessageParser for TLC.                               *)
EXTENDS MessageParser, SequencesExt

CONSTANT MaxItems     \* bound: how many messages a client's stream has

(* A message as a tree: an array has its elements, any other its value.    *)
Tree(type, value) == [type |-> type, value |-> value]
Bulk(bytes) == Tree("BulkString", bytes)
Array(elements) == Tree("Array", elements)

Entry(m, pieces) == [part |-> m, pieces |-> pieces]
Written(m) == Entry(m, to_string(m))

(* The parts of a tree, when so many messages are still due behind it.     *)
RECURSIVE Parts(_, _)
Parts(m, due) ==
    IF m.type # "Array" THEN <<Written(Message(m.type, m.value, due))>>
    ELSE LET n == Len(m.value)
         IN  <<Written(Message("Array", n, due + n))>> \o
                FlattenSeq([i \in 1..n |-> Parts(m.value[i], due + n - i)])

SumOf(s) == FoldSeq(+, 0, s)
Units(p) == p.text \o SubSeq(Delim, 1, p.delim)

(* The stream of some messages, each a sequence of entries.                *)
Of(talker, items) ==
    LET entries == FlattenSeq(items)
        piece == FlattenSeq([k \in DOMAIN entries |-> entries[k].pieces])
    IN  [talker |-> talker,
         part   |-> [k \in DOMAIN entries |-> entries[k].part],
         piece  |-> piece,
         first  |-> [k \in 1..Len(entries) + 1 |-> SumOf([j \in 1..k - 1 |-> Len(entries[j].pieces)])],
         at     |-> [i \in 1..Len(piece) + 1 |-> SumOf([j \in 1..i - 1 |-> Len(Units(piece[j]))])],
         units  |-> FlattenSeq([i \in DOMAIN piece |-> Units(piece[i])])]

One == Bulk(<<Byte>>)
Lines == Bulk(<<Byte, CR, LF>>)
EmptyText == Bulk(<<>>)
Empty == Message("BulkString", <<>>, 0)

(* What a client may send: commands, among them one whose text has the     *)
(* delimiter in it, an empty one as other clients write it and as this     *)
(* server does, arrays in arrays, and lines that are not well-formed.      *)
ClientItem ==
    {Parts(m, 0) : m \in {Array(<<One, Lines>>), Array(<<Array(<<>>), Tree("Integer", 1)>>),
                          Array(<<EmptyText, One>>), Array(<<One, EmptyText>>), Tree("SimpleError", 1)}}
      \cup {<<Entry(Empty, <<Line("$", 0), Text(<<>>, 2)>>)>>,
            <<Entry(Message("Array", 0, 0), <<Line("*", 0)>>)>>,
            <<Entry(Empty, <<Malformed("$")>>)>>,
            <<Written(Message("Array", 2, 2)), Entry(Message("Integer", 0, 0), <<Malformed(":")>>)>>,
            <<Entry(Empty, <<Line("$", -3)>>)>>,
            <<Entry(Empty, <<Line("junk", 0)>>)>>}

(* What a master sends: the answers of the handshake, the database file    *)
(* without a delimiter, then commands, the last element of which may be    *)
(* empty.                                                                  *)
File == Tree("SyncResponse", <<Byte, CR, LF>>)
Command == {Array(<<One, One>>), Array(<<Lines, EmptyText>>)}
FromMaster ==
    {<<Tree("SimpleString", 1), Tree("SimpleString", 0), File>> \o s : s \in TupleOf(Command, 2)}

Streams ==
    {Of("server", s) : s \in UNION {TupleOf(ClientItem, n) : n \in 1..MaxItems}}
      \cup {Of("replica", [i \in DOMAIN s |-> Parts(s[i], 0)]) : s \in FromMaster}
=============================================================================
