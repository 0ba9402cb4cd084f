----------------------------- MODULE MCCommands -----------------------------
(* A small instance of Commands for TLC.                                   *)
EXTENDS Commands

AnyText == STRING

Starting(start, words, more) == [start |-> start, words |-> words, more |-> more]
Named(text, words, more) == Starting(<<Word(text)>>, words, more)

SetWords == {Word("px"), Upper("px"), Word(""), Number(5), Number(0), NotBulk}
XReadWords == {Word("streams"), Word("block"), Word("k"), Word("$"), Number(5), Number(-1), NotBulk}
AnyWords == {Word("ack"), Word("1-1"), Word("*"), Word("+"), Number(0), Number(-1), NotBulk}

TwoBlocks == <<Word("xread"), Word("block"), Number(1), Word("block"), Number(2)>>

Messages ==
    {Named("set", SetWords, 6), Named("xread", XReadWords, 6),
     Starting(TwoBlocks, {Word("streams"), Word("k"), Word("$"), Word("block"), Number(5)}, 5),
     Starting(<<>>, {NotBulk, Upper("get"), Word("info")}, 2)}
      \cup {Named(c, AnyWords, 5) : c \in {"ping", "echo", "get", "replconf", "psync",
                                          "wait", "xadd", "xrange", "unknown"}}

EverySent == {[type |-> "ping", args |-> <<>>],
          [type |-> "replconf", args |-> <<Word("listening-port"), Number(6379)>>],
          [type |-> "replconf", args |-> <<Word("capa"), Word("psync2")>>],
          [type |-> "replconf", args |-> <<Upper("getack"), Word("*")>>],
          [type |-> "replconf", args |-> <<Upper("ack"), Number(0)>>],
          [type |-> "psync", args |-> <<Word("?"), Number(-1)>>]}
        \cup [type : {"set"},
              args : {<<k, v>> \o px : k, v \in {Word("k"), Word("px"), Number(0), Word("")},
                                       px \in {<<>>, <<Number(1)>>, <<Number(5)>>}}]
=============================================================================
