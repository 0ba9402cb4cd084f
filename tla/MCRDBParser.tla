---------------------------- MODULE MCRDBParser ----------------------------
(* Small instances of RDBParser for TLC.                                   *)
EXTENDS RDBParser, SequencesExt

CONSTANTS k1, k2

Entries ==
    {<<String(k1, 1, 3)>>, <<String(k2, 1, 256)>>, <<String(k1, 2, 100)>>, <<String(k2, 2, 16384)>>}
      \cup {<<Expires(t, 2), String(k1, 3, 3)>> : t \in {"EXPIRETIME", "EXPIRETIMEMS"}}
      \cup {<<Expires("EXPIRETIMEMS", 1), String(k1, 4, 3)>>}

Db == <<Opcode("SELECTDB"), Opcode("RESIZEDB")>>
Ends == <<Opcode("EOF")>>

(* Files as Redis writes them.                                             *)
Intact ==
    {Db \o d \o e \o Ends : d, e \in Entries}
      \cup {<<Aux(9)>> \o Db \o d \o Db \o <<String(k1, 5, 3)>> \o Ends : d \in Entries}
      \cup {<<Aux(258)>> \o Db \o Ends, <<Aux(Compressed)>> \o Ends, Ends}

(* And what is left of them when a token is lost or is another one.        *)
Others == {Opcode("RESIZEDB"), Opcode("SELECTDB"), Opcode("LIST"), Opcode("EOF"), Aux(9),
           Expires("EXPIRETIMEMS", 2), String(k2, 6, 3), String(k2, 7, Compressed)}
Damaged ==
    UNION {{SubSeq(b, 1, i) : i \in 0..Len(b)}
             \cup {RemoveAt(b, i) : i \in 1..Len(b)}
             \cup {[b EXCEPT ![i] = o] : i \in 1..Len(b), o \in Others} : b \in Intact}

File(bodies) == [header : {TRUE}, version : {11}, cut : BOOLEAN, body : bodies]
                  \cup [header : {TRUE}, version : {3}, cut : {TRUE}, body : Intact]
                  \cup [header : {FALSE}, version : {11}, cut : {FALSE}, body : {Ends}]

Found == [header : {TRUE}, version : {11}, cut : {FALSE},
          body : {Ends, Db \o <<String(k1, 1, 3), Expires("EXPIRETIMEMS", 3), String(k2, 1, 3)>> \o Ends}]
           \cup [header : {TRUE}, version : {11}, cut : {TRUE}, body : {Db \o <<String(k1, 1, 3)>> \o Ends}]
Sent == File(Damaged)
=============================================================================
