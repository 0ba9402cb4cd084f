----------------------------- MODULE RDBParser -----------------------------
(***************************************************************************)
(* RDBParser and Storage::restore: loading the dump file in main, and in a *)
(* replica, after that, the database its master sent.                      *)
(*                                                                         *)
(* A file is a sequence of tokens, each an opcode with the fields that     *)
(* belong to it or an entry with its type.  A file that was cut ends in a  *)
(* token that lacks some bytes after its first.  The clock may advance     *)
(* between two entries.                                                    *)
(***************************************************************************)
EXTENDS Integers, Sequences

CONSTANTS
    Key,          \* the keys of entries
    Dump,         \* what main may find in the place of the dump file
    Snapshot,     \* what a master may send
    Second,       \* the milliseconds of a second (1000 in the code)
    MaxNow        \* bound: how far the clock goes

(* EXPIRETIME and EXPIRETIMEMS have a time, entries and AUX fields two     *)
(* strings: length is that of the longer one.  Strings that hold a number  *)
(* have a form of their own, which is read right.  LIST is any type but    *)
(* the one of strings.                                                     *)
Compressed           == -3
Opcode(t)           == [t |-> t]
Aux(length)         == [t |-> "AUX", length |-> length]
Expires(t, time)    == [t |-> t, time |-> time]
String(k, v, length) == [t |-> "STRING", key |-> k, value |-> v, length |-> length]

(* Every file that can be put together from them.                          *)
TokenForm ==
    [t : {"SELECTDB", "RESIZEDB", "LIST", "EOF"}]
      \cup [t : {"AUX"}, length : Nat \cup {Compressed}]
      \cup [t : {"EXPIRETIME", "EXPIRETIMEMS"}, time : Nat]
      \cup [t : {"STRING"}, key : Key, value : Nat, length : Nat \cup {Compressed}]

FileForm == [header : BOOLEAN, version : Nat, cut : BOOLEAN, body : Seq(TokenForm)]

ASSUME RDBAssumption ==
    /\ Dump \subseteq FileForm /\ Snapshot \subseteq FileForm
    /\ Second \in Nat /\ MaxNow \in Nat

VARIABLES
    file,         \* from: what is loaded now
    pos,          \* how many of its tokens were read
    at,           \* where parse is: header, sections, db, astray
    node,         \* loading the dump, running, loading a snapshot, ...
    storage,      \* _storage
    now,          \* the system clock
    before,       \* history: _storage when loading began
    began         \* history: the clock then

vars == <<file, pos, at, node, storage, now, before, began>>

None == [value |-> 0, expire |-> 0]

Init ==
    /\ file \in Dump /\ pos = 0 /\ at = "header" /\ node = "loads_dump"
    /\ storage = [k \in Key |-> None] /\ now = 1
    /\ before = storage /\ began = now

Parses == node \in {"loads_dump", "loads_snapshot"}

-----------------------------------------------------------------------------
(* Reading.                                                                *)

(* The next token but i, and whether all its bytes are there.              *)
Peek(i) == IF pos + i < Len(file.body) THEN file.body[pos + i + 1] ELSE Opcode("end")
Whole(i) == pos + i + 1 < Len(file.body) \/ (pos + i + 1 = Len(file.body) /\ ~ file.cut)

IsOpcode(t) == t \in {"AUX", "SELECTDB", "RESIZEDB", "EXPIRETIME", "EXPIRETIMEMS", "EOF"}

(* RDBParser::parse_length_encoding of a length as RDB files store it: 6   *)
(* bits in one byte, 14 in two, 32 in four, the highest first.  A shift    *)
(* of 8 + the second byte stands where a sum was meant, and is undefined   *)
(* from 32 on (-1 here); the four bytes are taken lowest first.            *)
Decoded14(n) ==
    LET high == n \div 256
        low  == n % 256
    IN  IF 8 + low < 32 THEN high * 2 ^ (8 + low) ELSE -1
Swapped(n) ==
    (n % 256) * 2 ^ 24 + ((n \div 2 ^ 8) % 256) * 2 ^ 16
        + ((n \div 2 ^ 16) % 256) * 2 ^ 8 + n \div 2 ^ 24
DecodedLength(n) == IF n < 64 THEN n ELSE IF n < 2 ^ 14 THEN Decoded14(n) ELSE Swapped(n)
ReadsBack(token) == DecodedLength(token.length) = token.length
IsRead(i) == Peek(i).length # Compressed /\ Whole(i)

(* Where parse goes on, having read n tokens.                              *)
GoesOn(n, where) ==
    /\ pos' = pos + n /\ at' = where
    /\ UNCHANGED <<file, node, now, before, began>>

(* The bytes of a token are taken for something else.                      *)
GoesAstray(n) == GoesOn(n, "astray") /\ UNCHANGED storage

(* RDBParseError: main ends.  A replica keeps what was restored and waits  *)
(* for another database.                                                   *)
ThrowsClearing ==
    /\ node' = IF node = "loads_dump" THEN "terminated" ELSE "waits"
    /\ storage' = [k \in Key |-> None]
    /\ UNCHANGED <<file, pos, at, now, before, began>>
Throws ==
    /\ node' = IF node = "loads_dump" THEN "terminated" ELSE "waits"
    /\ UNCHANGED <<file, pos, at, storage, now, before, began>>

Returns(n) ==
    /\ node' = IF node = "loads_dump" THEN "running" ELSE "in_sync"
    /\ pos' = pos + n
    /\ UNCHANGED <<file, at, storage, now, before, began>>

-----------------------------------------------------------------------------
(* RDBParser::parse.                                                       *)

Header ==
    /\ Parses /\ at = "header"
    /\ \/ file.header /\ GoesOn(0, "sections") /\ UNCHANGED storage
       \/ ~ file.header /\ Throws

AuxField ==
    /\ Parses /\ at = "sections" /\ Peek(0).t = "AUX"
    /\ \/ ~ ReadsBack(Peek(0)) /\ GoesAstray(1)
       \/ ReadsBack(Peek(0)) /\ IsRead(0) /\ GoesOn(1, "sections") /\ UNCHANGED storage
       \/ ReadsBack(Peek(0)) /\ ~ IsRead(0) /\ Throws

(* parse_db takes the byte behind the number of the database for an        *)
(* opcode, and any opcode but RESIZEDB for nothing.                        *)
SelectDb ==
    /\ Parses /\ at = "sections" /\ Peek(0).t = "SELECTDB"
    /\ \/ Whole(0) /\ Peek(1).t = "RESIZEDB" /\ Whole(1) /\ GoesOn(2, "db") /\ UNCHANGED storage
       \/ Whole(0) /\ IsOpcode(Peek(1).t) /\ Peek(1).t # "RESIZEDB" /\ GoesAstray(2)
       \/ ~ Whole(0) /\ Throws
       \/ Whole(0) /\ Peek(1).t = "RESIZEDB" /\ ~ Whole(1) /\ Throws
       \/ Whole(0) /\ ~ IsOpcode(Peek(1).t) /\ Throws

(* A checksum is behind it from version 5 on, and not compared.            *)
Eof ==
    /\ Parses /\ at = "sections" /\ Peek(0).t = "EOF"
    /\ \/ (Whole(0) \/ file.version < 5) /\ Returns(1)
       \/ ~ Whole(0) /\ file.version >= 5 /\ Throws

UnexpectedSection ==
    /\ Parses /\ at = "sections" /\ Peek(0).t \notin {"AUX", "SELECTDB", "EOF"}
    /\ Throws

(* One entry of parse_db, the i-th token from here, to be kept until a     *)
(* time (0 for ever).  It is skipped when that has come.                   *)
RestoreNew(k, v, expire) ==
    storage' = [storage EXCEPT ![k] = IF @ = None THEN [value |-> v, expire |-> expire] ELSE @]
Restore(k, v, expire) == storage' = [storage EXCEPT ![k] = [value |-> v, expire |-> expire]]

IsExpired(expire) == expire # 0 /\ expire <= now

EntryAt(i, expire) ==
    LET entry == Peek(i)
    IN  \/ ~ ReadsBack(entry) /\ GoesAstray(i + 1)
        \/ ReadsBack(entry) /\ ~ IsRead(i) /\ Throws
        \/ /\ ReadsBack(entry) /\ IsRead(i) /\ GoesOn(i + 1, "db")
           /\ IF IsExpired(expire) THEN UNCHANGED storage
                                   ELSE Restore(entry.key, entry.value, expire)

Entry ==
    /\ Parses /\ at = "db" /\ Peek(0).t = "STRING"
    /\ EntryAt(0, 0)

ExpireOf(token) == IF token.t = "EXPIRETIME" THEN Second * token.time ELSE token.time

ExpiringEntry ==
    /\ Parses /\ at = "db" /\ Peek(0).t \in {"EXPIRETIME", "EXPIRETIMEMS"}
    /\ \/ Whole(0) /\ Peek(1).t = "STRING" /\ EntryAt(1, ExpireOf(Peek(0)))
       \/ (~ Whole(0) \/ Peek(1).t # "STRING") /\ Throws

(* Any other byte, and the end of the file too, ends the database.         *)
EndDbReturning ==
    /\ Parses /\ at = "db" /\ Peek(0).t \notin {"STRING", "EXPIRETIME", "EXPIRETIMEMS"}
    /\ IF Peek(0).t = "end" THEN Returns(0) ELSE GoesOn(0, "sections") /\ UNCHANGED storage
EndDb ==
    /\ Parses /\ at = "db" /\ Peek(0).t \notin {"STRING", "EXPIRETIME", "EXPIRETIMEMS"}
    /\ GoesOn(0, "sections") /\ UNCHANGED storage

(* Bytes that are taken for what they are not may look like entries, like  *)
(* the end, or like nothing that is known.                                 *)
Astray ==
    /\ Parses /\ at = "astray"
    /\ \/ \E k \in Key : Restore(k, -1, 0) /\ GoesOn(0, "astray")
       \/ Throws
       \/ Returns(0)

(* ReplicaTalker::listen is given what the master sent.                    *)
ReceiveSnapshot ==
    /\ node = "running"
    /\ node' = "loads_snapshot"
    /\ file' \in Snapshot /\ pos' = 0 /\ at' = "header"
    /\ before' = storage /\ began' = now
    /\ UNCHANGED <<storage, now>>

Tick == now < MaxNow /\ now' = now + 1 /\ UNCHANGED <<file, pos, at, node, storage, before, began>>

Next ==
    \/ Header \/ AuxField \/ SelectDb \/ Eof \/ UnexpectedSection
    \/ Entry \/ ExpiringEntry \/ EndDb \/ Astray
    \/ ReceiveSnapshot \/ Tick

Spec == Init /\ [][Next]_vars

-----------------------------------------------------------------------------
(* Properties.                                                             *)

(* What a file says: its entries, each with when it expires.               *)
Token == file.body
Says(i) == Token[i].t = "STRING"
SaysExpire(i) ==
    IF i > 1 /\ Token[i - 1].t \in {"EXPIRETIME", "EXPIRETIMEMS"} THEN ExpireOf(Token[i - 1]) ELSE 0
LastFor(k, i, n) == /\ Says(i) /\ Token[i].key = k
                    /\ \A j \in i + 1..n : ~ (Says(j) /\ Token[j].key = k)

(* The order of sections that Redis writes, from the version on that has   *)
(* RESIZEDB.                                                               *)
Follows(t) ==
    CASE t \in {"start", "AUX"} -> {"AUX", "SELECTDB", "EOF"}
      [] t = "SELECTDB" -> {"RESIZEDB"}
      [] t \in {"RESIZEDB", "STRING"} -> {"STRING", "EXPIRETIME", "EXPIRETIMEMS", "SELECTDB", "EOF"}
      [] t \in {"EXPIRETIME", "EXPIRETIMEMS"} -> {"STRING"}
      [] OTHER -> {}
WellFormed ==
    /\ file.header /\ ~ file.cut /\ Token # <<>> /\ Token[Len(Token)].t = "EOF"
    /\ \A i \in DOMAIN Token :
          Token[i].t \in Follows(IF i = 1 THEN "start" ELSE Token[i - 1].t)
(* The lengths of up to 14 bits that parse_length_encoding reads right.    *)
IsShort(n) == n \in 0..63 \/ (n \in 0..16383 /\ n % 256 = 0)
Lengths == {Token[i].length : i \in {j \in DOMAIN Token : Token[j].t \in {"AUX", "STRING"}}}

Loaded == node \in {"running", "in_sync"}

(* A file that Redis wrote and that has no values but strings, which is    *)
(* all the parser knows, is loaded to its end, as long as every string is  *)
(* shorter than 64 bytes, or one whose length the shift reads right, and   *)
(* none is compressed: every entry that has not expired since is there, the *)
(* last of each key, and none that had expired when loading began.         *)
LoadsWellFormed ==
    WellFormed /\ (\A n \in Lengths : IsShort(n)) =>
        /\ node \notin {"terminated", "waits"} /\ at # "astray"
        /\ Loaded =>
             \A i \in DOMAIN Token : Says(i) =>
                LET k == Token[i].key
                IN  /\ LastFor(k, i, Len(Token)) /\ (SaysExpire(i) = 0 \/ SaysExpire(i) > now)
                         => storage[k] = [value |-> Token[i].value, expire |-> SaysExpire(i)]
                    /\ SaysExpire(i) # 0 /\ SaysExpire(i) <= began
                         => storage[k] # [value |-> Token[i].value, expire |-> SaysExpire(i)]
                            \/ before[k] = storage[k]

(* No file is taken for complete before its end was read, wherever it was  *)
(* cut and whatever it misses.                                             *)
CompleteAtEof ==
    Loaded /\ at # "astray" =>
        /\ pos > 0 /\ Token[pos].t = "EOF"
        /\ file.cut => pos < Len(Token) \/ file.version < 5

(* However loading ends, what is stored is what was there before, with the *)
(* entries over it that were read until then: an error loses nothing, and  *)
(* what came before it stays.                                              *)
RestoredSoFar ==
    at # "astray" => \A k \in Key :
        /\ storage[k] = before[k] \/ \E i \in 1..pos :
              /\ Says(i) /\ Token[i].key = k
              /\ storage[k] = [value |-> Token[i].value, expire |-> SaysExpire(i)]
        /\ \A i \in 1..pos : LastFor(k, i, pos) /\ SaysExpire(i) = 0
              => storage[k] = [value |-> Token[i].value, expire |-> 0]
=============================================================================
