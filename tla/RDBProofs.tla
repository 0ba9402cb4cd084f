----------------------------- MODULE RDBProofs -----------------------------
(***************************************************************************)
(* Theorems of RDBParser, for any files that are made of its tokens, cut   *)
(* or damaged in any place, and for any clock that goes up.                *)
(*                                                                         *)
(* parse goes through the tokens once, and is never behind an expiry that  *)
(* its entry has yet to follow.  So what it stored are the entries it      *)
(* passed, and it ends well only at EOF.  In a file that Redis wrote, what *)
(* comes next is always what it waits for.                                 *)
(***************************************************************************)
EXTENDS RDBParser, TLAPS

Expiry == {"EXPIRETIME", "EXPIRETIMEMS"}

TypeOK ==
    /\ file \in FileForm /\ pos \in 0..Len(Token)
    /\ at \in {"header", "sections", "db", "astray"}
    /\ node \in {"loads_dump", "running", "loads_snapshot", "in_sync", "terminated", "waits"}
    /\ DOMAIN storage = Key
    /\ now \in Nat /\ began \in Nat /\ began <= now

(* Where parse is, the token before it is no expiry; at the header it read *)
(* nothing.                                                                *)
Placed ==
    /\ at = "header" => pos = 0
    /\ at # "astray" /\ pos > 0 => Token[pos].t \notin Expiry

-----------------------------------------------------------------------------
(* Tokens.                                                                 *)

(* The tokens of a file have their forms.                                  *)
LEMMA TokenIs ==
  ASSUME TypeOK
  PROVE  /\ Len(Token) \in Nat /\ DOMAIN Token = 1..Len(Token)
         /\ \A i \in 1..Len(Token) : Token[i] \in TokenForm
  <1>1. Token \in Seq(TokenForm)
    BY DEF TypeOK, FileForm, Token
  <1> QED BY <1>1

(* What parse sees next is a token of the file, unless it is at the end.   *)
LEMMA PeekIs ==
  ASSUME TypeOK, NEW i \in {0, 1}
  PROVE  \/ Peek(i).t = "end" /\ pos + i >= Len(Token)
         \/ /\ pos + i + 1 \in 1..Len(Token) /\ Peek(i) = Token[pos + i + 1]
            /\ Peek(i) \in TokenForm /\ Peek(i).t # "end"
  <1>1. /\ Len(Token) \in Nat /\ pos \in Nat /\ pos <= Len(Token)
        /\ \A j \in 1..Len(Token) : Token[j] \in TokenForm
    <2>1. Len(Token) \in Nat /\ \A j \in 1..Len(Token) : Token[j] \in TokenForm
      BY TokenIs
    <2>2. pos \in 0..Len(Token)
      BY DEF TypeOK
    <2> QED BY <2>1, <2>2
  <1>2. CASE pos + i < Len(Token)
    <2>1. pos + i + 1 \in 1..Len(Token) /\ Peek(i) = Token[pos + i + 1]
      BY <1>1, <1>2 DEF Peek, Token
    <2>2. Peek(i).t # "end" /\ Peek(i) \in TokenForm
      BY <1>1, <2>1 DEF TokenForm
    <2> QED BY <2>1, <2>2
  <1>3. CASE ~ (pos + i < Len(Token))
    BY <1>1, <1>3 DEF Peek, Token, Opcode
  <1> QED BY <1>2, <1>3

(* What an entry and its expiry hold.                                      *)
LEMMA TokenParts ==
  ASSUME NEW token \in TokenForm
  PROVE  /\ token.t = "STRING" => token.key \in Key /\ token.length \in Nat \cup {Compressed}
         /\ token.t = "AUX" => token.length \in Nat \cup {Compressed}
         /\ token.t \in Expiry => ExpireOf(token) \in Int
  <1>1. token.t \in Expiry => token.time \in Nat
    BY DEF TokenForm, Expiry
  <1>2. token.t \in Expiry => ExpireOf(token) \in Int
    BY <1>1, RDBAssumption DEF ExpireOf
  <1> QED BY <1>2 DEF TokenForm

(* When an entry expires.                                                  *)
LEMMA SaysExpireIs ==
  ASSUME TypeOK, NEW i \in 1..Len(Token) PROVE SaysExpire(i) \in Int
  <1>1. CASE i > 1 /\ Token[i - 1].t \in Expiry
    <2>1. Len(Token) \in Nat /\ i - 1 \in 1..Len(Token)
      BY <1>1, TokenIs
    <2>2. ExpireOf(Token[i - 1]) \in Int
      BY <1>1, <2>1, TokenIs, TokenParts
    <2> QED BY <1>1, <2>2 DEF SaysExpire, Expiry
  <1>2. CASE ~ (i > 1 /\ Token[i - 1].t \in Expiry)
    BY <1>2 DEF SaysExpire, Expiry
  <1> QED BY <1>1, <1>2

-----------------------------------------------------------------------------
(* Steps.                                                                  *)

(* parse passes an entry, the m-th token, and keeps it unless it expired.  *)
Passes(m) ==
    /\ Parses /\ at = "db"
    /\ pos' = m /\ at' = "db" /\ m \in 1..Len(Token) /\ pos < m
    /\ Says(m) /\ \A j \in pos + 1..m - 1 : ~ Says(j)
    /\ ReadsBack(Token[m])
    /\ UNCHANGED <<file, node, now, before, began>>
    /\ IF IsExpired(SaysExpire(m)) THEN UNCHANGED storage
                                   ELSE Restore(Token[m].key, Token[m].value, SaysExpire(m))

(* parse cannot read a token that is there: its length is misread, or the  *)
(* token is cut or compressed.                                             *)
Misreads == Parses /\ (\E n \in {1, 2} : pos + n <= Len(Token) /\ GoesAstray(n))
Fails == Parses /\ Throws

(* What parse does with an entry.                                          *)
LEMMA EntrySteps ==
  ASSUME TypeOK, Placed, Entry \/ ExpiringEntry
  PROVE  Fails \/ Misreads \/ \E m \in 1..Len(Token) : Passes(m)
  <1>1. /\ Len(Token) \in Nat /\ pos \in Nat /\ pos <= Len(Token)
        /\ \A j \in 1..Len(Token) : Token[j] \in TokenForm
    <2>1. Len(Token) \in Nat /\ \A j \in 1..Len(Token) : Token[j] \in TokenForm
      BY TokenIs
    <2>2. pos \in 0..Len(Token)
      BY DEF TypeOK
    <2> QED BY <2>1, <2>2
  <1>2. ASSUME NEW i \in {0, 1}, NEW expire, EntryAt(i, expire), Parses, at = "db",
               Peek(i).t = "STRING", expire = SaysExpire(pos + i + 1),
               \A j \in pos + 1..pos + i : ~ Says(j)
        PROVE  Fails \/ Misreads \/ \E m \in 1..Len(Token) : Passes(m)
    <2>1. pos + i + 1 \in 1..Len(Token) /\ Peek(i) = Token[pos + i + 1]
      BY <1>2, PeekIs
    <2>2. CASE ~ ReadsBack(Peek(i)) /\ GoesAstray(i + 1)
      <3>1. i + 1 \in {1, 2} /\ pos + (i + 1) <= Len(Token)
        BY <1>1, <2>1
      <3> QED BY <1>2, <2>2, <3>1 DEF Misreads
    <2>3. CASE Throws
      BY <1>2, <2>3 DEF Fails
    <2>4. CASE /\ ReadsBack(Peek(i)) /\ GoesOn(i + 1, "db")
               /\ IF IsExpired(expire) THEN UNCHANGED storage
                                       ELSE Restore(Peek(i).key, Peek(i).value, expire)
      <3>1. PICK m \in 1..Len(Token) : m = pos + i + 1 /\ m - 1 = pos + i /\ pos < m
        BY <1>1, <2>1
      <3>2. /\ pos' = m /\ at' = "db" /\ UNCHANGED <<file, node, now, before, began>>
            /\ Says(m) /\ ReadsBack(Token[m])
        BY <1>1, <1>2, <2>1, <2>4, <3>1 DEF GoesOn, Says
      <3>3. \A j \in pos + 1..m - 1 : ~ Says(j)
        BY <1>2, <3>1
      <3>4. IF IsExpired(SaysExpire(m)) THEN UNCHANGED storage
            ELSE Restore(Token[m].key, Token[m].value, SaysExpire(m))
        BY <1>2, <2>1, <2>4, <3>1
      <3>5. Passes(m)
        BY <1>2, <3>1, <3>2, <3>3, <3>4 DEF Passes
      <3> QED BY <3>5
    <2> QED BY <1>2, <2>2, <2>3, <2>4 DEF EntryAt
  <1>3. CASE Entry
    <2>1. Parses /\ at = "db" /\ Peek(0).t = "STRING" /\ EntryAt(0, 0)
      BY <1>3 DEF Entry
    <2>2. SaysExpire(pos + 0 + 1) = 0
      BY <1>1, <2>1 DEF SaysExpire, Placed, Expiry
    <2>3. \A j \in pos + 1..pos + 0 : ~ Says(j)
      BY <1>1
    <2> QED BY <1>2, <2>1, <2>2, <2>3
  <1>4. CASE ExpiringEntry
    <2>1. CASE Throws
      BY <1>4, <2>1 DEF ExpiringEntry, Fails
    <2>2. CASE Peek(1).t = "STRING" /\ EntryAt(1, ExpireOf(Peek(0)))
      <3>1. Parses /\ at = "db" /\ Peek(0).t \in Expiry
        BY <1>4 DEF ExpiringEntry, Expiry
      <3>2. pos + 0 + 1 \in 1..Len(Token) /\ Peek(0) = Token[pos + 0 + 1]
        BY <3>1, PeekIs DEF Expiry
      <3>3. SaysExpire(pos + 1 + 1) = ExpireOf(Peek(0))
        <4>1. pos + 1 + 1 > 1 /\ pos + 1 + 1 - 1 = pos + 1 /\ pos + 0 + 1 = pos + 1
          BY <1>1
        <4> QED BY <3>1, <3>2, <4>1 DEF SaysExpire, Expiry
      <3>4. \A j \in pos + 1..pos + 1 : ~ Says(j)
        BY <1>1, <3>1, <3>2 DEF Says, Expiry
      <3> QED BY <1>2, <2>2, <3>1, <3>3, <3>4
    <2> QED BY <1>4, <2>1, <2>2 DEF ExpiringEntry
  <1> QED BY <1>3, <1>4

(* parse goes past tokens that are no entries and no expiries.             *)
SkipsTo(n, where) ==
    /\ Parses /\ at # "astray" /\ n \in 0..2 /\ where \in {"sections", "db"}
    /\ pos + n <= Len(Token) /\ GoesOn(n, where) /\ UNCHANGED storage
    /\ \A j \in pos + 1..pos + n : Token[j].t \notin Expiry \cup {"STRING"}
Skips == \E n \in 0..2, where \in {"sections", "db"} : SkipsTo(n, where)

(* parse returns at EOF.                                                   *)
Ends ==
    /\ Parses /\ at = "sections" /\ pos + 1 <= Len(Token) /\ Token[pos + 1].t = "EOF"
    /\ file.cut => pos + 1 < Len(Token) \/ file.version < 5
    /\ Returns(1)

(* What parse does with a section.                                         *)
LEMMA SectionSteps ==
  ASSUME TypeOK, Header \/ AuxField \/ SelectDb \/ Eof \/ UnexpectedSection \/ EndDb
  PROVE  Fails \/ Misreads \/ Skips \/ Ends
  <1>1. Len(Token) \in Nat /\ pos \in Nat /\ pos <= Len(Token)
    <2>1. Len(Token) \in Nat /\ pos \in 0..Len(Token)
      BY TokenIs DEF TypeOK
    <2> QED BY <2>1
  <1>2. ASSUME NEW where \in {"sections", "db"}, Parses, at # "astray", GoesOn(0, where),
               UNCHANGED storage
        PROVE  Skips
    <2>1. pos + 0 <= Len(Token) /\ 0 \in 0..2 /\ pos + 1..pos + 0 = {}
      BY <1>1
    <2> QED BY <1>2, <2>1 DEF Skips, SkipsTo
  <1>3. CASE Header
    BY <1>2, <1>3 DEF Header, Fails
  <1>4. CASE EndDb
    BY <1>2, <1>4 DEF EndDb
  <1>5. CASE UnexpectedSection
    BY <1>5 DEF UnexpectedSection, Fails
  <1>6. CASE AuxField
    <2>1. Parses /\ at = "sections" /\ Peek(0).t = "AUX"
      BY <1>6 DEF AuxField
    <2>2. pos + 0 + 1 \in 1..Len(Token) /\ Peek(0) = Token[pos + 0 + 1]
      BY <2>1, PeekIs
    <2>3. pos + 1 <= Len(Token) /\ Token[pos + 1].t = "AUX"
      BY <1>1, <2>1, <2>2
    <2>4. CASE GoesAstray(1)
      BY <2>1, <2>3, <2>4 DEF Misreads
    <2>5. CASE GoesOn(1, "sections") /\ UNCHANGED storage
      <3>1. \A j \in pos + 1..pos + 1 : Token[j].t \notin Expiry \cup {"STRING"}
        BY <1>1, <2>3 DEF Expiry
      <3>2. SkipsTo(1, "sections")
        BY <2>1, <2>3, <2>5, <3>1 DEF SkipsTo
      <3> QED BY <3>2 DEF Skips
    <2> QED BY <1>6, <2>1, <2>4, <2>5 DEF AuxField, Fails
  <1>7. CASE SelectDb
    <2>1. Parses /\ at = "sections" /\ Peek(0).t = "SELECTDB"
      BY <1>7 DEF SelectDb
    <2>2. pos + 0 + 1 \in 1..Len(Token) /\ Peek(0) = Token[pos + 0 + 1]
      BY <2>1, PeekIs
    <2>3. Token[pos + 1].t = "SELECTDB"
      BY <1>1, <2>1, <2>2
    <2>4. ASSUME Peek(1).t # "end"
          PROVE  pos + 2 <= Len(Token) /\ Peek(1) = Token[pos + 2]
      BY <1>1, <2>4, PeekIs
    <2>5. CASE IsOpcode(Peek(1).t) /\ GoesAstray(2)
      <3>1. Peek(1).t # "end"
        BY <2>5 DEF IsOpcode
      <3> QED BY <2>1, <2>4, <2>5, <3>1 DEF Misreads
    <2>6. CASE Peek(1).t = "RESIZEDB" /\ GoesOn(2, "db") /\ UNCHANGED storage
      <3>1. pos + 2 <= Len(Token) /\ Token[pos + 2].t = "RESIZEDB"
        BY <2>4, <2>6
      <3>2. \A j \in pos + 1..pos + 2 : j = pos + 1 \/ j = pos + 2
        BY <1>1
      <3>3. SkipsTo(2, "db")
        BY <2>1, <2>3, <2>6, <3>1, <3>2 DEF SkipsTo, Expiry
      <3> QED BY <3>3 DEF Skips
    <2> QED BY <1>7, <2>1, <2>5, <2>6 DEF SelectDb, Fails
  <1>8. CASE Eof
    <2>1. Parses /\ at = "sections" /\ Peek(0).t = "EOF"
      BY <1>8 DEF Eof
    <2>2. pos + 0 + 1 \in 1..Len(Token) /\ Peek(0) = Token[pos + 0 + 1]
      BY <2>1, PeekIs
    <2>3. pos + 1 <= Len(Token) /\ Token[pos + 1].t = "EOF"
      BY <1>1, <2>1, <2>2
    <2>4. CASE Throws
      BY <2>1, <2>4 DEF Fails
    <2>5. CASE (Whole(0) \/ file.version < 5) /\ Returns(1)
      <3>1. Whole(0) => pos + 1 < Len(Token) \/ ~ file.cut
        BY <1>1 DEF Whole, Token
      <3> QED BY <2>1, <2>3, <2>5, <3>1 DEF Ends
    <2> QED BY <1>8, <2>4, <2>5 DEF Eof
  <1> QED BY <1>3, <1>4, <1>5, <1>6, <1>7, <1>8

(* Every step of a node.                                                   *)
LEMMA Steps ==
  ASSUME TypeOK, Placed, [Next]_vars
  PROVE  \/ Fails \/ Misreads \/ Skips \/ Ends \/ \E m \in 1..Len(Token) : Passes(m)
         \/ Astray \/ ReceiveSnapshot \/ Tick \/ UNCHANGED vars
  BY EntrySteps, SectionSteps DEF Next

(* The state at first.                                                     *)
LEMMA PlacedInit == Init => TypeOK /\ Placed
  <1> SUFFICES ASSUME Init PROVE TypeOK /\ Placed
    OBVIOUS
  <1>1. file \in FileForm
    BY RDBAssumption DEF Init
  <1>2. Len(Token) \in Nat
    BY <1>1 DEF FileForm, Token
  <1>3. pos = 0 /\ now = 1 /\ began = now /\ DOMAIN storage = Key
        /\ node = "loads_dump" /\ at = "header"
    BY DEF Init
  <1>4. pos \in 0..Len(Token)
    BY <1>2, <1>3
  <1>5. now \in Nat /\ began \in Nat /\ began <= now
    BY <1>3
  <1> QED BY <1>1, <1>3, <1>4, <1>5 DEF TypeOK, Placed

(* Every step keeps the types, and parse where it may be.                  *)
LEMMA PlacedStep == ASSUME TypeOK, Placed, [Next]_vars PROVE TypeOK' /\ Placed'
  <1>1. Len(Token) \in Nat /\ pos \in Nat /\ pos <= Len(Token)
    <2>1. Len(Token) \in Nat /\ pos \in 0..Len(Token)
      BY TokenIs DEF TypeOK
    <2> QED BY <2>1
  <1>2. CASE Fails
    BY <1>2 DEF Fails, Throws, TypeOK, Placed, Token
  <1>3. CASE Misreads
    <2>1. PICK n \in {1, 2} : pos + n <= Len(Token) /\ GoesAstray(n)
      BY <1>3 DEF Misreads
    <2>2. pos' \in 0..Len(Token) /\ UNCHANGED <<file, node, now, began, storage>> /\ at' = "astray"
      BY <1>1, <2>1 DEF GoesAstray, GoesOn
    <2> QED BY <2>2 DEF TypeOK, Placed, Token
  <1>4. CASE Skips
    <2>1. PICK n \in 0..2, where \in {"sections", "db"} : SkipsTo(n, where)
      BY <1>4 DEF Skips
    <2>2. /\ pos' = pos + n /\ UNCHANGED <<file, node, now, began, storage>> /\ at' = where
          /\ pos + n <= Len(Token) /\ at # "astray"
      BY <2>1 DEF SkipsTo, GoesOn
    <2>3. pos' \in 0..Len(Token)
      BY <1>1, <2>2
    <2>4. pos' > 0 => Token[pos'].t \notin Expiry
      <3>1. CASE n = 0
        BY <1>1, <2>2, <3>1 DEF Placed
      <3>2. CASE n # 0
        <4>1. pos + n \in pos + 1..pos + n
          BY <1>1, <3>2
        <4> QED BY <2>1, <2>2, <4>1 DEF SkipsTo
      <3> QED BY <3>1, <3>2
    <2> QED BY <2>2, <2>3, <2>4 DEF TypeOK, Placed, Token
  <1>5. CASE Ends
    <2>1. /\ pos' = pos + 1 /\ UNCHANGED <<file, at, now, began, storage>>
          /\ node' \in {"running", "in_sync"} /\ at = "sections"
          /\ pos + 1 <= Len(Token) /\ Token[pos + 1].t = "EOF"
      BY <1>5 DEF Ends, Returns
    <2>2. pos' \in 0..Len(Token)
      BY <1>1, <2>1
    <2> QED BY <2>1, <2>2 DEF TypeOK, Placed, Token, Expiry
  <1>6. ASSUME NEW m \in 1..Len(Token), Passes(m) PROVE TypeOK' /\ Placed'
    <2>1. /\ pos' = m /\ UNCHANGED <<file, node, now, began>> /\ at' = "db"
          /\ Token[m].t = "STRING" /\ DOMAIN storage' = Key
      BY <1>6 DEF Passes, Says, Restore, TypeOK
    <2>2. m \in 0..Len(Token)
      BY <1>1
    <2> QED BY <2>1, <2>2 DEF TypeOK, Placed, Token, Expiry
  <1>7. CASE Astray
    <2>1. /\ pos' = pos /\ UNCHANGED <<file, at, now, began>> /\ at = "astray"
          /\ node' \in {node, "terminated", "waits", "running", "in_sync"}
          /\ DOMAIN storage' = Key
      BY <1>1, <1>7 DEF Astray, Restore, GoesOn, Throws, Returns, TypeOK
    <2> QED BY <2>1 DEF TypeOK, Placed, Token
  <1>8. CASE ReceiveSnapshot
    <2>1. /\ file' \in FileForm /\ pos' = 0 /\ at' = "header" /\ node' = "loads_snapshot"
          /\ UNCHANGED <<storage, now>> /\ began' = now
      BY <1>8, RDBAssumption DEF ReceiveSnapshot
    <2>2. Len(Token') \in Nat
      BY <2>1 DEF FileForm, Token
    <2>3. pos' \in 0..Len(Token')
      BY <2>1, <2>2
    <2>4. began' \in Nat /\ now' \in Nat /\ began' <= now'
      BY <2>1 DEF TypeOK
    <2> QED BY <2>1, <2>3, <2>4 DEF TypeOK, Placed
  <1>9. CASE Tick
    BY <1>9 DEF Tick, TypeOK, Placed, Token
  <1>10. CASE UNCHANGED vars
    BY <1>10 DEF vars, TypeOK, Placed, Token
  <1> QED BY <1>2, <1>3, <1>4, <1>5, <1>6, <1>7, <1>8, <1>9, <1>10, Steps

(* The types of the variables, and where parse is.                         *)
THEOREM PlacedCorrect == Spec => [](TypeOK /\ Placed)
  BY PlacedInit, PlacedStep, PTL DEF Spec

-----------------------------------------------------------------------------
(* Files end at EOF.                                                       *)

(* Every step keeps it.                                                    *)
LEMMA CompleteStep ==
  ASSUME TypeOK, Placed, CompleteAtEof, [Next]_vars PROVE CompleteAtEof'
  <1>1. CASE Fails \/ Misreads \/ Skips
    <2>1. node' \notin {"running", "in_sync"}
      BY <1>1 DEF Fails, Throws, Misreads, GoesAstray, Skips, SkipsTo, GoesOn, Parses
    <2> QED BY <2>1 DEF CompleteAtEof, Loaded
  <1>2. CASE Ends
    <2>1. pos' = pos + 1 /\ file' = file /\ pos \in Nat
      BY <1>2 DEF Ends, Returns, TypeOK
    <2>2. pos + 1 > 0
      BY <2>1
    <2> QED BY <1>2, <2>1, <2>2 DEF Ends, CompleteAtEof, Token
  <1>3. ASSUME NEW m \in 1..Len(Token), Passes(m) PROVE CompleteAtEof'
    <2>1. at' = "db" /\ node' = node /\ Token[m].t = "STRING"
      BY <1>3 DEF Passes, Says
    <2>2. Loaded' => FALSE
      <3>1. Parses
        BY <1>3 DEF Passes
      <3> QED BY <2>1, <3>1 DEF Loaded, Parses
    <2> QED BY <2>2 DEF CompleteAtEof
  <1>4. CASE Astray
    BY <1>4 DEF Astray, GoesOn, Throws, Returns, CompleteAtEof
  <1>5. CASE ReceiveSnapshot
    BY <1>5 DEF ReceiveSnapshot, CompleteAtEof, Loaded
  <1>6. CASE Tick \/ UNCHANGED vars
    BY <1>6 DEF Tick, vars, CompleteAtEof, Loaded, Token
  <1> QED BY <1>1, <1>2, <1>3, <1>4, <1>5, <1>6, Steps

(* No file is taken for complete before its end was read, wherever it was  *)
(* cut and whatever it misses.                                             *)
THEOREM CompleteCorrect == Spec => []CompleteAtEof
  <1>1. Init => CompleteAtEof
    BY DEF Init, CompleteAtEof, Loaded
  <1>2. (TypeOK /\ Placed) /\ CompleteAtEof /\ [Next]_vars => CompleteAtEof'
    BY CompleteStep
  <1> QED BY PlacedCorrect, <1>1, <1>2, PTL DEF Spec

-----------------------------------------------------------------------------
(* What is stored.                                                         *)

EntryOf(i) == [value |-> Token[i].value, expire |-> SaysExpire(i)]

(* What is stored for a key was there before, or is an entry that had not  *)
(* expired when loading began; and the last one that was passed is there   *)
(* unless it has expired since.                                            *)
HasOnly(k) ==
    storage[k] = before[k] \/ \E i \in 1..pos :
        /\ Says(i) /\ Token[i].key = k /\ storage[k] = EntryOf(i)
        /\ SaysExpire(i) = 0 \/ SaysExpire(i) > began
HasLast(k) ==
    \A i \in 1..pos : LastFor(k, i, pos) /\ (SaysExpire(i) = 0 \/ SaysExpire(i) > now)
        => storage[k] = EntryOf(i)
Restored == at # "astray" => \A k \in Key : HasOnly(k) /\ HasLast(k)

(* It stays so if parse goes past tokens that are no entries, or time goes *)
(* by.                                                                     *)
LEMMA StillRestored ==
  ASSUME TypeOK, Restored, at # "astray", UNCHANGED <<file, storage, before, began>>,
         pos' \in Nat, pos <= pos', \A j \in pos + 1..pos' : ~ Says(j),
         pos' <= Len(Token), now' \in Nat, now <= now'
  PROVE  Restored'
  <1>1. pos \in Nat /\ Len(Token) \in Nat /\ now \in Nat
    <2>1. pos \in 0..Len(Token) /\ now \in Nat /\ Len(Token) \in Nat
      BY TokenIs DEF TypeOK
    <2> QED BY <2>1
  <1>2. ASSUME NEW i PROVE Says(i)' = Says(i) /\ SaysExpire(i)' = SaysExpire(i)
                           /\ EntryOf(i)' = EntryOf(i) /\ Token' = Token
    BY DEF Says, SaysExpire, EntryOf, Token, ExpireOf
  <1>3. ASSUME NEW k \in Key PROVE HasOnly(k)'
    <2>1. \A i \in 1..pos : i \in 1..pos'
      BY <1>1
    <2>2. HasOnly(k)
      BY <1>3 DEF Restored
    <2> QED BY <1>2, <2>1, <2>2 DEF HasOnly
  <1>4. ASSUME NEW k \in Key, NEW i \in 1..pos', LastFor(k, i, pos)',
               SaysExpire(i) = 0 \/ SaysExpire(i) > now'
        PROVE  storage[k] = EntryOf(i)
    <2>1. Says(i) /\ Token[i].key = k /\ \A j \in i + 1..pos' : ~ (Says(j) /\ Token[j].key = k)
      BY <1>2, <1>4 DEF LastFor
    <2>2. i \in 1..pos
      <3>1. i \notin pos + 1..pos'
        BY <2>1
      <3> QED BY <1>1, <3>1
    <2>3. LastFor(k, i, pos)
      <3>1. \A j \in i + 1..pos : j \in i + 1..pos'
        BY <1>1
      <3> QED BY <2>1, <3>1 DEF LastFor
    <2>4. SaysExpire(i) = 0 \/ SaysExpire(i) > now
      <3>1. i \in 1..Len(Token)
        BY <1>1, <1>4
      <3>2. SaysExpire(i) \in Int
        BY <3>1, SaysExpireIs
      <3> QED BY <1>1, <1>4, <3>2
    <2> QED BY <2>2, <2>3, <2>4 DEF Restored, HasLast
  <1>5. ASSUME NEW k \in Key PROVE HasLast(k)'
    BY <1>2, <1>4 DEF HasLast
  <1> QED BY <1>3, <1>5 DEF Restored

(* An entry that is passed takes the place of what was there for its key.  *)
LEMMA PassesRestored ==
  ASSUME TypeOK, Restored, at # "astray", NEW m \in 1..Len(Token), Passes(m)
  PROVE  Restored'
  <1> DEFINE l == Token[m].key
  <1>1. /\ pos \in Nat /\ Len(Token) \in Nat /\ now \in Nat /\ began \in Nat /\ began <= now
        /\ DOMAIN storage = Key
    <2>1. pos \in 0..Len(Token) /\ Len(Token) \in Nat
      BY TokenIs DEF TypeOK
    <2> QED BY <2>1 DEF TypeOK
  <1>2. /\ pos' = m /\ pos < m /\ UNCHANGED <<file, now, before, began>>
        /\ Says(m) /\ \A j \in pos + 1..m - 1 : ~ Says(j)
        /\ IF IsExpired(SaysExpire(m)) THEN UNCHANGED storage
                                       ELSE Restore(l, Token[m].value, SaysExpire(m))
    BY DEF Passes
  <1>3. ASSUME NEW i PROVE Says(i)' = Says(i) /\ SaysExpire(i)' = SaysExpire(i)
                           /\ EntryOf(i)' = EntryOf(i) /\ Token' = Token
    BY <1>2 DEF Says, SaysExpire, EntryOf, Token, ExpireOf
  <1>4. l \in Key
    <2>1. Token[m] \in TokenForm
      BY TokenIs
    <2> QED BY <1>2, <2>1, TokenParts DEF Says
  <1>5. SaysExpire(m) \in Int
    BY SaysExpireIs
  <1>6. \/ IsExpired(SaysExpire(m)) /\ storage' = storage
        \/ ~ IsExpired(SaysExpire(m)) /\ storage'[l] = EntryOf(m)
           /\ \A k \in Key : k # l => storage'[k] = storage[k]
    BY <1>1, <1>2, <1>4 DEF Restore, EntryOf
  <1>7. IsExpired(SaysExpire(m)) <=> ~ (SaysExpire(m) = 0 \/ SaysExpire(m) > now)
    BY <1>1, <1>5 DEF IsExpired
  <1>8. \A i \in 1..pos : i \in 1..m
    BY <1>1, <1>2
  <1>9. ASSUME NEW k \in Key PROVE HasOnly(k)'
    <2>1. CASE storage'[k] = storage[k]
      <3>1. HasOnly(k)
        BY DEF Restored
      <3> QED BY <1>2, <1>3, <1>8, <2>1, <3>1 DEF HasOnly
    <2>2. CASE storage'[k] # storage[k]
      <3>1. k = l /\ storage'[k] = EntryOf(m) /\ (SaysExpire(m) = 0 \/ SaysExpire(m) > now)
        BY <1>6, <1>7, <2>2
      <3>2. SaysExpire(m) = 0 \/ SaysExpire(m) > began
        BY <1>1, <1>5, <3>1
      <3>3. m \in 1..m
        BY <1>1
      <3> QED BY <1>2, <1>3, <3>1, <3>2, <3>3 DEF HasOnly
    <2> QED BY <2>1, <2>2
  <1>10. ASSUME NEW k \in Key, NEW i \in 1..m, LastFor(k, i, pos)',
                SaysExpire(i) = 0 \/ SaysExpire(i) > now
         PROVE  storage'[k] = EntryOf(i)
    <2>1. Says(i) /\ Token[i].key = k /\ \A j \in i + 1..m : ~ (Says(j) /\ Token[j].key = k)
      BY <1>2, <1>3, <1>10 DEF LastFor
    <2>2. CASE i = m
      BY <1>6, <1>7, <1>10, <2>1, <2>2
    <2>3. CASE i # m
      <3>1. i \in 1..pos
        <4>1. i \notin pos + 1..m - 1
          BY <1>2, <2>1
        <4> QED BY <1>1, <1>2, <2>3, <4>1
      <3>2. m \in i + 1..m /\ \A j \in i + 1..pos : j \in i + 1..m
        BY <1>1, <1>2, <3>1
      <3>3. k # l
        BY <1>2, <2>1, <3>2
      <3>4. storage'[k] = storage[k]
        BY <1>6, <3>3
      <3>5. LastFor(k, i, pos)
        BY <2>1, <3>2 DEF LastFor
      <3> QED BY <1>10, <3>1, <3>4, <3>5 DEF Restored, HasLast
    <2> QED BY <2>2, <2>3
  <1>11. ASSUME NEW k \in Key PROVE HasLast(k)'
    BY <1>2, <1>3, <1>10 DEF HasLast
  <1> QED BY <1>9, <1>11 DEF Restored

(* Every step keeps what is stored.                                        *)
LEMMA RestoredStep == ASSUME TypeOK, Placed, Restored, [Next]_vars PROVE Restored'
  <1>1. pos \in Nat /\ pos <= Len(Token) /\ Len(Token) \in Nat /\ now \in Nat
    <2>1. pos \in 0..Len(Token) /\ now \in Nat /\ Len(Token) \in Nat
      BY TokenIs DEF TypeOK
    <2> QED BY <2>1
  <1>2. ASSUME at # "astray", UNCHANGED <<file, storage, before, began, pos>>,
               now' \in Nat, now <= now'
        PROVE  Restored'
    <2>1. pos <= pos' /\ pos' \in Nat /\ pos + 1..pos' = {} /\ pos' <= Len(Token)
      BY <1>1, <1>2
    <2> QED BY <1>2, <2>1, StillRestored
  <1>3. CASE at = "astray" /\ ~ ReceiveSnapshot
    <2>1. at' = "astray"
      <3>1. CASE Fails
        BY <1>3, <3>1 DEF Fails, Throws
      <3>2. CASE Misreads
        BY <1>3, <3>2 DEF Misreads, GoesAstray, GoesOn
      <3>3. CASE Skips \/ Ends \/ \E m \in 1..Len(Token) : Passes(m)
        BY <1>3, <3>3 DEF Skips, SkipsTo, Ends, Passes
      <3>4. CASE Astray
        BY <1>3, <3>4 DEF Astray, GoesOn, Throws, Returns
      <3>5. CASE Tick \/ UNCHANGED vars
        BY <1>3, <3>5 DEF Tick, vars
      <3> QED BY <1>3, <3>1, <3>2, <3>3, <3>4, <3>5, Steps
    <2> QED BY <2>1 DEF Restored
  <1>4. CASE ReceiveSnapshot
    <2>1. pos' = 0 /\ storage' = before'
      BY <1>4 DEF ReceiveSnapshot
    <2>2. 1..pos' = {}
      BY <2>1
    <2> QED BY <2>1, <2>2 DEF Restored, HasOnly, HasLast
  <1>5. CASE at # "astray" /\ (Fails \/ Tick \/ UNCHANGED vars)
    <2>1. UNCHANGED <<file, storage, before, began, pos>>
      BY <1>5 DEF Fails, Throws, Tick, vars
    <2>2. now' \in Nat /\ now <= now'
      BY <1>1, <1>5 DEF Fails, Throws, Tick, vars
    <2> QED BY <1>2, <1>5, <2>1, <2>2
  <1>6. CASE Misreads
    BY <1>6 DEF Misreads, GoesAstray, GoesOn, Restored
  <1>7. CASE Skips
    <2>1. PICK n \in 0..2, where \in {"sections", "db"} : SkipsTo(n, where)
      BY <1>7 DEF Skips
    <2>2. /\ pos' = pos + n /\ pos + n <= Len(Token) /\ at # "astray"
          /\ UNCHANGED <<file, storage, before, began, now>>
      BY <2>1 DEF SkipsTo, GoesOn
    <2>3. \A j \in pos + 1..pos' : ~ Says(j)
      BY <2>1, <2>2 DEF SkipsTo, Says
    <2>4. pos' \in Nat /\ pos <= pos' /\ pos' <= Len(Token) /\ now' \in Nat /\ now <= now'
      BY <1>1, <2>2
    <2> QED BY <2>2, <2>3, <2>4, StillRestored
  <1>8. CASE Ends
    <2>1. /\ pos' = pos + 1 /\ pos + 1 <= Len(Token) /\ at # "astray" /\ Token[pos + 1].t = "EOF"
          /\ UNCHANGED <<file, storage, before, began, now>>
      BY <1>8 DEF Ends, Returns
    <2>2. \A j \in pos + 1..pos' : ~ Says(j)
      BY <1>1, <2>1 DEF Says
    <2>3. pos' \in Nat /\ pos <= pos' /\ pos' <= Len(Token) /\ now' \in Nat /\ now <= now'
      BY <1>1, <2>1
    <2> QED BY <2>1, <2>2, <2>3, StillRestored
  <1>9. ASSUME at # "astray", NEW m \in 1..Len(Token), Passes(m) PROVE Restored'
    BY <1>9, PassesRestored
  <1>10. at = "astray" \/ ~ Astray
    BY DEF Astray
  <1> QED BY <1>3, <1>4, <1>5, <1>6, <1>7, <1>8, <1>9, <1>10, Steps

(* What is stored was there before or was passed, in every run.            *)
THEOREM RestoredCorrect == Spec => []Restored
  <1>1. Init => Restored
    <2> SUFFICES ASSUME Init PROVE Restored
      OBVIOUS
    <2>1. pos = 0 /\ storage = before
      BY DEF Init
    <2>2. 1..pos = {}
      BY <2>1
    <2> QED BY <2>1, <2>2 DEF Restored, HasOnly, HasLast
  <1>2. (TypeOK /\ Placed) /\ Restored /\ [Next]_vars => Restored'
    BY RestoredStep
  <1> QED BY PlacedCorrect, <1>1, <1>2, PTL DEF Spec

(* However loading ends, what is stored is what was there before, with the *)
(* entries over it that were read until then: an error loses nothing, and  *)
(* what came before it stays.                                              *)
THEOREM SoFarCorrect == Spec => []RestoredSoFar
  <1>1. Restored => RestoredSoFar
    <2> SUFFICES ASSUME Restored, at # "astray", NEW k \in Key
                 PROVE  /\ storage[k] = before[k] \/ \E i \in 1..pos :
                              /\ Says(i) /\ Token[i].key = k
                              /\ storage[k] = [value |-> Token[i].value, expire |-> SaysExpire(i)]
                        /\ \A i \in 1..pos : LastFor(k, i, pos) /\ SaysExpire(i) = 0
                              => storage[k] = [value |-> Token[i].value, expire |-> 0]
      BY DEF RestoredSoFar
    <2>1. HasOnly(k) /\ HasLast(k)
      BY DEF Restored
    <2>2. \A i \in 1..pos : LastFor(k, i, pos) /\ SaysExpire(i) = 0
             => storage[k] = [value |-> Token[i].value, expire |-> 0]
      BY <2>1 DEF HasLast, EntryOf
    <2> QED BY <2>1, <2>2 DEF HasOnly, EntryOf
  <1> QED BY RestoredCorrect, <1>1, PTL

-----------------------------------------------------------------------------
(* Files that Redis wrote.                                                 *)

(* No string is compressed, or of a length that is misread.                *)
Short == \A n \in Lengths : IsShort(n)

(* parse is where the next token is one it waits for.                      *)
Regular ==
    WellFormed /\ Short =>
        /\ node \notin {"terminated", "waits"} /\ at # "astray"
        /\ Parses /\ at = "sections" =>
              pos < Len(Token) /\ Token[pos + 1].t \in {"AUX", "SELECTDB", "EOF"}
        /\ Parses /\ at = "db" =>
              pos > 0 /\ pos < Len(Token) /\ Token[pos].t \in {"RESIZEDB", "STRING"}

(* Such a length is read right: 14 bits whose low byte is 0 are shifted by *)
(* 8.                                                                      *)
LEMMA ShortDecoded ==
  ASSUME NEW n, IsShort(n)
  PROVE  DecodedLength(n) = n /\ n # Compressed
  <1>1. CASE n \in 0..63
    BY <1>1 DEF DecodedLength, Compressed
  <1>2. CASE n \in 64..16383 /\ n % 256 = 0
    <2>1. 2 ^ 14 = 16384 /\ 2 ^ 8 = 256
      OBVIOUS
    <2>2. ~ (n < 64) /\ n < 2 ^ 14 /\ n # Compressed /\ n \in Int
      BY <1>2, <2>1 DEF Compressed
    <2>3. Decoded14(n) = (n \div 256) * 2 ^ 8
      <3>1. PICK low \in Int : low = n % 256
        BY <1>2
      <3>2. low = 0
        BY <1>2, <3>1
      <3>3. 8 + low = 8 /\ 8 + low < 32
        BY <3>2
      <3>4. Decoded14(n) = IF 8 + low < 32 THEN (n \div 256) * 2 ^ (8 + low) ELSE -1
        BY <3>1 DEF Decoded14
      <3>5. 2 ^ (8 + low) = 2 ^ 8
        BY <3>3
      <3>6. (n \div 256) * 2 ^ (8 + low) = (n \div 256) * 2 ^ 8
        BY <3>5
      <3> QED BY <3>3, <3>4, <3>6
    <2>4. (n \div 256) * 256 = n
      BY <1>2, <2>2
    <2> QED BY <2>1, <2>2, <2>3, <2>4 DEF DecodedLength
  <1>3. n \in 0..63 \/ (n \in 64..16383 /\ n % 256 = 0)
    BY DEF IsShort
  <1> QED BY <1>1, <1>2, <1>3

(* Every string of such a file is read.                                    *)
LEMMA ShortReads ==
  ASSUME TypeOK, Short, NEW i \in 1..Len(Token), Token[i].t \in {"AUX", "STRING"}
  PROVE  ReadsBack(Token[i]) /\ Token[i].length # Compressed
  <1>1. DOMAIN Token = 1..Len(Token)
    BY TokenIs
  <1>2. Token[i].length \in Lengths
    BY <1>1 DEF Lengths
  <1>3. PICK n : n = Token[i].length /\ n \in Lengths
    BY <1>2
  <1>4. IsShort(n)
    BY <1>3 DEF Short
  <1>5. DecodedLength(n) = n /\ n # Compressed
    BY <1>4, ShortDecoded
  <1> QED BY <1>3, <1>5 DEF ReadsBack

(* The order of the sections of such a file.                               *)
LEMMA WellFormedIs ==
  ASSUME TypeOK, WellFormed
  PROVE  /\ file.header /\ ~ file.cut
         /\ Len(Token) > 0 /\ Token[1].t \in {"AUX", "SELECTDB", "EOF"}
         /\ \A i \in 1..Len(Token) : i = Len(Token) <=> Token[i].t = "EOF"
         /\ \A i \in 1..Len(Token) : i < Len(Token) =>
               i + 1 \in 1..Len(Token) /\ Token[i + 1].t \in Follows(Token[i].t)
  <1>1. Token \in Seq(TokenForm)
    BY DEF TypeOK, FileForm, Token
  <1>2. Len(Token) \in Nat /\ DOMAIN Token = 1..Len(Token) /\ Len(Token) > 0
    BY <1>1 DEF WellFormed
  <1> DEFINE last == Len(Token)
  <1>3. 1 \in 1..Len(Token)
    BY <1>2
  <1>4. Token[1].t \in {"AUX", "SELECTDB", "EOF"}
    BY <1>2, <1>3 DEF WellFormed, Follows
  <1>5. ASSUME NEW i \in 1..Len(Token), i < Len(Token)
        PROVE  i + 1 \in 1..Len(Token) /\ Token[i + 1].t \in Follows(Token[i].t)
    <2>1. i + 1 \in 1..Len(Token) /\ i + 1 # 1 /\ (i + 1) - 1 = i
      BY <1>2, <1>5
    <2> QED BY <1>2, <2>1 DEF WellFormed
  <1>6. ASSUME NEW i \in 1..Len(Token), Token[i].t = "EOF" PROVE i = Len(Token)
    <2>1. Follows("EOF") = {}
      BY DEF Follows
    <2>2. ~ (i < Len(Token))
      BY <1>5, <1>6, <2>1
    <2>3. last \in Nat /\ i \in 1..last /\ ~ (i < last)
      BY <1>2, <2>2
    <2> HIDE DEF last
    <2>4. i = last
      BY <2>3
    <2> QED BY <2>4 DEF last
  <1>7. file.header /\ ~ file.cut /\ Token[Len(Token)].t = "EOF"
    BY DEF WellFormed
  <1> QED BY <1>2, <1>4, <1>5, <1>6, <1>7

(* In such a file every token that parse comes to is there as a whole.     *)
LEMMA WholeIs ==
  ASSUME TypeOK, WellFormed, NEW i \in {0, 1}, pos + i + 1 <= Len(Token)
  PROVE  Whole(i) /\ Peek(i) = Token[pos + i + 1] /\ pos + i + 1 \in 1..Len(Token)
  <1>1. pos \in Nat /\ Len(Token) \in Nat
    <2>1. pos \in 0..Len(Token) /\ Len(Token) \in Nat
      BY TokenIs DEF TypeOK
    <2> QED BY <2>1
  <1>2. ~ file.cut
    BY WellFormedIs
  <1> QED BY <1>1, <1>2 DEF Whole, Peek, Token

(* parse goes from where it may be to where it may be next.                *)
LEMMA GoesRegular ==
  ASSUME TypeOK, WellFormed, Short, Regular, NEW n, NEW where \in {"sections", "db"},
         GoesOn(n, where), Parses,
         where = "sections" => /\ pos + n < Len(Token)
                               /\ Token[pos + n + 1].t \in {"AUX", "SELECTDB", "EOF"},
         where = "db" => /\ pos + n > 0 /\ pos + n < Len(Token)
                         /\ Token[pos + n].t \in {"RESIZEDB", "STRING"}
  PROVE  Regular'
  <1>1. pos' = pos + n /\ at' = where /\ file' = file /\ node' = node
    BY DEF GoesOn
  <1>2. Token' = Token
    BY <1>1 DEF Token
  <1>3. Parses' = Parses /\ node \notin {"terminated", "waits"}
    BY <1>1 DEF Parses, Regular
  <1> QED BY <1>1, <1>2, <1>3 DEF Regular

(* In such a file, every entry is read.                                    *)
LEMMA EntryRegular ==
  ASSUME TypeOK, WellFormed, Short, Regular, Parses, NEW i \in {0, 1}, NEW expire,
         pos + i + 1 <= Len(Token), Peek(i).t = "STRING", EntryAt(i, expire)
  PROVE  Regular'
  <1>1. pos \in Nat /\ Len(Token) \in Nat
    <2>1. pos \in 0..Len(Token) /\ Len(Token) \in Nat
      BY TokenIs DEF TypeOK
    <2> QED BY <2>1
  <1>2. Whole(i) /\ Peek(i) = Token[pos + i + 1] /\ pos + i + 1 \in 1..Len(Token)
    BY WholeIs
  <1>3. ReadsBack(Peek(i)) /\ IsRead(i)
    BY <1>2, ShortReads DEF IsRead
  <1>4. GoesOn(i + 1, "db")
    BY <1>3 DEF EntryAt
  <1>5. pos + i + 1 # Len(Token)
    BY <1>2, WellFormedIs
  <1>6. pos + (i + 1) = pos + i + 1 /\ pos + (i + 1) > 0 /\ pos + (i + 1) < Len(Token)
    BY <1>1, <1>2, <1>5
  <1>7. Token[pos + (i + 1)].t \in {"RESIZEDB", "STRING"}
    BY <1>2, <1>6
  <1> QED BY <1>4, <1>6, <1>7, GoesRegular

(* Every step of parse goes on as it should.                               *)
LEMMA ParseRegular ==
  ASSUME TypeOK, Placed, WellFormed, Short, Regular,
         \/ Header \/ AuxField \/ SelectDb \/ Eof \/ UnexpectedSection
         \/ Entry \/ ExpiringEntry \/ EndDb
  PROVE  Regular'
  <1>1. pos \in Nat /\ Len(Token) \in Nat /\ pos <= Len(Token)
    <2>1. pos \in 0..Len(Token) /\ Len(Token) \in Nat
      BY TokenIs DEF TypeOK
    <2> QED BY <2>1
  <1>2. /\ file.header /\ ~ file.cut
        /\ Len(Token) > 0 /\ Token[1].t \in {"AUX", "SELECTDB", "EOF"}
        /\ \A i \in 1..Len(Token) : i = Len(Token) <=> Token[i].t = "EOF"
        /\ \A i \in 1..Len(Token) : i < Len(Token) =>
              i + 1 \in 1..Len(Token) /\ Token[i + 1].t \in Follows(Token[i].t)
    BY WellFormedIs
  <1>3. ASSUME NEW i \in 1..Len(Token), Token[i].t # "EOF"
        PROVE  i < Len(Token) /\ i + 1 \in 1..Len(Token) /\ Token[i + 1].t \in Follows(Token[i].t)
    <2>1. i # Len(Token)
      BY <1>2, <1>3
    <2>2. i < Len(Token)
      BY <1>1, <2>1
    <2> QED BY <1>2, <2>2
  <1>4. ASSUME Parses, at \in {"sections", "db"}
        PROVE  pos < Len(Token) /\ Whole(0) /\ Peek(0) = Token[pos + 1] /\ pos + 1 \in 1..Len(Token)
    <2>1. pos < Len(Token)
      BY <1>4 DEF Regular
    <2>2. pos + 0 + 1 <= Len(Token) /\ pos + 0 + 1 = pos + 1
      BY <1>1, <2>1
    <2>3. Whole(0) /\ Peek(0) = Token[pos + 0 + 1] /\ pos + 0 + 1 \in 1..Len(Token)
      BY <2>2, WholeIs
    <2> QED BY <2>1, <2>2, <2>3
  <1>5. CASE Header
    <2>1. GoesOn(0, "sections") /\ Parses /\ pos = 0
      BY <1>2, <1>5 DEF Header, Placed
    <2>2. pos + 0 < Len(Token) /\ pos + 0 + 1 = 1
      BY <1>1, <1>2, <2>1
    <2>3. Token[pos + 0 + 1].t \in {"AUX", "SELECTDB", "EOF"}
      BY <1>2, <2>2
    <2> QED BY <2>1, <2>2, <2>3, GoesRegular
  <1>6. CASE AuxField
    <2>1. Parses /\ at = "sections" /\ Peek(0).t = "AUX"
      BY <1>6 DEF AuxField
    <2>2. Whole(0) /\ Peek(0) = Token[pos + 1] /\ pos + 1 \in 1..Len(Token)
      BY <1>4, <2>1
    <2>3. ReadsBack(Peek(0)) /\ IsRead(0)
      BY <2>1, <2>2, ShortReads DEF IsRead
    <2>4. GoesOn(1, "sections")
      BY <1>6, <2>3 DEF AuxField
    <2>5. pos + 1 < Len(Token) /\ Token[pos + 1 + 1].t \in Follows("AUX")
      BY <1>3, <2>1, <2>2
    <2>6. Token[pos + 1 + 1].t \in {"AUX", "SELECTDB", "EOF"}
      BY <2>5 DEF Follows
    <2> QED BY <2>1, <2>4, <2>5, <2>6, GoesRegular
  <1>7. CASE SelectDb
    <2>1. Parses /\ at = "sections" /\ Peek(0).t = "SELECTDB"
      BY <1>7 DEF SelectDb
    <2>2. Whole(0) /\ Peek(0) = Token[pos + 1] /\ pos + 1 \in 1..Len(Token)
      BY <1>4, <2>1
    <2>3. pos + 1 + 1 \in 1..Len(Token) /\ Token[pos + 1 + 1].t \in Follows("SELECTDB")
      BY <1>3, <2>1, <2>2
    <2>4. Token[pos + 1 + 1].t = "RESIZEDB"
      BY <2>3 DEF Follows
    <2>5. pos + 1 + 1 <= Len(Token)
      BY <1>1, <2>3
    <2>6. Whole(1) /\ Peek(1) = Token[pos + 1 + 1]
      BY <2>5, WholeIs
    <2>7. Peek(1).t = "RESIZEDB"
      BY <2>4, <2>6
    <2>8. GoesOn(2, "db")
      BY <1>7, <2>2, <2>6, <2>7 DEF SelectDb, IsOpcode
    <2>9. pos + 1 + 1 # Len(Token)
      BY <1>2, <2>3, <2>4
    <2>10. pos + 2 = pos + 1 + 1 /\ pos + 2 > 0 /\ pos + 2 < Len(Token)
      BY <1>1, <2>5, <2>9
    <2>11. Token[pos + 2].t \in {"RESIZEDB", "STRING"}
      BY <2>4, <2>10
    <2> QED BY <2>1, <2>8, <2>10, <2>11, GoesRegular
  <1>8. CASE Eof
    <2>1. Parses /\ at = "sections"
      BY <1>8 DEF Eof
    <2>2. Returns(1)
      BY <1>4, <1>8, <2>1 DEF Eof
    <2>3. node' \in {"running", "in_sync"} /\ at' = "sections"
      BY <2>1, <2>2 DEF Returns
    <2> QED BY <2>3 DEF Regular, Parses
  <1>9. CASE UnexpectedSection
    <2>1. Parses /\ at = "sections" /\ Peek(0).t \notin {"AUX", "SELECTDB", "EOF"}
      BY <1>9 DEF UnexpectedSection
    <2>2. Peek(0) = Token[pos + 1] /\ Token[pos + 1].t \in {"AUX", "SELECTDB", "EOF"}
      BY <1>4, <2>1 DEF Regular
    <2> QED BY <2>1, <2>2
  <1>10. CASE Entry
    <2>1. Parses /\ at = "db" /\ Peek(0).t = "STRING" /\ EntryAt(0, 0)
      BY <1>10 DEF Entry
    <2>2. pos + 0 + 1 <= Len(Token)
      BY <1>1, <1>4, <2>1
    <2> QED BY <2>1, <2>2, EntryRegular
  <1>11. CASE ExpiringEntry
    <2>1. Parses /\ at = "db" /\ Peek(0).t \in {"EXPIRETIME", "EXPIRETIMEMS"}
      BY <1>11 DEF ExpiringEntry
    <2>2. Whole(0) /\ Peek(0) = Token[pos + 1] /\ pos + 1 \in 1..Len(Token)
      BY <1>4, <2>1
    <2>3. pos + 1 + 1 \in 1..Len(Token) /\ Token[pos + 1 + 1].t \in Follows(Peek(0).t)
      BY <1>3, <2>1, <2>2
    <2>4. Token[pos + 1 + 1].t = "STRING"
      BY <2>1, <2>3 DEF Follows
    <2>5. pos + 1 + 1 <= Len(Token)
      BY <1>1, <2>3
    <2>6. Peek(1).t = "STRING"
      BY <2>4, <2>5, WholeIs
    <2>7. EntryAt(1, ExpireOf(Peek(0)))
      BY <1>11, <2>2, <2>6 DEF ExpiringEntry
    <2> QED BY <2>1, <2>5, <2>6, <2>7, EntryRegular
  <1>12. CASE EndDb
    <2>1. /\ Parses /\ at = "db" /\ GoesOn(0, "sections")
          /\ Peek(0).t \notin {"STRING", "EXPIRETIME", "EXPIRETIMEMS"}
      BY <1>12 DEF EndDb
    <2>2. pos > 0 /\ pos < Len(Token) /\ Token[pos].t \in {"RESIZEDB", "STRING"}
      BY <2>1 DEF Regular
    <2>3. Peek(0) = Token[pos + 1]
      BY <1>4, <2>1
    <2>4. pos \in 1..Len(Token)
      BY <1>1, <2>2
    <2>5. Token[pos + 1].t \in Follows(Token[pos].t)
      BY <1>3, <2>2, <2>4
    <2>6. Token[pos + 1].t \in {"SELECTDB", "EOF"}
      BY <2>1, <2>2, <2>3, <2>5 DEF Follows
    <2>7. pos + 0 < Len(Token) /\ pos + 0 + 1 = pos + 1
      BY <1>1, <2>2
    <2>8. Token[pos + 0 + 1].t \in {"AUX", "SELECTDB", "EOF"}
      BY <2>6, <2>7
    <2> QED BY <2>1, <2>7, <2>8, GoesRegular
  <1> QED BY <1>5, <1>6, <1>7, <1>8, <1>9, <1>10, <1>11, <1>12

(* Every step of a node keeps parse where it may be.                       *)
LEMMA RegularStep == ASSUME TypeOK, Placed, Regular, [Next]_vars PROVE Regular'
  <1>1. CASE ReceiveSnapshot
    BY <1>1 DEF ReceiveSnapshot, Regular
  <1>2. CASE Tick \/ UNCHANGED vars
    <2>1. UNCHANGED <<file, pos, at, node>>
      BY <1>2 DEF Tick, vars
    <2> QED BY <2>1 DEF Regular, WellFormed, Short, Lengths, Token, Parses
  <1>3. ASSUME file' = file, ~ (WellFormed /\ Short) PROVE Regular'
    BY <1>3 DEF Regular, WellFormed, Short, Lengths, Token
  <1>4. CASE WellFormed /\ Short /\ Astray
    BY <1>4 DEF Astray, Regular
  <1>5. ~ ReceiveSnapshot => file' = file
    BY DEF Next, vars, Header, AuxField, SelectDb, Eof, UnexpectedSection, Entry, ExpiringEntry,
       EntryAt, EndDb, Astray, Tick, GoesOn, GoesAstray, Throws, Returns
  <1>6. CASE ~ ReceiveSnapshot /\ WellFormed /\ Short
    BY <1>2, <1>4, <1>6, ParseRegular DEF Next
  <1> QED BY <1>1, <1>3, <1>5, <1>6

(* A file of strings that Redis wrote is loaded to its end: parse is always *)
(* where the next token is one it waits for.                               *)
THEOREM RegularCorrect == Spec => []Regular
  <1>1. Init => Regular
    BY DEF Init, Regular
  <1>2. (TypeOK /\ Placed) /\ Regular /\ [Next]_vars => Regular'
    BY RegularStep
  <1> QED BY PlacedCorrect, <1>1, <1>2, PTL DEF Spec

(* A file that Redis wrote and that has no values but strings, which is    *)
(* all the parser knows, is loaded to its end, as long as every string is  *)
(* shorter than 64 bytes, or one whose length the shift reads right, and   *)
(* none is compressed: every entry that has not expired since is there, the *)
(* last of each key, and none that had expired when loading began.         *)
THEOREM LoadsCorrect == Spec => []LoadsWellFormed
  <1>1. ASSUME TypeOK, Regular, CompleteAtEof, Restored, WellFormed, Short, Loaded,
               NEW i \in DOMAIN Token, Says(i)
        PROVE  LET k == Token[i].key
               IN  /\ LastFor(k, i, Len(Token)) /\ (SaysExpire(i) = 0 \/ SaysExpire(i) > now)
                        => storage[k] = [value |-> Token[i].value, expire |-> SaysExpire(i)]
                   /\ SaysExpire(i) # 0 /\ SaysExpire(i) <= began
                        => storage[k] # [value |-> Token[i].value, expire |-> SaysExpire(i)]
                           \/ before[k] = storage[k]
    <2> DEFINE k == Token[i].key
    <2>1. /\ Len(Token) \in Nat /\ DOMAIN Token = 1..Len(Token)
          /\ \A j \in 1..Len(Token) : Token[j] \in TokenForm
      BY <1>1, TokenIs
    <2>2. k \in Key /\ i \in 1..Len(Token)
      BY <1>1, <2>1, TokenParts DEF Says
    <2>3. at # "astray"
      BY <1>1 DEF Regular
    <2>4. pos = Len(Token)
      <3>1. pos > 0 /\ Token[pos].t = "EOF" /\ pos \in 0..Len(Token)
        BY <1>1, <2>3 DEF CompleteAtEof, TypeOK
      <3>2. pos \in 1..Len(Token)
        BY <2>1, <3>1
      <3> QED BY <1>1, <3>1, <3>2, WellFormedIs
    <2>5. HasOnly(k) /\ HasLast(k)
      BY <1>1, <2>2, <2>3 DEF Restored
    <2>6. LastFor(k, i, Len(Token)) /\ (SaysExpire(i) = 0 \/ SaysExpire(i) > now)
             => storage[k] = EntryOf(i)
      BY <2>2, <2>4, <2>5 DEF HasLast
    <2>7. ASSUME SaysExpire(i) # 0, SaysExpire(i) <= began, storage[k] = EntryOf(i)
          PROVE  before[k] = storage[k]
      <3>1. SaysExpire(i) \in Int /\ began \in Int
        BY <1>1, <2>2, SaysExpireIs DEF TypeOK
      <3>2. ASSUME NEW j \in 1..pos, storage[k] = EntryOf(j),
                   SaysExpire(j) = 0 \/ SaysExpire(j) > began
            PROVE  FALSE
        <4>1. EntryOf(i).expire = SaysExpire(i) /\ EntryOf(j).expire = SaysExpire(j)
          BY DEF EntryOf
        <4>2. SaysExpire(i) = SaysExpire(j)
          BY <2>7, <3>2, <4>1
        <4> QED BY <2>7, <3>1, <3>2, <4>2
      <3> QED BY <2>5, <3>2 DEF HasOnly
    <2> QED BY <2>6, <2>7 DEF EntryOf
  <1>2. (TypeOK /\ Placed) /\ Regular /\ CompleteAtEof /\ Restored => LoadsWellFormed
    BY <1>1 DEF LoadsWellFormed, Short, Regular
  <1> QED BY PlacedCorrect, RegularCorrect, CompleteCorrect, RestoredCorrect, <1>2, PTL
=============================================================================
