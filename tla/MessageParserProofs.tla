------------------------ MODULE MessageParserProofs ------------------------
(***************************************************************************)
(* Theorems about MessageParser, for any streams a peer may write, any     *)
(* number of messages in them and any way they arrive in parts.            *)
(*                                                                         *)
(* The argument: a stream is written as pieces, each of which has its      *)
(* place. The invariant says that the messages returned, those parse is    *)
(* at, the lines and strings cut out, the buffer and what has yet to       *)
(* arrive are consecutive stretches of the stream, that the length which   *)
(* is due is that of the line cut last, and that the state of the talker   *)
(* is right for this place. So what is cut next is the next piece, and     *)
(* what is parsed next is the next part. Only a malformed line may end     *)
(* this; the parser is then Lost, and stays so, and what was returned      *)
(* before is still what was written.                                       *)
(***************************************************************************)
EXTENDS MessageParser, SequenceTheorems, WellFoundedInduction, TLAPS

(* A set of numbers that is not empty has a least one.                     *)
LEMMA LeastOne ==
    ASSUME NEW T \in SUBSET Nat, T # {}
    PROVE  \E x \in T : \A y \in T : x <= y
  <1>1. PICK x \in T : \A y \in T : <<y, x>> \notin OpToRel(<, Nat)
    BY NatLessThanWellFounded, WFMin, Zenon
  <1>2. \A y \in T : y \in Nat /\ x \in Nat /\ ~ (y < x)
    BY <1>1 DEF OpToRel
  <1>. QED  BY <1>2

(* What never decreases from one place to the next never decreases.        *)
LEMMA NonDecreasing ==
    ASSUME NEW n \in Nat, NEW f \in [1..n -> Int], \A i \in 1..n - 1 : f[i] <= f[i + 1]
    PROVE  \A i, j \in 1..n : i <= j => f[i] <= f[j]
  <1>. SUFFICES ASSUME NEW i \in 1..n, NEW j0 \in 1..n, i <= j0, f[i] > f[j0]
                PROVE  FALSE
    OBVIOUS
  <1>. DEFINE Lower == {j \in i..n : f[j] < f[i]}
  <1>1. Lower \in SUBSET Nat /\ j0 \in Lower
    OBVIOUS
  <1>2. PICK j \in Lower : \A m \in Lower : j <= m
    BY <1>1, LeastOne
  <1>3. j > i
    BY <1>2
  <1>4. j - 1 \in i..n /\ j - 1 \notin Lower /\ j - 1 \in 1..n - 1
    BY <1>2, <1>3
  <1>5. f[j - 1] <= f[(j - 1) + 1] /\ (j - 1) + 1 = j
    BY <1>2, <1>4
  <1>. QED  BY <1>2, <1>4, <1>5

(* A length as an unsigned number.                                         *)
LEMMA ModSmall ==
    ASSUME NEW s \in Nat, NEW n \in 0..s - 1
    PROVE  n % s = n
  <1>1. n \in Int /\ s \in Nat \ {0}
    OBVIOUS
  <1>2. n = s * (n \div s) + (n % s) /\ n % s \in 0..s - 1 /\ n \div s \in Int
    BY <1>1
  <1>3. PICK d \in Int : d = n \div s
    BY <1>2
  <1>4. PICK r \in 0..s - 1 : r = n % s
    BY <1>2
  <1>5. n = s * d + r
    BY <1>2, <1>3, <1>4
  <1>6. d < 1
    <2>. SUFFICES ASSUME d >= 1 PROVE FALSE
      OBVIOUS
    <2>1. s * d >= s
      BY <1>1
    <2>. QED  BY <2>1, <1>5
  <1>7. d > -1
    <2>. SUFFICES ASSUME d <= -1 PROVE FALSE
      OBVIOUS
    <2>1. s * d <= -s
      BY <1>1
    <2>. QED  BY <2>1, <1>5
  <1>8. d = 0
    BY <1>6, <1>7
  <1>. QED  BY <1>5, <1>8, <1>4

LEMMA ModNegative ==
    ASSUME NEW s \in Nat, NEW n \in -s..-1
    PROVE  n % s = n + s
  <1>1. n \in Int /\ s \in Nat \ {0}
    OBVIOUS
  <1>2. n = s * (n \div s) + (n % s) /\ n % s \in 0..s - 1 /\ n \div s \in Int
    BY <1>1
  <1>3. PICK d \in Int : d = n \div s
    BY <1>2
  <1>4. PICK r \in 0..s - 1 : r = n % s
    BY <1>2
  <1>5. n = s * d + r
    BY <1>2, <1>3, <1>4
  <1>6. d < 0
    <2>. SUFFICES ASSUME d >= 0 PROVE FALSE
      OBVIOUS
    <2>1. s * d >= 0
      BY <1>1
    <2>. QED  BY <2>1, <1>5
  <1>7. d > -2
    <2>. SUFFICES ASSUME d <= -2 PROVE FALSE
      OBVIOUS
    <2>1. s * d <= -(2 * s)
      BY <1>1
    <2>. QED  BY <2>1, <1>5
  <1>8. d = -1
    BY <1>6, <1>7
  <1>. QED  BY <1>5, <1>8, <1>4

-----------------------------------------------------------------------------
(* Streams.                                                                *)

LineOf(s, k) == s.piece[s.first[k] + 1].text[1]

LEMMA DelimLen == Len(Delim) = 2 /\ Delim[1] = CR /\ Delim[2] = LF
  BY DEF Delim

LEMMA Slice ==
    ASSUME NEW S, NEW q \in Seq(S), NEW m \in Nat \ {0}, NEW n \in 0..Len(q)
    PROVE  /\ SubSeq(q, m, n) \in Seq(S)
           /\ Len(SubSeq(q, m, n)) = IF m <= n THEN n - m + 1 ELSE 0
           /\ \A i \in 1..n - m + 1 : SubSeq(q, m, n)[i] = q[m + i - 1]
  <1>1. \A i \in m..n : q[i] \in S
    OBVIOUS
  <1>2. m \in Int /\ n \in Int
    OBVIOUS
  <1>. QED  BY <1>1, <1>2, SubSeqProperties

(* A sequence of one or two pieces and its place in a longer one.          *)
LEMMA OnePiece ==
    ASSUME NEW S, NEW q \in Seq(S), NEW a \in 0..Len(q), NEW b \in 0..Len(q), NEW x,
           SubSeq(q, a + 1, b) = <<x>>
    PROVE  b = a + 1 /\ q[a + 1] = x
  <1>. a + 1 \in Nat \ {0} /\ Len(q) \in Nat
    OBVIOUS
  <1>1. PICK z : z = SubSeq(q, a + 1, b)
    OBVIOUS
  <1>2. PICK n : n = Len(z)
    OBVIOUS
  <1>3. Len(<<x>>) = 1 /\ <<x>>[1] = x
    OBVIOUS
  <1>4. n = 1 /\ z[1] = x
    BY <1>1, <1>2, <1>3, Zenon
  <1>5. n = IF a + 1 <= b THEN b - (a + 1) + 1 ELSE 0
    BY <1>1, <1>2, Slice, Zenon
  <1>6. \A i \in 1..b - (a + 1) + 1 : z[i] = q[a + 1 + i - 1]
    BY <1>1, Slice, Zenon
  <1>7. b = a + 1
    BY <1>4, <1>5
  <1>8. z[1] = q[a + 1 + 1 - 1]
    BY <1>6, <1>7
  <1>. QED  BY <1>4, <1>7, <1>8

LEMMA TwoPieces ==
    ASSUME NEW S, NEW q \in Seq(S), NEW a \in 0..Len(q), NEW b \in 0..Len(q), NEW x, NEW y,
           NEW z, z = SubSeq(q, a + 1, b), Len(z) = 2, z[1] = x, z[2] = y
    PROVE  b = a + 2 /\ q[a + 1] = x /\ q[a + 2] = y
  <1>. a + 1 \in Nat \ {0} /\ Len(q) \in Nat
    OBVIOUS
  <1>1. PICK n : n = Len(z) /\ n = 2
    OBVIOUS
  <1>2. n = IF a + 1 <= b THEN b - (a + 1) + 1 ELSE 0
    BY <1>1, Slice, Zenon
  <1>3. \A i \in 1..b - (a + 1) + 1 : z[i] = q[a + 1 + i - 1]
    BY Slice, Zenon
  <1>4. b = a + 2
    BY <1>1, <1>2
  <1>5. z[1] = q[a + 1 + 1 - 1] /\ z[2] = q[a + 1 + 2 - 1]
    BY <1>3, <1>4
  <1>. QED  BY <1>4, <1>5

(* The types of what a stream is made of.                                  *)
LEMMA FormTypes ==
    ASSUME NEW s, HasForm(s)
    PROVE  /\ s.part \in Seq(Part) /\ s.piece \in Seq(Piece) /\ s.units \in Seq(Char)
           /\ Len(s.part) \in Nat /\ Len(s.piece) \in Nat /\ Len(s.units) \in Nat
           /\ \A k \in 1..Len(s.part) + 1 : s.first[k] \in 0..Len(s.piece)
           /\ \A i \in 1..Len(s.piece) + 1 : s.at[i] \in 0..Len(s.units)
           /\ s.first[1] = 0 /\ s.first[Len(s.part) + 1] = Len(s.piece)
           /\ s.at[1] = 0 /\ s.at[Len(s.piece) + 1] = Len(s.units)
  <1>1. s.part \in Seq(Part) /\ s.piece \in Seq(Piece) /\ s.units \in Seq(Char)
    BY Zenon DEF HasForm
  <1>2. /\ s.first \in [1..Len(s.part) + 1 -> 0..Len(s.piece)]
        /\ s.at \in [1..Len(s.piece) + 1 -> 0..Len(s.units)]
        /\ s.first[1] = 0 /\ s.first[Len(s.part) + 1] = Len(s.piece)
        /\ s.at[1] = 0 /\ s.at[Len(s.piece) + 1] = Len(s.units)
    BY Zenon DEF HasForm
  <1>3. Len(s.part) \in Nat /\ Len(s.piece) \in Nat /\ Len(s.units) \in Nat
    BY <1>1, LenProperties
  <1>4. /\ \A k \in 1..Len(s.part) + 1 : s.first[k] \in 0..Len(s.piece)
        /\ \A i \in 1..Len(s.piece) + 1 : s.at[i] \in 0..Len(s.units)
    BY <1>2, Zenon
  <1>. QED  BY <1>1, <1>2, <1>3, <1>4

(* A part is written as at least one piece.                                *)
LEMMA FirstStep ==
    ASSUME NEW s, HasForm(s), NEW k \in 1..Len(s.part)
    PROVE  s.first[k] < s.first[k + 1]
  <1>1. s.first[k] \in Nat /\ s.first[k + 1] \in Nat
    BY FormTypes
  <1>2. CASE ~ WellFormed(s, k)
    <2>1. s.first[k + 1] = s.first[k] + 1
      BY <1>2, Zenon DEF HasForm
    <2>. QED  BY <1>1, <2>1
  <1>3. CASE WellFormed(s, k)
    <2>1. MayWrite(s, k, Pieces(s, k))
      BY <1>3, Zenon DEF HasForm
    <2>2. Pieces(s, k) # <<>>
      BY <2>1, SMTT(30) DEF MayWrite, to_string
    <2>. QED  BY <1>1, <2>2, FormTypes DEF Pieces
  <1>. QED  BY <1>2, <1>3

(* What a line t with number n alone says of part k.                       *)
Alone(s, k, t, n) ==
    LET m == s.part[k]
    IN  \/ t = "+" /\ m.type = "SimpleString" /\ m.value = n
        \/ t = "-" /\ m.type = "SimpleError" /\ m.value = n
        \/ t = ":" /\ m.type = "Integer" /\ m.value = n
        \/ t = "*" /\ m.type = "Array" /\ m.value = IF n < 0 THEN 0 ELSE n
        \/ /\ t = "$" /\ m.type = "BulkString" /\ m.value = <<>>
           /\ n < 0 /\ Len(s.units) + 1 - Sizes <= n

InText(s, k) == Text(s.part[k].value, IF s.part[k].type = "SyncResponse" THEN 0 ELSE 2)

LEMMA Bounded ==
    ASSUME NEW s, HasForm(s)
    PROVE  Sizes \in Nat /\ Len(s.units) + 2 < Sizes
  <1>1. Len(s.units) + Len(Delim) < Sizes
    BY Zenon DEF HasForm
  <1>. QED  BY <1>1, DelimLen, StreamForm

(* A part is a line, or the line of a length and a string.                 *)
LEMMA WrittenForm ==
    ASSUME NEW s, HasForm(s), NEW k \in 1..Len(s.part), NEW pieces, MayWrite(s, k, pieces)
    PROVE  \/ \E t \in {"+", "-", ":", "*", "$"} : \E n \in Int :
                pieces = <<Line(t, n)>> /\ Alone(s, k, t, n)
           \/ /\ s.part[k].type \in {"BulkString", "SyncResponse"}
              /\ pieces = <<Line("$", Len(s.part[k].value)), InText(s, k)>>
  <1>. DEFINE m == s.part[k]
  <1>1. m \in Part /\ Sizes \in Nat /\ Len(s.units) \in Nat
    BY FormTypes, StreamForm
  <1>2. Len(s.units) + 2 < Sizes
    BY Bounded
  <1>3. \/ m.type \in {"SimpleString", "SimpleError", "Integer"} /\ m.value \in Int
        \/ m.type \in {"BulkString", "SyncResponse"} /\ m.value \in Seq(Char)
        \/ m.type = "Array" /\ m.value \in Nat
    BY <1>1 DEF Part
  <1>4. CASE pieces = to_string(m)
    <2>1. CASE m.type \in {"SimpleString", "SimpleError", "Integer", "Array"}
      <3>1. PICK v \in Int : v = m.value /\ (m.type = "Array" => v >= 0)
        BY <1>3, <2>1
      <3>2. CASE m.type = "SimpleString"
        <4>1. pieces = <<Line("+", v)>> /\ Alone(s, k, "+", v)
          BY <1>4, <3>1, <3>2, Zenon DEF to_string, Alone
        <4>. QED  BY <4>1
      <3>3. CASE m.type = "SimpleError"
        <4>1. pieces = <<Line("-", v)>> /\ Alone(s, k, "-", v)
          BY <1>4, <3>1, <3>3 DEF to_string, Alone
        <4>. QED  BY <4>1
      <3>4. CASE m.type = "Integer"
        <4>1. pieces = <<Line(":", v)>> /\ Alone(s, k, ":", v)
          BY <1>4, <3>1, <3>4 DEF to_string, Alone
        <4>. QED  BY <4>1
      <3>5. CASE m.type = "Array"
        <4>1. PICK n \in Int : n = IF v = 0 THEN -1 ELSE v
          BY <3>1
        <4>2. pieces = <<Line("*", n)>>
          BY <1>4, <3>1, <3>5, <4>1 DEF to_string
        <4>3. Alone(s, k, "*", n)
          BY <3>1, <3>5, <4>1 DEF Alone
        <4>. QED  BY <4>2, <4>3
      <3>. QED  BY <2>1, <3>2, <3>3, <3>4, <3>5
    <2>2. CASE m.type = "BulkString" /\ m.value = <<>>
      <3>1. pieces = <<Line("$", -1)>>
        BY <1>4, <2>2 DEF to_string
      <3>2. Alone(s, k, "$", -1)
        BY <1>1, <1>2, <2>2 DEF Alone
      <3>3. -1 \in Int
        OBVIOUS
      <3>. QED  BY <3>1, <3>2, <3>3
    <2>3. CASE m.type = "SyncResponse" \/ (m.type = "BulkString" /\ m.value # <<>>)
      BY <1>4, <2>3, DelimLen DEF to_string, InText
    <2>. QED  BY <1>3, <2>1, <2>2, <2>3
  <1>5. CASE m.type = "Array" /\ m.value = 0 /\ \E n \in -Sizes..0 : pieces = <<Line("*", n)>>
    <2>1. PICK n \in -Sizes..0 : pieces = <<Line("*", n)>>
      BY <1>5
    <2>2. n \in Int /\ Alone(s, k, "*", n)
      BY <1>1, <1>5 DEF Alone
    <2>. QED  BY <2>1, <2>2
  <1>6. CASE m.type = "BulkString" /\ m.value = <<>>
               /\ pieces = <<Line("$", 0), Text(<<>>, Len(Delim))>>
    BY <1>6, DelimLen DEF InText
  <1>7. CASE m.type = "BulkString" /\ m.value = <<>>
               /\ \E n \in Len(s.units) + 1 - Sizes..-1 : pieces = <<Line("$", n)>>
    <2>1. PICK n \in Len(s.units) + 1 - Sizes..-1 : pieces = <<Line("$", n)>>
      BY <1>7
    <2>2. n \in Int /\ Alone(s, k, "$", n)
      BY <1>1, <1>7 DEF Alone
    <2>. QED  BY <2>1, <2>2
  <1>. QED  BY <1>4, <1>5, <1>6, <1>7, Zenon DEF MayWrite

(* A piece and the units it is in the stream.                              *)
LEMMA PieceForm ==
    ASSUME NEW s, HasForm(s), NEW i \in 1..Len(s.piece)
    PROVE  /\ s.piece[i].text \in Seq(Char) /\ s.piece[i].delim \in {0, 2}
           /\ Len(s.piece[i].text) \in Nat
           /\ s.at[i] \in 0..Len(s.units) /\ s.at[i + 1] \in 0..Len(s.units)
           /\ s.at[i + 1] = s.at[i] + Len(s.piece[i].text) + s.piece[i].delim
           /\ \A j \in 1..Len(s.piece[i].text) : s.units[s.at[i] + j] = s.piece[i].text[j]
           /\ s.piece[i].delim = 2 =>
                /\ s.units[s.at[i] + Len(s.piece[i].text) + 1] = CR
                /\ s.units[s.at[i] + Len(s.piece[i].text) + 2] = LF
  <1>1. s.piece[i] \in Piece
    BY FormTypes
  <1>2. s.piece[i].text \in Seq(Char) /\ s.piece[i].delim \in {0, 2}
    BY <1>1, DelimLen DEF Piece
  <1>3. /\ s.at[i + 1] = s.at[i] + Len(s.piece[i].text) + s.piece[i].delim
        /\ \A j \in 1..Len(s.piece[i].text) : s.units[s.at[i] + j] = s.piece[i].text[j]
        /\ \A j \in 1..s.piece[i].delim :
              s.units[s.at[i] + Len(s.piece[i].text) + j] = Delim[j]
    BY Zenon DEF HasForm
  <1>4. s.piece[i].delim = 2 =>
          /\ s.units[s.at[i] + Len(s.piece[i].text) + 1] = CR
          /\ s.units[s.at[i] + Len(s.piece[i].text) + 2] = LF
    <2>1. s.piece[i].delim = 2 => 1 \in 1..s.piece[i].delim /\ 2 \in 1..s.piece[i].delim
      OBVIOUS
    <2>. QED  BY <1>3, <2>1, DelimLen, Zenon
  <1>5. i \in 1..Len(s.piece) + 1 /\ i + 1 \in 1..Len(s.piece) + 1
    BY FormTypes
  <1>6. s.at[i] \in 0..Len(s.units) /\ s.at[i + 1] \in 0..Len(s.units)
    BY <1>5, FormTypes
  <1>7. Len(s.piece[i].text) \in Nat
    BY <1>2, LenProperties
  <1>. QED  BY <1>2, <1>3, <1>4, <1>6, <1>7, Zenon

(* How a part that is well-formed is written.                              *)
LEMMA PartForm ==
    ASSUME NEW s, HasForm(s), NEW k \in 1..Len(s.part), WellFormed(s, k), NEW u, u = LineOf(s, k),
           NEW i, i = s.first[k] + 1, NEW m, m = s.part[k]
    PROVE  /\ i \in 1..Len(s.piece) /\ u \in Char /\ u.ok /\ m \in Part
           /\ s.piece[i] = Line(u.t, u.n)
           /\ m.left = Count(m) + (IF Begins(s, k) THEN 0 ELSE s.part[k - 1].left - 1)
           /\ \/ u.t \in {"+", "-", ":", "*", "$"} /\ Alone(s, k, u.t, u.n) /\ s.first[k + 1] = i
              \/ /\ u.t = "$" /\ u.n = Len(m.value) /\ u.n \in 0..Len(s.units)
                 /\ m.type \in {"BulkString", "SyncResponse"} /\ m.value \in Seq(Char)
                 /\ s.first[k + 1] = i + 1 /\ i + 1 \in 1..Len(s.piece)
                 /\ s.piece[i + 1] = InText(s, k)
  <1>1. MayWrite(s, k, Pieces(s, k)) /\ u.ok
        /\ m.left = Count(m) + (IF Begins(s, k) THEN 0 ELSE s.part[k - 1].left - 1)
    BY Zenon DEF HasForm, WellFormed, LineOf
  <1>2. /\ m \in Part /\ s.piece \in Seq(Piece) /\ Len(s.piece) \in Nat
        /\ s.first[k] \in 0..Len(s.piece) /\ s.first[k + 1] \in 0..Len(s.piece)
    BY FormTypes
  <1>. DEFINE a == s.first[k]
              b == s.first[k + 1]
  <1>3. CASE \E t \in {"+", "-", ":", "*", "$"} : \E n \in Int :
               Pieces(s, k) = <<Line(t, n)>> /\ Alone(s, k, t, n)
    <2>1. PICK t \in {"+", "-", ":", "*", "$"}, n \in Int :
            Pieces(s, k) = <<Line(t, n)>> /\ Alone(s, k, t, n)
      BY <1>3
    <2>2. b = a + 1 /\ s.piece[a + 1] = Line(t, n)
      <3>. HIDE DEF a, b
      <3>1. SubSeq(s.piece, a + 1, b) = <<Line(t, n)>>
        BY <2>1 DEF Pieces, a, b
      <3>2. a \in 0..Len(s.piece) /\ b \in 0..Len(s.piece)
        BY <1>2 DEF a, b
      <3>. QED  BY <1>2, <3>1, <3>2, OnePiece
    <2>3. u = Unit(t, n)
      BY <2>2 DEF Line, LineOf
    <2>4. u \in Char /\ u.t = t /\ u.n = n
      BY <2>3 DEF Unit, Char
    <2>5. i \in 1..Len(s.piece)
      BY <1>2, <2>2
    <2>. QED  BY <1>1, <1>2, <2>1, <2>2, <2>4, <2>5
  <1>4. CASE /\ m.type \in {"BulkString", "SyncResponse"}
             /\ Pieces(s, k) = <<Line("$", Len(m.value)), InText(s, k)>>
    <2>1. b = a + 2 /\ s.piece[a + 1] = Line("$", Len(m.value)) /\ s.piece[a + 2] = InText(s, k)
      <3>. HIDE DEF a, b
      <3>1. PICK x, y : x = Line("$", Len(m.value)) /\ y = InText(s, k)
        OBVIOUS
      <3>2. PICK z : z = SubSeq(s.piece, a + 1, b) /\ Len(z) = 2 /\ z[1] = x /\ z[2] = y
        <4>1. SubSeq(s.piece, a + 1, b) = <<x, y>>
          BY <1>4, <3>1, Zenon DEF Pieces, a, b
        <4>2. Len(<<x, y>>) = 2 /\ <<x, y>>[1] = x /\ <<x, y>>[2] = y
          OBVIOUS
        <4>. QED  BY <4>1, <4>2, Zenon
      <3>3. a \in 0..Len(s.piece) /\ b \in 0..Len(s.piece)
        BY <1>2 DEF a, b
      <3>4. b = a + 2 /\ s.piece[a + 1] = x /\ s.piece[a + 2] = y
        <4>1. s.piece \in Seq(Piece)
          BY <1>2
        <4>. QED  BY <4>1, <3>2, <3>3, TwoPieces
      <3>. QED  BY <3>1, <3>4
    <2>2. m.value \in Seq(Char)
      BY <1>2, <1>4 DEF Part
    <2>3. PICK n \in Nat : n = Len(m.value)
      BY <2>2, LenProperties
    <2>4. u = Unit("$", n)
      BY <2>1, <2>3 DEF Line, LineOf
    <2>5. u \in Char /\ u.t = "$" /\ u.n = n
      BY <2>4 DEF Unit, Char
    <2>6. i \in 1..Len(s.piece) /\ i + 1 \in 1..Len(s.piece) /\ a + 2 = i + 1
      BY <1>2, <2>1, SMTT(30)
    <2>7. s.piece[i + 1] = InText(s, k)
      BY <2>1, <2>6
    <2>8. n \in 0..Len(s.units)
      <3>1. s.piece[i + 1].text = m.value
        BY <2>7 DEF InText, Text
      <3>2. /\ s.at[i + 1] \in 0..Len(s.units) /\ s.at[i + 1 + 1] \in 0..Len(s.units)
            /\ s.at[i + 1 + 1] = s.at[i + 1] + Len(s.piece[i + 1].text) + s.piece[i + 1].delim
            /\ s.piece[i + 1].delim \in {0, 2}
        BY <2>6, PieceForm, Zenon
      <3>3. Len(s.piece[i + 1].text) = n
        BY <2>3, <3>1, Zenon
      <3>4. PICK from \in 0..Len(s.units), to \in 0..Len(s.units), d \in {0, 2} : to = from + n + d
        BY <3>2, <3>3, Zenon
      <3>. QED  BY <3>4, FormTypes
    <2>. QED  BY <1>1, <1>2, <1>4, <2>1, <2>2, <2>3, <2>5, <2>6, <2>7, <2>8
  <1>. QED  BY <1>1, <1>3, <1>4, WrittenForm, Zenon

(* Pieces and units are in the order of the parts.                         *)
LEMMA FirstIncreases ==
    ASSUME NEW s, HasForm(s), NEW j \in 1..Len(s.part) + 1, NEW k \in 1..Len(s.part) + 1
    PROVE  /\ j <= k => s.first[j] <= s.first[k]
           /\ j < k => s.first[j] < s.first[k]
  <1>. DEFINE n == Len(s.part) + 1
              f == [i \in 1..n |-> s.first[i] - i]
  <1>1. n \in Nat /\ \A i \in 1..n : s.first[i] \in Int
    BY FormTypes
  <1>2. f \in [1..n -> Int]
    BY <1>1
  <1>3. \A i \in 1..n - 1 : f[i] <= f[i + 1]
    <2>. TAKE i \in 1..n - 1
    <2>1. i \in 1..Len(s.part) /\ i \in 1..n /\ i + 1 \in 1..n
      BY FormTypes
    <2>2. s.first[i] < s.first[i + 1]
      BY <2>1, FirstStep
    <2>3. s.first[i] \in Int /\ s.first[i + 1] \in Int
      BY <1>1, <2>1
    <2>. QED  BY <2>1, <2>2, <2>3
  <1>4. j <= k => f[j] <= f[k]
    <2>. HIDE DEF f, n
    <2>1. j \in 1..n /\ k \in 1..n
      BY DEF n
    <2>. QED  BY <1>1, <1>2, <1>3, <2>1, NonDecreasing
  <1>. QED  BY <1>1, <1>4

LEMMA AtIncreases ==
    ASSUME NEW s, HasForm(s), NEW j \in 1..Len(s.piece) + 1, NEW k \in 1..Len(s.piece) + 1, j <= k
    PROVE  s.at[j] <= s.at[k]
  <1>. DEFINE n == Len(s.piece) + 1
              f == [i \in 1..n |-> s.at[i]]
  <1>1. n \in Nat /\ \A i \in 1..n : s.at[i] \in Int
    BY FormTypes
  <1>2. f \in [1..n -> Int]
    BY <1>1
  <1>3. \A i \in 1..n - 1 : f[i] <= f[i + 1]
    <2>. TAKE i \in 1..n - 1
    <2>1. i \in 1..Len(s.piece) /\ i \in 1..n /\ i + 1 \in 1..n
      BY FormTypes
    <2>2. /\ s.piece[i].delim \in {0, 2} /\ Len(s.piece[i].text) \in Nat
          /\ s.at[i] \in 0..Len(s.units)
          /\ s.at[i + 1] = s.at[i] + Len(s.piece[i].text) + s.piece[i].delim
      BY <2>1, PieceForm, Zenon
    <2>3. PICK a \in 0..Len(s.units), l \in Nat, d \in {0, 2} : a = s.at[i] /\ s.at[i + 1] = a + l + d
      BY <2>2, Zenon
    <2>4. s.at[i] <= s.at[i + 1]
      BY <2>3, FormTypes
    <2>. QED  BY <2>1, <2>4
  <1>4. f[j] <= f[k]
    <2>. HIDE DEF f, n
    <2>1. j \in 1..n /\ k \in 1..n
      BY DEF n
    <2>. QED  BY <1>1, <1>2, <1>3, <2>1, NonDecreasing
  <1>. QED  BY <1>4

(* Every piece belongs to a part.                                          *)
LEMMA Owner ==
    ASSUME NEW s, HasForm(s), NEW i \in 1..Len(s.piece)
    PROVE  \E k \in 1..Len(s.part) : s.first[k] < i /\ i <= s.first[k + 1]
  <1>. DEFINE T == {k \in 1..Len(s.part) + 1 : i <= s.first[k]}
  <1>1. /\ Len(s.part) \in Nat /\ Len(s.piece) \in Nat
        /\ \A k \in 1..Len(s.part) + 1 : s.first[k] \in Int
        /\ s.first[1] = 0 /\ s.first[Len(s.part) + 1] = Len(s.piece)
    BY FormTypes
  <1>2. T \in SUBSET Nat /\ Len(s.part) + 1 \in T
    BY <1>1
  <1>3. PICK k \in T : \A m \in T : k <= m
    BY <1>2, LeastOne
  <1>4. k # 1
    BY <1>1, <1>3
  <1>5. k - 1 \in 1..Len(s.part) /\ (k - 1) + 1 = k /\ k - 1 \notin T
    BY <1>1, <1>3, <1>4
  <1>6. s.first[k - 1] < i /\ i <= s.first[(k - 1) + 1]
    BY <1>1, <1>3, <1>5
  <1>. QED  BY <1>5, <1>6
-----------------------------------------------------------------------------
(* Types.                                                                  *)

LEMMA CharTypes ==
    ASSUME NEW u \in Char
    PROVE  u.t \in {"+", "-", ":", "$", "*", "junk", "byte", "CR", "LF"} /\ u.n \in Int /\ u.ok \in BOOLEAN
  BY DEF Char

LEMMA Suffix ==
    ASSUME NEW S, NEW q \in Seq(S), NEW i \in Nat \ {0}
    PROVE  SubSeq(q, i, Len(q)) \in Seq(S)
  <1>1. \A j \in i..Len(q) : q[j] \in S
    OBVIOUS
  <1>2. i \in Int /\ Len(q) \in Int
    OBVIOUS
  <1>. QED  BY <1>1, <1>2, SubSeqProperties

(* The end of a line.                                                      *)
LEMMA EndChosen ==
    ASSUME LineEnds # {}, buffer \in Seq(Char), NEW end,
           end = (CHOOSE i \in LineEnds : \A j \in LineEnds : i <= j)
    PROVE  /\ end \in LineEnds /\ end \in Nat \ {0} /\ end < Len(buffer)
           /\ \A j \in LineEnds : end <= j
  <1>1. LineEnds \in SUBSET Nat /\ \A i \in LineEnds : i # 0 /\ i < Len(buffer)
    BY SMTT(30) DEF LineEnds
  <1>2. \E i \in LineEnds : \A j \in LineEnds : i <= j
    BY <1>1, LeastOne, Zenon
  <1>3. end \in LineEnds /\ \A j \in LineEnds : end <= j
    BY <1>2, Zenon
  <1>. QED  BY <1>1, <1>3

LEMMA StreamIs ==
    ASSUME TypeOK
    PROVE  HasForm(stream) /\ Sizes \in Nat \ {0}
  <1>1. HasForm(stream) /\ Sizes \in Nat
    BY StreamForm DEF TypeOK
  <1>2. Len(stream.units) \in Nat /\ Len(stream.units) + 2 < Sizes
    BY <1>1, FormTypes, Bounded, Zenon
  <1>. QED  BY <1>1, <1>2

(* What get_next_raw_message leaves is of the types of what it found.      *)
Typed(out) ==
    /\ out.kind \in {"raw", "nothing", "throws"}
    /\ out.buffer \in Seq(Char) /\ out.raw \in Seq(Seq(Char)) /\ Len(raw) <= Len(out.raw)
    /\ out.length \subseteq Int /\ \A m, n \in out.length : m = n

LEMMA TakenTyped ==
    ASSUME TypeOK, NEW text \in Seq(Char), NEW i \in Nat \ {0}, NEW kind \in {"raw", "throws"},
           NEW due, due = {} \/ \E n \in Int : due = {n}
    PROVE  Typed(Taken(kind, <<text>>, From(i), due))
  <1>1. buffer \in Seq(Char) /\ raw \in Seq(Seq(Char)) /\ Len(raw) \in Nat
    BY DEF TypeOK
  <1>2. raw \o <<text>> \in Seq(Seq(Char)) /\ Len(raw) <= Len(raw \o <<text>>)
    BY <1>1
  <1>3. From(i) \in Seq(Char)
    BY <1>1, Suffix DEF From
  <1>4. due \subseteq Int /\ \A m, n \in due : m = n
    OBVIOUS
  <1>. QED  BY <1>2, <1>3, <1>4 DEF Taken, Typed

LEMMA NextTypes ==
    ASSUME TypeOK, buffer # <<>>, NEW out, out = GetNextRawMessage(state)
    PROVE  Typed(out)
  <1>1. /\ buffer \in Seq(Char) /\ raw \in Seq(Seq(Char)) /\ Len(buffer) \in Nat /\ Len(raw) \in Nat
        /\ length \subseteq Int /\ \A m, n \in length : m = n
    BY DEF TypeOK
  <1>2. Typed(Nothing) /\ Typed(Throws)
    <2>1. raw \o <<>> = raw
      BY <1>1
    <2>. QED  BY <1>1, <2>1 DEF Nothing, Throws, Taken, Typed
  <1>4. CASE length # {}
    <2>1. PICK n \in length : n = (CHOOSE m \in length : TRUE)
      BY <1>4, Zenon
    <2>2. out = NextString(n, state)
      BY <1>4, <2>1, Zenon DEF GetNextRawMessage
    <2>3. PICK chars, delim : chars = n % Sizes /\ delim = DelimSize(state)
      OBVIOUS
    <2>4. \/ out = Nothing
          \/ out = Throws
          \/ chars <= Len(buffer)
             /\ out = Taken("raw", <<SubSeq(buffer, 1, chars)>>, From(chars + delim + 1), {})
      <3>1. chars \in Int
        BY <1>1, <2>3, StreamIs
      <3>. QED  BY <1>1, <2>2, <2>3, <3>1 DEF NextString
    <2>5. CASE chars <= Len(buffer)
             /\ out = Taken("raw", <<SubSeq(buffer, 1, chars)>>, From(chars + delim + 1), {})
      <3>1. chars \in Nat
        BY <1>1, <2>3, StreamIs
      <3>2. delim \in Nat
        BY <2>3, DelimLen DEF DelimSize
      <3>3. SubSeq(buffer, 1, chars) \in Seq(Char)
        <4>1. 1 \in Nat \ {0} /\ chars \in 0..Len(buffer)
          BY <2>5, <3>1, <1>1
        <4>. QED  BY <1>1, <4>1, Slice
      <3>4. chars + delim + 1 \in Nat \ {0}
        BY <3>1, <3>2
      <3>. QED  BY <2>5, <3>3, <3>4, TakenTyped
    <2>. QED  BY <1>2, <2>4, <2>5
  <1>5. CASE length = {} /\ buffer[1].t \in {"+", "-", ":", "$", "*"} /\ LineEnds # {}
    <2>1. PICK end : end = (CHOOSE i \in LineEnds : \A j \in LineEnds : i <= j)
      OBVIOUS
    <2>2. end \in Nat \ {0} /\ end < Len(buffer)
      BY <1>1, <1>5, <2>1, EndChosen
    <2>3. PICK text : text = SubSeq(buffer, 1, end - 1)
      OBVIOUS
    <2>4. PICK i : i = end + Len(Delim)
      OBVIOUS
    <2>5. text \in Seq(Char)
      <3>1. 1 \in Nat \ {0} /\ end - 1 \in 0..Len(buffer)
        BY <2>2, <1>1
      <3>. QED  BY <1>1, <2>3, <3>1, Slice
    <2>6. i \in Nat \ {0}
      BY <2>2, <2>4, DelimLen
    <2>7. \/ out = Taken("raw", <<text>>, From(i), {})
          \/ out = Taken("raw", <<text>>, From(i), {buffer[1].n})
          \/ out = Taken("throws", <<text>>, From(i), {})
      BY <1>5, <2>1, <2>3, <2>4, Zenon DEF GetNextRawMessage, NextLine
    <2>8. PICK n \in Int : n = buffer[1].n
      <3>1. buffer[1] \in Char
        BY <1>1
      <3>. QED  BY <3>1, CharTypes
    <2>. QED  BY <2>5, <2>6, <2>7, <2>8, TakenTyped
  <1>6. CASE length = {} /\ ~ (buffer[1].t \in {"+", "-", ":", "$", "*"} /\ LineEnds # {})
    <2>1. out = Nothing \/ out = Throws
      BY <1>6, Zenon DEF GetNextRawMessage, NextLine
    <2>. QED  BY <1>2, <2>1
  <1>. QED  BY <1>4, <1>5, <1>6

LEMMA SizeTypes ==
    ASSUME NEW m \in Part
    PROVE  Size(m) \in Nat
  <1>1. CASE m.type \in {"SimpleString", "SimpleError", "Integer", "Array"}
    <2>1. PICK t, n : to_string(m) = <<Line(t, n)>>
      BY <1>1, Zenon DEF to_string
    <2>. QED  BY <2>1, DelimLen DEF Size, Line
  <1>2. CASE m.type \in {"BulkString", "SyncResponse"}
    <2>1. m.value \in Seq(Char)
      BY <1>2 DEF Part
    <2>2. PICK n \in Nat : n = Len(m.value)
      BY <2>1
    <2>3. \/ to_string(m) = <<Line("$", -1)>>
          \/ \E d \in {0, 2} : to_string(m) = <<Line("$", n), Text(m.value, d)>>
      BY <1>2, <2>2, DelimLen DEF to_string
    <2>4. CASE to_string(m) = <<Line("$", -1)>>
      BY <2>4, DelimLen DEF Size, Line
    <2>5. CASE \E d \in {0, 2} : to_string(m) = <<Line("$", n), Text(m.value, d)>>
      <3>1. PICK d \in {0, 2} : to_string(m) = <<Line("$", n), Text(m.value, d)>>
        BY <2>5
      <3>2. PICK x, y : x = Line("$", n) /\ y = Text(m.value, d)
        OBVIOUS
      <3>3. PICK z : z = to_string(m) /\ Len(z) = 2 /\ z[1] = x /\ z[2] = y
        <4>1. to_string(m) = <<x, y>>
          BY <3>1, <3>2, Zenon
        <4>2. Len(<<x, y>>) = 2 /\ <<x, y>>[1] = x /\ <<x, y>>[2] = y
          OBVIOUS
        <4>. QED  BY <4>1, <4>2, Zenon
      <3>4. Len(x.text) + x.delim = 3
        BY <3>2, DelimLen DEF Line
      <3>5. Len(y.text) + y.delim = n + d
        BY <2>2, <3>2 DEF Text
      <3>6. Len(to_string(m)) # 1
        BY <3>3
      <3>7. Size(m) = (Len(x.text) + x.delim) + (Len(y.text) + y.delim)
        BY <3>3, <3>6, Zenon DEF Size
      <3>. QED  BY <3>1, <3>4, <3>5, <3>7
    <2>. QED  BY <2>3, <2>4, <2>5
  <1>. QED  BY <1>1, <1>2 DEF Part

(* One more part is taken.                                                 *)
LEMMA TakeTypes ==
    ASSUME TypeOK, Reads, NEW type, NEW value, NEW count, NEW n \in {1, 2}, count \in Nat,
           read + n <= Len(raw), Take(type, value, count, n),
           \/ type \in {"SimpleString", "SimpleError", "Integer"} /\ value \in Int
           \/ type \in {"BulkString", "SyncResponse"} /\ value \in Seq(Char)
           \/ type = "Array" /\ value \in Nat
    PROVE  /\ TypeOK'
           /\ \E left \in Nat : /\ Message(type, value, left) \in Part /\ left = Left - 1 + count
                                /\ parsed' = Append(parsed, Message(type, value, left))
  <1>1. Left \in Nat \ {0}
    <2>1. parsed \in Seq(Part)
      BY DEF TypeOK
    <2>2. CASE parsed # <<>>
      <3>1. parsed[Len(parsed)] \in Part
        BY <2>1, <2>2
      <3>2. parsed[Len(parsed)].left \in Nat
        BY <3>1 DEF Part
      <3>. QED  BY <2>2, <3>2 DEF Left, Reads
    <2>3. CASE parsed = <<>>
      BY <2>3 DEF Left
    <2>. QED  BY <2>2, <2>3
  <1>2. PICK left \in Nat : left = Left - 1 + count
    BY <1>1
  <1>3. PICK part : part = Message(type, value, left)
    OBVIOUS
  <1>4. part \in Part
    BY <1>2, <1>3 DEF Part, Message
  <1>5. /\ parsed' = Append(parsed, part) /\ read' = read + n /\ size' = size + Size(part)
        /\ UNCHANGED <<stream, arrived, buffer, raw, length, doing, control>>
    BY <1>2, <1>3 DEF Take
  <1>6. parsed' \in Seq(Part) /\ size' \in Nat
    BY <1>4, <1>5, SizeTypes, SMTT(30) DEF TypeOK
  <1>7. read' \in 0..Len(raw')
    BY <1>5 DEF TypeOK
  <1>. QED  BY <1>2, <1>3, <1>4, <1>5, <1>6, <1>7 DEF TypeOK, control

LEMMA AheadTypes ==
    ASSUME TypeOK, Reads
    PROVE  Ahead.n \in Int /\ read + 1 \in 1..Len(raw) /\ Len(raw) \in Nat /\ read \in Nat
  <1>1. raw \in Seq(Seq(Char)) /\ Len(raw) \in Nat /\ read + 1 \in 1..Len(raw) /\ read \in Nat
    BY DEF TypeOK, Reads
  <1>2. raw[read + 1] \in Seq(Char)
    BY <1>1
  <1>3. raw[read + 1] # <<>> => raw[read + 1][1] \in Char
    BY <1>2
  <1>. QED  BY <1>1, <1>3, CharTypes DEF Ahead, Unit

LEMMA ParseTypes ==
    ASSUME TypeOK, ParseLine \/ ParseString \/ ParseArray
    PROVE  TypeOK'
  <1>1. Reads /\ Ahead.n \in Int /\ read + 1 <= Len(raw) /\ Len(raw) \in Nat /\ read \in Nat
    BY AheadTypes DEF ParseLine, ParseString, ParseArray
  <1>2. CASE ParseLine
    <2>1. \E type \in {"SimpleString", "SimpleError", "Integer"} : Take(type, Ahead.n, 0, 1)
      BY <1>2, Zenon DEF ParseLine
    <2>. QED  BY <1>1, <2>1, TakeTypes
  <1>3. CASE ParseArray
    <2>1. PICK n : n = IF Ahead.n < 0 THEN 0 ELSE Ahead.n
      OBVIOUS
    <2>2. n \in Nat
      BY <1>1, <2>1
    <2>3. Take("Array", n, n, 1)
      BY <1>3, <2>1, Zenon DEF ParseArray
    <2>. QED  BY <1>1, <2>2, <2>3, TakeTypes
  <1>4. CASE ParseString
    <2>1. PICK type \in {"SyncResponse", "BulkString"} :
            \/ Take(type, <<>>, 0, 1)
            \/ read + 1 < Len(raw) /\ Take(type, raw[read + 2], 0, 2)
      BY <1>4, Zenon DEF ParseString
    <2>2. CASE Take(type, <<>>, 0, 1)
      <3>1. <<>> \in Seq(Char)
        OBVIOUS
      <3>. QED  BY <1>1, <2>2, <3>1, TakeTypes
    <2>3. CASE read + 1 < Len(raw) /\ Take(type, raw[read + 2], 0, 2)
      <3>1. read + 2 <= Len(raw) /\ raw[read + 2] \in Seq(Char)
        BY <1>1, <2>3 DEF TypeOK
      <3>. QED  BY <1>1, <2>3, <3>1, TakeTypes
    <2>. QED  BY <2>1, <2>2, <2>3
  <1>. QED  BY <1>2, <1>3, <1>4

LEMMA TypeStep ==
    ASSUME TypeOK, [Next]_vars
    PROVE  TypeOK'
  <1>0. /\ buffer \in Seq(Char) /\ raw \in Seq(Seq(Char)) /\ Len(buffer) \in Nat /\ Len(raw) \in Nat
        /\ read \in 0..Len(raw) /\ HasForm(stream) /\ arrived \in 0..Len(stream.units)
        /\ stream.units \in Seq(Char) /\ Len(stream.units) \in Nat
    BY StreamIs, FormTypes DEF TypeOK
  <1>1. CASE UNCHANGED vars
    BY <1>1 DEF TypeOK, vars, control
  <1>2. CASE Read
    <2>1. PICK n \in arrived + 1..Len(stream.units) :
            buffer' = buffer \o SubSeq(stream.units, arrived + 1, n) /\ arrived' = n
      BY <1>2 DEF Read
    <2>2. SubSeq(stream.units, arrived + 1, n) \in Seq(Char)
      <3>1. arrived + 1 \in Nat \ {0} /\ n \in 0..Len(stream.units)
        BY <1>0
      <3>. QED  BY <1>0, <3>1, Slice
    <2>3. buffer' \in Seq(Char)
      BY <1>0, <2>1, <2>2
    <2>. QED  BY <1>0, <1>2, <2>1, <2>3 DEF TypeOK, Read, control
  <1>3. CASE TryParse
    <2>1. PICK out : out = GetNextRawMessage(state)
      OBVIOUS
    <2>2. /\ buffer # <<>> /\ buffer' = out.buffer /\ length' = out.length /\ raw' = out.raw
          /\ doing' \in {"parsing", "idle"}
          /\ UNCHANGED <<stream, arrived, read, parsed, size, control>>
      BY <1>3, <2>1 DEF TryParse
    <2>3. Typed(out)
      BY <2>1, <2>2, NextTypes
    <2>4. Len(raw') \in Nat /\ read' \in 0..Len(raw')
      BY <1>0, <2>2, <2>3 DEF Typed
    <2>. QED  BY <2>2, <2>3, <2>4 DEF TypeOK, Typed, control
  <1>4. CASE ParseLine \/ ParseString \/ ParseArray
    BY <1>4, ParseTypes
  <1>5. CASE ParseThrows
    <2>1. raw' \in Seq(Seq(Char))
      BY <1>0, <1>5, Suffix DEF ParseThrows
    <2>. QED  BY <1>0, <1>5, <2>1 DEF TypeOK, ParseThrows, Afresh, control
  <1>6. CASE UngetAll
    BY <1>0, <1>6 DEF TypeOK, UngetAll, Afresh, control
  <1>7. CASE Return
    <2>1. raw' \in Seq(Seq(Char))
      BY <1>0, <1>7, Suffix DEF Return
    <2>2. returned' \in Seq(Part) /\ counted' \in Nat
      BY <1>7 DEF TypeOK, Return
    <2>3. /\ state' \in {"Any", "SyncResponse", "commands"} /\ failed' \in BOOLEAN
          /\ doing' \in {"idle", "cutting"}
      BY <1>7 DEF TypeOK, Return, Listen
    <2>. QED  BY <1>0, <1>7, <2>1, <2>2, <2>3 DEF TypeOK, Return, Afresh
  <1>8. CASE AllParsed
    BY <1>8 DEF TypeOK, AllParsed, control
  <1>. QED  BY <1>1, <1>2, <1>3, <1>4, <1>5, <1>6, <1>7, <1>8 DEF Next, Parse

LEMMA TypeInit ==
    ASSUME Init
    PROVE  TypeOK
  <1>1. HasForm(stream)
    BY StreamForm DEF Init
  <1>2. Len(stream.units) \in Nat
    BY <1>1, FormTypes
  <1>3. <<>> \in Seq(Char) /\ <<>> \in Seq(Seq(Char)) /\ <<>> \in Seq(Part)
    OBVIOUS
  <1>4. raw \in Seq(Seq(Char)) /\ buffer \in Seq(Char) /\ Len(raw) = 0
    BY <1>3 DEF Init
  <1>5. returned \in Seq(Part) /\ parsed \in Seq(Part)
    BY <1>3, Zenon DEF Init
  <1>6. read \in 0..Len(raw) /\ arrived \in 0..Len(stream.units) /\ length = {}
    BY <1>2, <1>4 DEF Init
  <1>7. length \subseteq Int /\ \A m, n \in length : m = n
    BY <1>6
  <1>. QED  BY <1>4, <1>5, <1>6, <1>7 DEF Init, TypeOK

(* What the parser keeps is what its code declares; a part that is taken   *)
(* is a part of a message, whatever is read.                               *)
THEOREM TypeCorrect == Spec => []TypeOK
  <1>. QED  BY TypeInit, TypeStep, PTL DEF Spec

-----------------------------------------------------------------------------
(* The inductive invariant.                                                *)

(* A malformed line comes in the message the parser is at, or came before: *)
(* nothing is promised of what follows it.                                 *)
Lost(s, a) ==
    \E j \in 1..Len(s.part) :
        ~ WellFormed(s, j) /\ \A k \in a + 1..j - 1 : s.part[k].left # 0

(* What was returned and what parse has of the next message are the parts  *)
(* that were written, in order, and read is behind them.                   *)
InOrder(s, ret, par, rd) ==
    LET a == Len(ret)
        b == Len(ret) + Len(par)
    IN  /\ b <= Len(s.part)
        /\ \A i \in 1..a : ret[i] = s.part[i]
        /\ \A i \in 1..Len(par) : par[i] = s.part[a + i]
        /\ a > 0 => s.part[a].left = 0
        /\ \A k \in a + 1..b - 1 : s.part[k].left # 0
        /\ rd = s.first[b + 1] - s.first[a + 1]

(* What was cut out of the stream are its pieces behind the last message   *)
(* returned.                                                               *)
Held(s, base, held) ==
    /\ base + Len(held) <= Len(s.piece)
    /\ \A i \in 1..Len(held) : held[i] = s.piece[base + i].text

Negative(u) == u.t = "$" /\ u.n < 0

(* Every line that was cut is well-formed, and is the last one cut if its  *)
(* length is negative.                                                     *)
Reached(s, cut) ==
    \A k \in 1..Len(s.part) : s.first[k] < cut =>
        WellFormed(s, k) /\ (s.first[k] + 1 < cut => ~ Negative(LineOf(s, k)))

(* The message behind the last one returned does not end in what parse has *)
(* seen, unless with a length that parse waits for in vain.                *)
Pending(s, a, cut, seen, due) ==
    \A k \in a + 1..Len(s.part) : s.first[k + 1] <= seen =>
        \/ s.part[k].left # 0
        \/ s.first[k + 1] = cut /\ \E n \in due : n < -1

(* The length that is due is that of the line cut last.                    *)
Due(s, cut) ==
    IF cut > 0 /\ s.piece[cut].line /\ s.piece[cut].text[1].t = "$"
    THEN {s.piece[cut].text[1].n} ELSE {}

(* The buffer has what arrived and was not cut.  After a file that was     *)
(* refused the next string is cut without the delimiter behind it.         *)
Buffered(s, arr, buf, cut, skew) ==
    /\ arr + skew = s.at[cut + 1] + Len(buf)
    /\ \A i \in 1..Len(buf) : buf[i] = s.units[s.at[cut + 1] - skew + i]

Skewed(s, due, cut, fail, skew) ==
    \/ skew = 0
    \/ skew = 2 /\ fail /\ due = {} /\ cut > 0 /\ s.piece[cut].delim = 2

(* Part k is what a replica takes for the answer to PSYNC.                 *)
Answer(s, k) == s.part[k] = FullResync /\ Begins(s, k)

(* What the talker expects follows from what it was given.                 *)
Expecting(s, a, st, fail) ==
    /\ s.talker = "server" => st = "Any"
    /\ s.talker = "replica" =>
        /\ st = "Any" => \A k \in 1..a : ~ Answer(s, k)
        /\ st # "Any" => \E k \in 1..a : Answer(s, k)
        /\ st = "SyncResponse" /\ ~ fail => a > 0 /\ Answer(s, a)
        /\ st = "commands" => a > 0 /\ ~ Answer(s, a)
    /\ fail => st = "SyncResponse" /\ \E k \in 1..a : s.part[k].type = "SyncResponse"

(* An idle parser has cut all that arrived whole, up to a negative length. *)
Starved(s, arr, cut, due, fail) ==
    cut = Len(s.piece) \/ arr < s.at[cut + 2] \/ fail \/ \E n \in due : n < 0

(* All is written as this program writes it.                               *)
Exact(s) == \A k \in 1..Len(s.part) : Pieces(s, k) = to_string(s.part[k])

(* How many pieces were returned, and how many were cut.                   *)
Base == stream.first[Len(returned) + 1]
Cut  == Base + Len(raw)

(* Everything is in its place.                                             *)
Placed ==
    /\ InOrder(stream, returned, parsed, read)
    /\ Held(stream, Base, raw)
    /\ Reached(stream, Cut)
    /\ Pending(stream, Len(returned), Cut, IF doing = "parsing" THEN Cut - 1 ELSE Cut, length)
    /\ length = Due(stream, Cut)
    /\ \E skew \in {0, 2} : Buffered(stream, arrived, buffer, Cut, skew)
                              /\ Skewed(stream, length, Cut, failed, skew)
    /\ Expecting(stream, Len(returned), state, failed)
    /\ doing = "idle" => Starved(stream, arrived, Cut, length, failed)

(* What was counted is what was returned, to the byte.                     *)
Counting ==
    Exact(stream) /\ ~ failed =>
        counted = stream.at[Base + 1] /\ size = stream.at[Base + read + 1] - stream.at[Base + 1]

Fresh == doing # "parsing" => read = 0 /\ parsed = <<>> /\ size = 0

IInv ==
    /\ TypeOK /\ Fresh /\ Faithful
    /\ Lost(stream, Len(returned)) \/ (Placed /\ Counting)

-----------------------------------------------------------------------------
(* Lines and strings in their places.                                      *)

(* Piece i is a line with the unit u, and lies in the stream as such.      *)
LineIn(s, u, i) ==
    /\ i \in 1..Len(s.piece) /\ u \in Char /\ u = Unit(u.t, u.n) /\ u.ok
    /\ u.t \in {"+", "-", ":", "*", "$"} /\ u.n \in Int
    /\ s.piece[i].line = TRUE /\ s.piece[i].text = <<u>> /\ s.piece[i].delim = 2
    /\ s.at[i + 1] = s.at[i] + 3
    /\ s.units[s.at[i] + 1] = u /\ s.units[s.at[i] + 2] = CR /\ s.units[s.at[i] + 3] = LF
    /\ Due(s, i) = IF u.t = "$" THEN {u.n} ELSE {}

(* Where a well-formed part begins there is a line.                        *)
LEMMA LineAt ==
    ASSUME NEW s, HasForm(s), NEW k \in 1..Len(s.part), WellFormed(s, k)
    PROVE  LineIn(s, LineOf(s, k), s.first[k] + 1)
  <1>. PICK u : u = LineOf(s, k)
    OBVIOUS
  <1>. PICK i : i = s.first[k] + 1
    OBVIOUS
  <1>. SUFFICES LineIn(s, u, i)
    OBVIOUS
  <1>1. /\ i \in 1..Len(s.piece) /\ u \in Char /\ u.ok
        /\ s.piece[i] = Line(u.t, u.n) /\ u.t \in {"+", "-", ":", "*", "$"}
    <2>. PICK m : m = s.part[k]
      OBVIOUS
    <2>. QED  BY PartForm
  <1>0. i \in 1..Len(s.piece)
    BY <1>1
  <1>2. /\ s.piece[i].line = TRUE /\ s.piece[i].text = <<Unit(u.t, u.n)>> /\ s.piece[i].delim = 2
    BY <1>1, DelimLen DEF Line
  <1>3. u = Unit(u.t, u.n)
    <2>1. <<Unit(u.t, u.n)>>[1] = Unit(u.t, u.n)
      OBVIOUS
    <2>. QED  BY <1>2, <2>1, Zenon DEF LineOf
  <1>4. PICK from \in 0..Len(s.units), to \in 0..Len(s.units), l \in Nat :
          /\ from = s.at[i] /\ to = s.at[i + 1] /\ l = Len(s.piece[i].text)
    <2>1. /\ s.at[i] \in 0..Len(s.units) /\ s.at[i + 1] \in 0..Len(s.units)
          /\ Len(s.piece[i].text) \in Nat
      BY <1>0, PieceForm, Zenon
    <2>. QED  BY <2>1, Zenon
  <1>5. l = 1
    BY <1>2, <1>4
  <1>6. to = from + 1 + 2 /\ s.units[from + 1] = s.piece[i].text[1]
    <2>1. s.at[i + 1] = s.at[i] + Len(s.piece[i].text) + s.piece[i].delim
      BY <1>0, PieceForm, Zenon
    <2>2. \A j \in 1..Len(s.piece[i].text) : s.units[s.at[i] + j] = s.piece[i].text[j]
      BY <1>0, Zenon DEF HasForm
    <2>3. 1 \in 1..l
      BY <1>5
    <2>. QED  BY <1>2, <1>4, <1>5, <2>1, <2>2, <2>3, Zenon
  <1>7. s.units[from + 1 + 1] = CR /\ s.units[from + 1 + 2] = LF
    <2>1. /\ s.units[s.at[i] + Len(s.piece[i].text) + 1] = CR
          /\ s.units[s.at[i] + Len(s.piece[i].text) + 2] = LF
      <3>1. s.piece[i].delim = 2
        BY <1>2
      <3>. QED  BY <1>0, <3>1, PieceForm, Zenon
    <2>. QED  BY <1>4, <1>5, <2>1, Zenon
  <1>8. from + 1 + 1 = from + 2 /\ from + 1 + 2 = from + 3
    BY <1>4, FormTypes
  <1>9. i > 0 /\ u.n \in Int
    BY <1>1, CharTypes
  <1>10. Due(s, i) = IF u.t = "$" THEN {u.n} ELSE {}
    <2>1. s.piece[i].text[1] = u
      BY <1>2, <1>3
    <2>. QED  BY <1>2, <1>9, <2>1, Zenon DEF Due
  <1>11. s.piece[i].text = <<u>> /\ s.piece[i].text[1] = u
    BY <1>2, <1>3
  <1>12. to = from + 3
    BY <1>4, <1>6, FormTypes
  <1>. QED  BY <1>1, <1>2, <1>3, <1>4, <1>12, <1>6, <1>7, <1>8, <1>9, <1>10, <1>11, Zenon DEF LineIn

TextIn(s, u, m, i) ==
    /\ i \in 1..Len(s.piece)
    /\ u.t = "$" /\ u.n = Len(m.value) /\ u.n \in 0..Len(s.units)
    /\ m.type \in {"BulkString", "SyncResponse"} /\ m.value \in Seq(Char)
    /\ s.piece[i].line = FALSE /\ s.piece[i].text = m.value
    /\ s.piece[i].delim = IF m.type = "SyncResponse" THEN 0 ELSE 2
    /\ Due(s, i) = {}

LEMMA TextAt ==
    ASSUME NEW s, HasForm(s), NEW k \in 1..Len(s.part), WellFormed(s, k),
           s.first[k + 1] # s.first[k] + 1
    PROVE  TextIn(s, LineOf(s, k), s.part[k], s.first[k] + 2) /\ s.first[k + 1] = s.first[k] + 2
  <1>. PICK u : u = LineOf(s, k)
    OBVIOUS
  <1>. PICK m : m = s.part[k]
    OBVIOUS
  <1>. PICK i : i = s.first[k] + 2
    OBVIOUS
  <1>. SUFFICES TextIn(s, u, m, i) /\ s.first[k + 1] = i
    OBVIOUS
  <1>1. PICK f \in Nat : f = s.first[k]
    BY FormTypes
  <1>2. /\ u.t = "$" /\ u.n = Len(m.value) /\ u.n \in 0..Len(s.units)
        /\ m.type \in {"BulkString", "SyncResponse"} /\ m.value \in Seq(Char)
        /\ s.first[k + 1] = (s.first[k] + 1) + 1 /\ (s.first[k] + 1) + 1 \in 1..Len(s.piece)
        /\ s.piece[(s.first[k] + 1) + 1] = InText(s, k)
    <2>1. PICK j : j = s.first[k] + 1
      OBVIOUS
    <2>2. \/ s.first[k + 1] = j
          \/ /\ u.t = "$" /\ u.n = Len(m.value) /\ u.n \in 0..Len(s.units)
             /\ m.type \in {"BulkString", "SyncResponse"} /\ m.value \in Seq(Char)
             /\ s.first[k + 1] = j + 1 /\ j + 1 \in 1..Len(s.piece)
             /\ s.piece[j + 1] = InText(s, k)
      BY <2>1, PartForm, SMTT(30)
    <2>. QED  BY <2>1, <2>2, Zenon
  <1>3. (s.first[k] + 1) + 1 = i
    BY <1>1
  <1>4. i \in 1..Len(s.piece) /\ s.first[k + 1] = i /\ s.piece[i] = InText(s, k)
    BY <1>2, <1>3, Zenon
  <1>5. /\ s.piece[i].line = FALSE /\ s.piece[i].text = m.value
        /\ s.piece[i].delim = IF m.type = "SyncResponse" THEN 0 ELSE 2
    BY <1>4 DEF InText, Text
  <1>6. Due(s, i) = {}
    BY <1>5 DEF Due
  <1>. QED  BY <1>2, <1>4, <1>5, <1>6, Zenon DEF TextIn

(* A piece of a part that is well-formed is its line or its string.        *)
LEMMA PieceOf ==
    ASSUME NEW s, HasForm(s), NEW k \in 1..Len(s.part), WellFormed(s, k),
           NEW i \in 1..Len(s.piece), s.first[k] < i, i <= s.first[k + 1]
    PROVE  \/ i = s.first[k] + 1
           \/ i = s.first[k] + 2 /\ s.first[k + 1] = i /\ s.first[k + 1] # s.first[k] + 1
  <1>1. s.first[k] \in Nat /\ Len(s.piece) \in Nat
    BY FormTypes
  <1>2. s.first[k + 1] = s.first[k] + 1 \/ s.first[k + 1] = s.first[k] + 2
    BY TextAt, Zenon
  <1>3. i \in Nat
    BY <1>1
  <1>. QED  BY <1>1, <1>2, <1>3, SMTT(30)

LEMMA LineLength ==
    ASSUME NEW s, HasForm(s), NEW k \in 1..Len(s.part), WellFormed(s, k), NEW u, u = LineOf(s, k),
           u.t = "$", s.first[k + 1] = s.first[k] + 1
    PROVE  u.n < 0 /\ Len(s.units) + 1 - Sizes <= u.n
           /\ s.part[k].type = "BulkString" /\ s.part[k].value = <<>>
  <1>1. s.first[k] \in Nat
    BY FormTypes
  <1>2. s.first[k + 1] # (s.first[k] + 1) + 1
    BY <1>1
  <1>3. Alone(s, k, u.t, u.n)
    <2>. PICK j, m : j = s.first[k] + 1 /\ m = s.part[k]
      OBVIOUS
    <2>. QED  BY <1>2, PartForm
  <1>. QED  BY <1>3 DEF Alone

(* Two parts begin at the same piece only if they are the same.            *)
LEMMA FirstOnce ==
    ASSUME NEW s, HasForm(s), NEW j \in 1..Len(s.part) + 1, NEW k \in 1..Len(s.part) + 1,
           s.first[j] = s.first[k]
    PROVE  j = k
  <1>1. s.first[j] \in Nat /\ Len(s.part) \in Nat
    BY FormTypes
  <1>2. ~ (j < k)
    BY <1>1, FirstIncreases
  <1>3. ~ (k < j)
    BY <1>1, FirstIncreases
  <1>. QED  BY <1>1, <1>2, <1>3

(* Of two parts the one that begins before ends before the other begins.   *)
LEMMA FirstOrder ==
    ASSUME NEW s, HasForm(s), NEW j \in 1..Len(s.part) + 1, NEW k \in 1..Len(s.part) + 1,
           s.first[j] < s.first[k]
    PROVE  j < k /\ j + 1 \in 1..Len(s.part) + 1 /\ s.first[j + 1] <= s.first[k]
  <1>1. s.first[j] \in Nat /\ s.first[k] \in Nat /\ Len(s.part) \in Nat
    BY FormTypes
  <1>2. ~ (k <= j)
    BY <1>1, FirstIncreases
  <1>3. j < k /\ j + 1 \in 1..Len(s.part) + 1
    BY <1>1, <1>2
  <1>4. j + 1 <= k
    BY <1>1, <1>3
  <1>5. s.first[j + 1] <= s.first[k]
    BY <1>3, <1>4, FirstIncreases
  <1>. QED  BY <1>3, <1>5

(* When no length is due, the line of a part is next.                      *)
LEMMA LineNext ==
    ASSUME NEW s, HasForm(s), NEW cut \in Nat, cut < Len(s.piece),
           Reached(s, cut), Due(s, cut) = {}
    PROVE  \E k \in 1..Len(s.part) : s.first[k] = cut
  <1>1. cut + 1 \in 1..Len(s.piece) /\ Len(s.piece) \in Nat
    BY FormTypes
  <1>2. PICK k \in 1..Len(s.part) : s.first[k] < cut + 1 /\ cut + 1 <= s.first[k + 1]
    BY <1>1, Owner
  <1>3. s.first[k] \in Nat /\ k \in 1..Len(s.part) + 1
    BY FormTypes
  <1>4. CASE s.first[k] < cut
    <2>1. WellFormed(s, k)
      BY <1>4 DEF Reached
    <2>2. cut + 1 = s.first[k] + 2
      <3>1. \/ cut + 1 = s.first[k] + 1
            \/ cut + 1 = s.first[k] + 2
        BY <1>1, <1>2, <2>1, PieceOf
      <3>. QED  BY <1>3, <1>4, <3>1
    <2>3. cut = s.first[k] + 1
      BY <1>3, <2>2
    <2>4. s.first[k + 1] # s.first[k] + 1
      BY <1>2, <1>3, <2>3
    <2>5. PICK u, m, i : u = LineOf(s, k) /\ m = s.part[k] /\ i = s.first[k] + 2
      OBVIOUS
    <2>6. u.t = "$"
      BY <2>1, <2>4, <2>5, TextAt DEF TextIn
    <2>7. Due(s, cut) = {u.n}
      <3>1. Due(s, cut) = IF u.t = "$" THEN {u.n} ELSE {}
        BY <2>1, <2>3, <2>5, LineAt DEF LineIn
      <3>. QED  BY <2>6, <3>1
    <2>. QED  BY <2>7
  <1>. QED  BY <1>2, <1>3, <1>4

(* Its line is malformed only if the parser is lost.                       *)
LEMMA LineMalformed ==
    ASSUME NEW s, HasForm(s), NEW a \in 0..Len(s.part), NEW cut \in Nat,
           NEW k \in 1..Len(s.part), s.first[k] = cut, ~ WellFormed(s, k), NEW due,
           Pending(s, a, cut, cut, due), \A n \in due : ~ (n < -1)
    PROVE  Lost(s, a)
  <1>1. ASSUME NEW j \in a + 1..k - 1
        PROVE  s.part[j].left # 0
    <2>1. j \in a + 1..Len(s.part) /\ j + 1 \in 1..Len(s.part) + 1 /\ j + 1 <= k
          /\ k \in 1..Len(s.part) + 1
      BY FormTypes
    <2>2. s.first[j + 1] <= cut
      BY <2>1, FirstIncreases
    <2>. QED  BY <2>1, <2>2 DEF Pending
  <1>. QED  BY <1>1 DEF Lost

(* The line is cut.                                                        *)
LEMMA LineCut ==
    ASSUME NEW s, HasForm(s), NEW a \in 0..Len(s.part), NEW cut \in Nat, Reached(s, cut),
           Due(s, cut) = {}, Pending(s, a, cut, cut, {}), NEW due,
           NEW k \in 1..Len(s.part), s.first[k] = cut, WellFormed(s, k)
    PROVE  Reached(s, cut + 1) /\ Pending(s, a, cut + 1, cut, due)
  <1>1. Pending(s, a, cut + 1, cut, due)
    BY DEF Pending
  <1>2. ASSUME NEW j \in 1..Len(s.part), s.first[j] < cut + 1
        PROVE  WellFormed(s, j) /\ (s.first[j] + 1 < cut + 1 => ~ Negative(LineOf(s, j)))
    <2>1. s.first[j] \in Nat /\ j \in 1..Len(s.part) + 1 /\ k \in 1..Len(s.part) + 1
      BY FormTypes
    <2>2. CASE s.first[j] = cut
      <3>1. j = k
        BY <2>1, <2>2, FirstOnce
      <3>. QED  BY <2>2, <3>1
    <2>3. CASE s.first[j] + 1 = cut
      <3>1. WellFormed(s, j)
        BY <2>1, <2>3 DEF Reached
      <3>2. PICK u : u = LineOf(s, j)
        OBVIOUS
      <3>3. Due(s, cut) = IF u.t = "$" THEN {u.n} ELSE {}
        <4>1. LineIn(s, u, s.first[j] + 1)
          BY <3>1, <3>2, LineAt
        <4>. QED  BY <2>3, <4>1 DEF LineIn
      <3>. QED  BY <3>1, <3>2, <3>3 DEF Negative
    <2>4. CASE s.first[j] # cut /\ s.first[j] + 1 # cut
      <3>1. s.first[j] < cut /\ s.first[j] + 1 < cut
        BY <1>2, <2>1, <2>4
      <3>. QED  BY <3>1 DEF Reached
    <2>. QED  BY <2>2, <2>3, <2>4
  <1>3. Reached(s, cut + 1)
    BY <1>2 DEF Reached
  <1>. QED  BY <1>1, <1>3

(* When a length is due, it is that of the line behind which cut is.       *)
LEMMA TextNext ==
    ASSUME NEW s, HasForm(s), NEW cut \in Nat, cut <= Len(s.piece), Reached(s, cut),
           NEW n \in Due(s, cut)
    PROVE  \E k \in 1..Len(s.part) :
              /\ WellFormed(s, k) /\ s.first[k] + 1 = cut /\ LineOf(s, k).t = "$" /\ LineOf(s, k).n = n
              /\ Due(s, cut) = {n}
  <1>1. cut \in 1..Len(s.piece) /\ s.piece[cut].line
    BY FormTypes DEF Due
  <1>2. PICK k \in 1..Len(s.part) : s.first[k] < cut /\ cut <= s.first[k + 1]
    BY <1>1, Owner
  <1>3. WellFormed(s, k)
    BY <1>2 DEF Reached
  <1>4. PICK u, m, i, l : u = LineOf(s, k) /\ m = s.part[k] /\ i = s.first[k] + 2 /\ l = s.first[k] + 1
    OBVIOUS
  <1>5. cut = s.first[k] + 1
    <2>1. ASSUME cut = s.first[k] + 2, s.first[k + 1] # s.first[k] + 1
          PROVE  FALSE
      <3>1. s.piece[cut].line = FALSE
        BY <1>3, <1>4, <2>1, TextAt DEF TextIn
      <3>. QED  BY <1>1, <3>1
    <2>2. \/ cut = s.first[k] + 1
          \/ cut = s.first[k] + 2 /\ s.first[k + 1] # s.first[k] + 1
      BY <1>1, <1>2, <1>3, PieceOf
    <2>. QED  BY <2>1, <2>2
  <1>6. Due(s, cut) = IF u.t = "$" THEN {u.n} ELSE {}
    BY <1>3, <1>4, <1>5, LineAt DEF LineIn
  <1>7. u.t = "$" /\ u.n = n /\ Due(s, cut) = {n}
    BY <1>6
  <1>. QED  BY <1>3, <1>4, <1>5, <1>7

(* The string is cut.                                                      *)
LEMMA TextCut ==
    ASSUME NEW s, HasForm(s), NEW a \in 0..Len(s.part), NEW cut \in Nat, Reached(s, cut),
           NEW due, Pending(s, a, cut, cut, due), \A n \in due : ~ (n < -1),
           NEW k \in 1..Len(s.part), s.first[k] + 1 = cut, WellFormed(s, k),
           ~ Negative(LineOf(s, k)), s.first[k + 1] = cut + 1
    PROVE  Reached(s, cut + 1) /\ Pending(s, a, cut + 1, cut, {})
  <1>1. Pending(s, a, cut + 1, cut, {})
    BY DEF Pending
  <1>2. ASSUME NEW j \in 1..Len(s.part), s.first[j] < cut + 1
        PROVE  WellFormed(s, j) /\ (s.first[j] + 1 < cut + 1 => ~ Negative(LineOf(s, j)))
    <2>1. /\ s.first[j] \in Nat /\ s.first[k] \in Nat /\ j \in 1..Len(s.part) + 1
          /\ k \in 1..Len(s.part) + 1
      BY FormTypes
    <2>2. CASE s.first[j] = cut
      <3>1. s.first[k] < s.first[j]
        BY <2>1, <2>2
      <3>2. s.first[k + 1] <= s.first[j]
        BY <2>1, <3>1, FirstOrder
      <3>. QED  BY <2>2, <3>2
    <2>3. CASE s.first[j] + 1 = cut
      <3>1. s.first[j] = s.first[k]
        BY <2>1, <2>3, SMTT(30)
      <3>2. j = k
        BY <2>1, <3>1, FirstOnce
      <3>. QED  BY <3>2
    <2>4. CASE s.first[j] # cut /\ s.first[j] + 1 # cut
      <3>1. s.first[j] < cut /\ s.first[j] + 1 < cut
        BY <1>2, <2>1, <2>4, SMTT(30)
      <3>. QED  BY <3>1 DEF Reached
    <2>. QED  BY <2>2, <2>3, <2>4
  <1>3. Reached(s, cut + 1)
    BY <1>2 DEF Reached
  <1>. QED  BY <1>1, <1>3

-----------------------------------------------------------------------------
(* Steps of a parser that is not lost.                                     *)

(* Where the parser is.                                                    *)
LEMMA Bearings ==
    ASSUME TypeOK, Placed, NEW s, s = stream, NEW a, a = Len(returned), NEW b, b = a + Len(parsed),
           NEW base, base = Base, NEW cut, cut = Cut
    PROVE  /\ HasForm(s) /\ a \in 0..Len(s.part) /\ b \in a..Len(s.part) /\ Len(s.part) \in Nat
           /\ Len(parsed) \in Nat /\ Len(raw) \in Nat /\ Len(s.piece) \in Nat /\ Len(s.units) \in Nat
           /\ base = s.first[a + 1] /\ base \in 0..Len(s.piece) /\ cut \in base..Len(s.piece)
           /\ cut = base + Len(raw) /\ s.first[b + 1] = base + read
           /\ read \in 0..Len(raw)
  <1>1. /\ HasForm(s) /\ a \in Nat /\ Len(parsed) \in Nat /\ Len(raw) \in Nat /\ read \in 0..Len(raw)
    BY StreamIs DEF TypeOK
  <1>2. b \in a..Len(s.part) /\ a \in 0..Len(s.part) /\ Len(s.part) \in Nat
    BY <1>1, FormTypes DEF Placed, InOrder
  <1>3. base = s.first[a + 1] /\ cut = base + Len(raw)
    BY DEF Base, Cut
  <1>4. /\ Len(s.piece) \in Nat /\ Len(s.units) \in Nat /\ base \in 0..Len(s.piece)
        /\ s.first[b + 1] \in 0..Len(s.piece)
    <2>1. a + 1 \in 1..Len(s.part) + 1 /\ b + 1 \in 1..Len(s.part) + 1
      BY <1>1, <1>2
    <2>. QED  BY <1>1, <1>3, <2>1, FormTypes
  <1>5. cut \in base..Len(s.piece)
    <2>1. base + Len(raw) <= Len(s.piece)
      BY DEF Placed, Held
    <2>. QED  BY <1>1, <1>3, <1>4, <2>1
  <1>6. s.first[b + 1] = base + read
    <2>1. read = s.first[b + 1] - s.first[a + 1]
      BY DEF Placed, InOrder
    <2>. QED  BY <1>1, <1>3, <1>4, <2>1, SMTT(30)
  <1>. QED  BY <1>1, <1>2, <1>3, <1>4, <1>5, <1>6

(* What the invariant says of the stream, part by part.                    *)
LEMMA PlacedParts ==
    ASSUME Placed, NEW s, s = stream, NEW a, a = Len(returned), NEW base, base = Base,
           NEW cut, cut = Cut
    PROVE  /\ InOrder(s, returned, parsed, read) /\ Held(s, base, raw) /\ Reached(s, cut)
           /\ Pending(s, a, cut, IF doing = "parsing" THEN cut - 1 ELSE cut, length)
           /\ length = Due(s, cut)
           /\ \E skew \in {0, 2} : Buffered(s, arrived, buffer, cut, skew)
                                     /\ Skewed(s, length, cut, failed, skew)
           /\ Expecting(s, a, state, failed)
           /\ doing = "idle" => Starved(s, arrived, cut, length, failed)
  BY Zenon DEF Placed

(* And how it is put together again in the next state.                     *)
LEMMA PlacedAgain ==
    ASSUME NEW s, stream' = s, NEW a, a = Len(returned'), NEW base, base = s.first[a + 1],
           NEW cut, cut = base + Len(raw'),
           InOrder(s, returned', parsed', read'), Held(s, base, raw'), Reached(s, cut),
           Pending(s, a, cut, IF doing' = "parsing" THEN cut - 1 ELSE cut, length'),
           length' = Due(s, cut),
           NEW skew \in {0, 2}, Buffered(s, arrived', buffer', cut, skew),
           Skewed(s, length', cut, failed', skew),
           Expecting(s, a, state', failed'),
           doing' = "idle" => Starved(s, arrived', cut, length', failed')
    PROVE  Placed'
  <1>1. Base' = base
    BY Zenon DEF Base
  <1>2. Cut' = cut
    BY <1>1, Zenon DEF Cut
  <1>. QED  BY <1>1, <1>2, Zenon DEF Placed

LEMMA CountingSame ==
    ASSUME Counting, UNCHANGED <<stream, returned, read, size, counted, failed>>
    PROVE  Counting'
  BY DEF Counting, Base

(* Read.                                                                   *)
LEMMA ReadKeeps ==
    ASSUME TypeOK, Placed, Read
    PROVE  Placed'
  <1>1. PICK s, a, base, cut : s = stream /\ a = Len(returned) /\ base = Base /\ cut = Cut
    OBVIOUS
  <1>2. /\ HasForm(s) /\ base = s.first[a + 1] /\ cut = base + Len(raw) /\ cut \in Nat
        /\ cut <= Len(s.piece) /\ Len(s.piece) \in Nat /\ Len(s.units) \in Nat
    BY <1>1, Bearings
  <1>3. PICK n \in arrived + 1..Len(s.units) :
            buffer' = buffer \o SubSeq(s.units, arrived + 1, n) /\ arrived' = n
    BY <1>1 DEF Read
  <1>4. /\ doing = "idle" /\ doing' = "cutting"
        /\ UNCHANGED <<stream, raw, length, read, parsed, size, control>>
    BY DEF Read
  <1>5. PICK skew \in {0, 2} : Buffered(s, arrived, buffer, cut, skew)
                                 /\ Skewed(s, length, cut, failed, skew)
    BY <1>1, PlacedParts
  <1>6. Buffered(s, arrived', buffer', cut, skew)
    <2>1. PICK more : more = SubSeq(s.units, arrived + 1, n)
      OBVIOUS
    <2>2. buffer \in Seq(Char) /\ arrived \in 0..Len(s.units) /\ s.units \in Seq(Char)
      BY <1>1, <1>2, FormTypes DEF TypeOK
    <2>3. more \in Seq(Char) /\ Len(more) = n - arrived
          /\ \A i \in 1..n - arrived : more[i] = s.units[arrived + i]
      <3>1. PICK m : m = arrived + 1
        OBVIOUS
      <3>2. m \in Nat \ {0} /\ n \in 0..Len(s.units)
        BY <1>2, <2>2, <3>1
      <3>3. /\ more \in Seq(Char) /\ Len(more) = IF m <= n THEN n - m + 1 ELSE 0
            /\ \A i \in 1..n - m + 1 : more[i] = s.units[m + i - 1]
        BY <2>1, <2>2, <3>1, <3>2, Slice
      <3>4. n - m + 1 = n - arrived /\ m <= n
        BY <2>2, <3>1, <3>2
      <3>5. ASSUME NEW i \in 1..n - arrived
            PROVE  more[i] = s.units[arrived + i]
        <4>1. more[i] = s.units[m + i - 1]
          BY <3>3, <3>4
        <4>2. m + i - 1 = arrived + i
          BY <2>2, <3>1, <3>2
        <4>. QED  BY <4>1, <4>2
      <3>6. Len(more) = n - arrived
        BY <3>3, <3>4, Zenon
      <3>. QED  BY <3>3, <3>5, <3>6
    <2>4. /\ s.at[cut + 1] \in Nat
      <3>1. cut + 1 \in 1..Len(s.piece) + 1
        BY <1>2
      <3>. QED  BY <1>2, <3>1, FormTypes
    <2>5. PICK l, at \in Nat : l = Len(buffer) /\ at = s.at[cut + 1]
      BY <2>2, <2>4
    <2>6. arrived + skew = at + l /\ \A i \in 1..l : buffer[i] = s.units[at - skew + i]
      BY <1>5, <2>5 DEF Buffered
    <2>7. buffer' = buffer \o more /\ Len(buffer') = l + (n - arrived)
          /\ \A i \in 1..l + (n - arrived) :
                buffer'[i] = IF i <= l THEN buffer[i] ELSE more[i - l]
      BY <1>3, <2>1, <2>2, <2>3, <2>5
    <2>8. n + skew = at + Len(buffer')
      <3>1. arrived + skew = at + l /\ Len(buffer') = l + (n - arrived)
        BY <2>6, <2>7
      <3>2. n \in Int /\ arrived \in Int
        BY <1>2, <2>2
      <3>. QED  BY <2>5, <3>1, <3>2, SMTT(30)
    <2>9. ASSUME NEW i \in 1..Len(buffer')
          PROVE  buffer'[i] = s.units[at - skew + i]
      <3>1. i \in 1..l + (n - arrived)
        BY <2>7
      <3>2. CASE i <= l
        BY <2>2, <2>5, <2>6, <2>7, <3>1, <3>2
      <3>3. CASE ~ (i <= l)
        <4>1. buffer'[i] = more[i - l] /\ i - l \in 1..n - arrived
          BY <2>2, <2>5, <2>7, <3>1, <3>3, SMTT(30)
        <4>2. arrived + (i - l) = at - skew + i
          <5>1. arrived + skew = at + l
            BY <2>6
          <5>2. n \in Int /\ arrived \in Int
            BY <1>2, <2>2
          <5>3. i \in Int /\ skew \in Int /\ l \in Int /\ at \in Int
            BY <2>5, <3>1, <5>2
          <5>. QED  BY <5>1, <5>2, <5>3
        <4>. QED  BY <2>3, <4>1, <4>2
      <3>. QED  BY <3>2, <3>3
    <2>. QED  BY <1>3, <2>5, <2>8, <2>9 DEF Buffered
  <1>7. /\ InOrder(s, returned', parsed', read') /\ Held(s, base, raw') /\ Reached(s, cut)
        /\ Pending(s, a, cut, IF doing' = "parsing" THEN cut - 1 ELSE cut, length')
        /\ length' = Due(s, cut) /\ Skewed(s, length', cut, failed', skew)
        /\ Expecting(s, a, state', failed')
    BY <1>1, <1>4, <1>5, PlacedParts, Zenon DEF control
  <1>8. stream' = s /\ a = Len(returned') /\ cut = base + Len(raw')
    BY <1>1, <1>2, <1>4 DEF control
  <1>. QED  BY <1>2, <1>4, <1>6, <1>7, <1>8, PlacedAgain

LEMMA Longer ==
    ASSUME NEW S, NEW q \in Seq(S), NEW x \in S
    PROVE  /\ Len(q \o <<x>>) = Len(q) + 1
           /\ \A i \in 1..Len(q) : (q \o <<x>>)[i] = q[i]
           /\ (q \o <<x>>)[Len(q) + 1] = x
  OBVIOUS

(* TryParse takes nothing, or the next piece.                              *)
LEMMA TryParseStays ==
    ASSUME TypeOK, Placed, TryParse, NEW out \in {Nothing, Throws}, out = GetNextRawMessage(state),
           Starved(stream, arrived, Cut, length, failed)
    PROVE  Placed'
  <1>1. PICK s, a, base, cut : s = stream /\ a = Len(returned) /\ base = Base /\ cut = Cut
    OBVIOUS
  <1>2. base = s.first[a + 1] /\ cut = base + Len(raw)
    BY <1>1, Bearings
  <1>3. PICK skew \in {0, 2} : Buffered(s, arrived, buffer, cut, skew)
                                 /\ Skewed(s, length, cut, failed, skew)
    BY <1>1, PlacedParts
  <1>4. /\ doing = "cutting" /\ buffer' = out.buffer /\ length' = out.length /\ raw' = out.raw
        /\ doing' = IF out.kind = "raw" THEN "parsing" ELSE "idle"
        /\ UNCHANGED <<stream, arrived, read, parsed, size, control>>
    BY Zenon DEF TryParse
  <1>5. buffer' = buffer /\ length' = length /\ raw' = raw /\ doing' = "idle"
    <2>1. raw \o <<>> = raw
      BY DEF TypeOK
    <2>. QED  BY <1>4, <2>1 DEF Nothing, Throws, Taken
  <1>6. /\ InOrder(s, returned', parsed', read') /\ Held(s, base, raw') /\ Reached(s, cut)
        /\ Pending(s, a, cut, IF doing' = "parsing" THEN cut - 1 ELSE cut, length')
        /\ length' = Due(s, cut) /\ Skewed(s, length', cut, failed', skew)
        /\ Buffered(s, arrived', buffer', cut, skew)
        /\ Expecting(s, a, state', failed')
        /\ Starved(s, arrived', cut, length', failed')
    BY <1>1, <1>3, <1>4, <1>5, PlacedParts, Zenon DEF control
  <1>7. stream' = s /\ a = Len(returned') /\ cut = base + Len(raw')
    BY <1>1, <1>2, <1>4, <1>5 DEF control
  <1>. QED  BY <1>2, <1>6, <1>7, PlacedAgain

LEMMA TryParseTakes ==
    ASSUME TypeOK, Placed, TryParse, NEW s, s = stream, NEW a, a = Len(returned),
           NEW cut \in Nat, cut = Cut, NEW next \in 1..Len(s.piece), next = cut + 1,
           NEW text, NEW rest, NEW due, NEW out, out = GetNextRawMessage(state),
           out = Taken("raw", <<text>>, rest, due),
           text = s.piece[next].text, due = Due(s, next),
           Reached(s, next), Pending(s, a, next, cut, due),
           NEW skew \in {0, 2}, Buffered(s, arrived, rest, next, skew),
           Skewed(s, due, next, failed, skew)
    PROVE  Placed'
  <1>1. PICK base : base = Base
    OBVIOUS
  <1>2. HasForm(s) /\ base = s.first[a + 1] /\ Held(s, base, raw)
    BY <1>1, Bearings, PlacedParts, SMTT(30)
  <1>3. base \in Nat
    BY <1>1, Bearings
  <1>4. Len(s.piece) \in Nat
    BY Bearings
  <1>5. PICK l \in Nat : l = Len(raw)
    BY Bearings
  <1>6. cut = base + l
    BY <1>1, <1>5, Bearings, Zenon
  <1>7. /\ buffer' = out.buffer /\ length' = out.length /\ raw' = out.raw
        /\ doing' = IF out.kind = "raw" THEN "parsing" ELSE "idle"
        /\ UNCHANGED <<stream, arrived, read, parsed, size, control>>
    BY Zenon DEF TryParse
  <1>8. buffer' = rest /\ length' = due /\ raw' = raw \o <<text>> /\ doing' = "parsing"
    BY <1>7 DEF Taken
  <1>9. Len(raw') = l + 1 /\ (\A i \in 1..l : raw'[i] = raw[i]) /\ raw'[l + 1] = text
    <2>1. text \in Seq(Char)
      BY <1>2, PieceForm, Zenon
    <2>2. raw \in Seq(Seq(Char))
      BY DEF TypeOK
    <2>3. PICK z, q : z = raw' /\ q = raw
      OBVIOUS
    <2>4. z = q \o <<text>> /\ l = Len(q) /\ q \in Seq(Seq(Char))
      BY <1>5, <1>8, <2>2, <2>3, Zenon
    <2>5. /\ Len(q \o <<text>>) = Len(q) + 1
          /\ \A i \in 1..Len(q) : (q \o <<text>>)[i] = q[i]
          /\ (q \o <<text>>)[Len(q) + 1] = text
      <3>1. PICK S : S = Seq(Char)
        OBVIOUS
      <3>2. q \in Seq(S) /\ text \in S
        BY <2>1, <2>4, <3>1, Zenon
      <3>. QED  BY <3>2, Longer
    <2>6. Len(z) = l + 1 /\ (\A i \in 1..l : z[i] = q[i]) /\ z[l + 1] = text
      BY <2>4, <2>5, Zenon
    <2>. QED  BY <2>3, <2>6, Zenon
  <1>10. next = base + (l + 1)
    BY <1>3, <1>6
  <1>11. Held(s, base, raw')
    <2>1. \A i \in 1..l : raw[i] = s.piece[base + i].text
      BY <1>2, <1>5, Zenon DEF Held
    <2>2. base + (l + 1) <= Len(s.piece)
      BY <1>4, <1>10
    <2>3. ASSUME NEW i \in 1..l + 1
          PROVE  raw'[i] = s.piece[base + i].text
      <3>1. i \in 1..l \/ i = l + 1
        OBVIOUS
      <3>. QED  BY <1>9, <1>10, <2>1, <3>1, Zenon
    <2>. QED  BY <1>9, <2>2, <2>3, Zenon DEF Held
  <1>12. /\ InOrder(s, returned', parsed', read') /\ Expecting(s, a, state', failed')
         /\ length' = Due(s, next) /\ Skewed(s, length', next, failed', skew)
         /\ Buffered(s, arrived', buffer', next, skew)
         /\ stream' = s /\ a = Len(returned') /\ doing' # "idle"
    BY <1>7, <1>8, PlacedParts, Zenon DEF control
  <1>13. next = base + Len(raw')
    BY <1>9, <1>10, Zenon
  <1>14. Pending(s, a, next, IF doing' = "parsing" THEN next - 1 ELSE next, length')
    <2>1. next - 1 = cut
      OBVIOUS
    <2>2. (IF doing' = "parsing" THEN next - 1 ELSE next) = cut
      BY <1>8, <2>1, Zenon
    <2>. QED  BY <1>8, <2>2, Zenon
  <1>. QED  BY <1>2, <1>11, <1>12, <1>13, <1>14, PlacedAgain

(* What is left of the buffer when n units are cut.                        *)
LEMMA RestOf ==
    ASSUME buffer \in Seq(Char), NEW n \in 0..Len(buffer)
    PROVE  /\ Len(From(n + 1)) = Len(buffer) - n
           /\ \A i \in 1..Len(buffer) - n : From(n + 1)[i] = buffer[n + i]
  <1>1. PICK l \in Nat : l = Len(buffer)
    OBVIOUS
  <1>2. PICK m \in Nat \ {0} : m = n + 1
    OBVIOUS
  <1>3. PICK rest : rest = From(m)
    OBVIOUS
  <1>4. n \in 0..l /\ l \in 0..Len(buffer)
    BY <1>1
  <1>5. /\ Len(SubSeq(buffer, m, l)) = IF m <= l THEN l - m + 1 ELSE 0
        /\ \A i \in 1..l - m + 1 : SubSeq(buffer, m, l)[i] = buffer[m + i - 1]
    BY <1>4, Slice
  <1>6. SubSeq(buffer, m, l) = rest
    BY <1>1, <1>3, Zenon DEF From
  <1>7. Len(rest) = IF m <= l THEN l - m + 1 ELSE 0
    BY <1>5, <1>6, Zenon
  <1>8. Len(rest) = l - n
    BY <1>2, <1>4, <1>7
  <1>9. ASSUME NEW i \in 1..l - n
        PROVE  rest[i] = buffer[n + i]
    <2>1. i \in 1..l - m + 1 /\ m + i - 1 = n + i
      BY <1>2, <1>4
    <2>. QED  BY <1>5, <1>6, <2>1, Zenon
  <1>. QED  BY <1>1, <1>2, <1>3, <1>8, <1>9, Zenon

LEMMA Same ==
    ASSUME NEW S, NEW p \in Seq(S), NEW q \in Seq(S), Len(p) = Len(q),
           \A i \in 1..Len(q) : p[i] = q[i]
    PROVE  p = q
  BY SeqEqual

(* The first units of the buffer.                                          *)
LEMMA FirstOf ==
    ASSUME NEW text \in Seq(Char), buffer \in Seq(Char), Len(text) <= Len(buffer),
           \A i \in 1..Len(text) : buffer[i] = text[i]
    PROVE  SubSeq(buffer, 1, Len(text)) = text
  <1>1. PICK n \in 0..Len(buffer) : n = Len(text)
    OBVIOUS
  <1>2. 1 \in Nat \ {0}
    OBVIOUS
  <1>3. /\ SubSeq(buffer, 1, n) \in Seq(Char)
        /\ Len(SubSeq(buffer, 1, n)) = IF 1 <= n THEN n - 1 + 1 ELSE 0
        /\ \A i \in 1..n - 1 + 1 : SubSeq(buffer, 1, n)[i] = buffer[1 + i - 1]
    BY <1>2, Slice
  <1>4. PICK z : z = SubSeq(buffer, 1, n)
    OBVIOUS
  <1>5. Len(z) = IF 1 <= n THEN n - 1 + 1 ELSE 0
    BY <1>3, <1>4, Zenon
  <1>6. Len(z) = n /\ n - 1 + 1 = n
    BY <1>5
  <1>7. ASSUME NEW i \in 1..n
        PROVE  z[i] = text[i]
    <2>1. i \in 1..n - 1 + 1 /\ 1 + i - 1 = i
      OBVIOUS
    <2>2. z[i] = buffer[i]
      BY <1>3, <1>4, <2>1, Zenon
    <2>. QED  BY <1>1, <2>2
  <1>8. z \in Seq(Char) /\ Len(z) = Len(text) /\ \A i \in 1..Len(text) : z[i] = text[i]
    BY <1>1, <1>3, <1>4, <1>6, <1>7, Zenon
  <1>9. z = text
    BY <1>8, Same
  <1>. QED  BY <1>1, <1>4, <1>9, Zenon

(* After a refused file the parser is at a delimiter, and throws.          *)
LEMMA TryParseSkewed ==
    ASSUME TypeOK, Placed, TryParse, Buffered(stream, arrived, buffer, Cut, 2),
           Skewed(stream, length, Cut, failed, 2)
    PROVE  Placed'
  <1>1. PICK s, a, base, cut : s = stream /\ a = Len(returned) /\ base = Base /\ cut = Cut
    OBVIOUS
  <1>2. HasForm(s) /\ cut \in Nat /\ cut <= Len(s.piece) /\ Len(s.piece) \in Nat
    BY <1>1, Bearings
  <1>3. failed /\ length = {} /\ cut > 0 /\ s.piece[cut].delim = 2
    BY <1>1 DEF Skewed
  <1>4. cut \in 1..Len(s.piece)
    BY <1>2, <1>3
  <1>5. buffer \in Seq(Char) /\ 1 \in 1..Len(buffer)
    BY DEF TypeOK, TryParse
  <1>6. buffer[1] = s.units[s.at[cut + 1] - 2 + 1]
    BY <1>1, <1>5, Zenon DEF Buffered
  <1>7. s.at[cut + 1] - 2 + 1 = s.at[cut] + Len(s.piece[cut].text) + 1
    <2>1. /\ s.at[cut] \in 0..Len(s.units) /\ Len(s.piece[cut].text) \in Nat
          /\ s.at[cut + 1] = s.at[cut] + Len(s.piece[cut].text) + s.piece[cut].delim
      BY <1>2, <1>4, PieceForm, Zenon
    <2>2. PICK from \in 0..Len(s.units), l \in Nat : from = s.at[cut] /\ l = Len(s.piece[cut].text)
      BY <2>1, Zenon
    <2>3. s.at[cut + 1] = from + l + 2
      BY <1>3, <2>1, <2>2, Zenon
    <2>4. s.at[cut + 1] - 2 + 1 = from + l + 1
      BY <1>2, <2>3, FormTypes
    <2>. QED  BY <2>2, <2>4, Zenon
  <1>8. buffer[1] = CR
    <2>1. s.units[s.at[cut] + Len(s.piece[cut].text) + 1] = CR
      BY <1>2, <1>3, <1>4, PieceForm, Zenon
    <2>. QED  BY <1>6, <1>7, <2>1, Zenon
  <1>9. buffer[1].t \notin {"+", "-", ":", "$", "*"}
    BY <1>8 DEF CR, Unit
  <1>10. GetNextRawMessage(state) = Throws
    BY <1>3, <1>9, Zenon DEF GetNextRawMessage, NextLine
  <1>11. Starved(stream, arrived, Cut, length, failed)
    BY <1>3, Zenon DEF Starved
  <1>12. PICK out \in {Nothing, Throws} : out = GetNextRawMessage(state)
    BY <1>10
  <1>. QED  BY <1>11, <1>12, TryParseStays

(* A line is cut, if all of it is there.                                   *)
LEMMA TryParseLine ==
    ASSUME TypeOK, Placed, TryParse, length = {}, Buffered(stream, arrived, buffer, Cut, 0)
    PROVE  Placed' \/ Lost(stream, Len(returned))
  <1>1. PICK s, a, base, cut : s = stream /\ a = Len(returned) /\ base = Base /\ cut = Cut
    OBVIOUS
  <1>2. /\ HasForm(s) /\ cut \in Nat /\ cut <= Len(s.piece) /\ Len(s.piece) \in Nat
        /\ a \in 0..Len(s.part) /\ Len(s.units) \in Nat
    BY <1>1, Bearings
  <1>3. buffer \in Seq(Char) /\ doing = "cutting"
    BY DEF TypeOK, TryParse
  <1>4. PICK l \in Nat \ {0} : l = Len(buffer)
    BY <1>3 DEF TryParse
  <1>5. PICK at \in Nat : at = s.at[cut + 1]
    <2>1. cut + 1 \in 1..Len(s.piece) + 1
      BY <1>2
    <2>. QED  BY <1>2, <2>1, FormTypes
  <1>6. arrived \in Nat /\ arrived <= Len(s.units)
    BY <1>1, <1>2 DEF TypeOK
  <1>7. arrived = at + l
    <2>1. arrived + 0 = at + l
      BY <1>1, <1>4, <1>5, Zenon DEF Buffered
    <2>. QED  BY <1>6, <2>1
  <1>8. ASSUME NEW i \in 1..l
        PROVE  buffer[i] = s.units[at + i]
    <2>1. buffer[i] = s.units[at - 0 + i] /\ at - 0 = at
      <3>1. buffer[i] = s.units[s.at[cut + 1] - 0 + i]
        BY <1>1, <1>4, Zenon DEF Buffered
      <3>. QED  BY <1>5, <3>1
    <2>. QED  BY <2>1, Zenon
  <1>9. /\ Reached(s, cut) /\ Due(s, cut) = {} /\ Pending(s, a, cut, cut, {})
    <2>1. Pending(s, a, cut, IF doing = "parsing" THEN cut - 1 ELSE cut, length)
          /\ Reached(s, cut) /\ length = Due(s, cut)
      BY <1>1, PlacedParts
    <2>. QED  BY <1>3, <2>1
  <1>10. cut < Len(s.piece)
    <2>1. cut # Len(s.piece)
      <3>. SUFFICES ASSUME cut = Len(s.piece)
                    PROVE  FALSE
        OBVIOUS
      <3>1. s.at[Len(s.piece) + 1] = Len(s.units)
        BY <1>2, FormTypes, Zenon
      <3>2. at = Len(s.units)
        BY <1>5, <3>1, Zenon
      <3>. QED  BY <1>2, <1>4, <1>6, <1>7, <3>2
    <2>. QED  BY <1>2, <2>1
  <1>11. PICK k \in 1..Len(s.part) : s.first[k] = cut
    BY <1>2, <1>9, <1>10, LineNext
  <1>12. PICK next \in 1..Len(s.piece) : next = cut + 1
    BY <1>2, <1>10
  <1>13. CASE ~ WellFormed(s, k)
    <2>1. \A n \in {} : ~ (n < -1)
      OBVIOUS
    <2>2. Lost(s, a)
      BY <1>2, <1>9, <1>11, <1>13, <2>1, LineMalformed
    <2>. QED  BY <1>1, <2>2
  <1>14. CASE WellFormed(s, k)
    <2>1. PICK u : u = LineOf(s, k)
      OBVIOUS
    <2>2. LineIn(s, u, next)
      BY <1>2, <1>11, <1>12, <1>14, <2>1, LineAt
    <2>3. /\ u.t \in {"+", "-", ":", "*", "$"} /\ u.ok /\ u \in Char /\ u = Unit(u.t, u.n)
          /\ s.piece[next].text = <<u>> /\ Due(s, next) = IF u.t = "$" THEN {u.n} ELSE {}
      BY <2>2, Zenon DEF LineIn
    <2>4. /\ s.at[next + 1] = at + 3
          /\ s.units[at + 1] = u /\ s.units[at + 2] = CR /\ s.units[at + 3] = LF
      BY <1>5, <1>12, <2>2, Zenon DEF LineIn
    <2>5. buffer[1] = u /\ u # CR
      <3>1. buffer[1] = u
        BY <1>4, <1>8, <2>4
      <3>. QED  BY <2>3, <3>1 DEF CR, Unit
    <2>6. GetNextRawMessage(state) = NextLine
      BY Zenon DEF GetNextRawMessage
    <2>7. CASE l < 3
      <3>1. LineEnds = {}
        <4>1. ASSUME NEW i \in LineEnds
              PROVE  FALSE
          <5>1. i = 1 /\ buffer[i] = CR
            BY <1>4, <2>7, <4>1 DEF LineEnds
          <5>. QED  BY <2>5, <5>1
        <4>. QED  BY <4>1
      <3>2. GetNextRawMessage(state) = Nothing
        <4>1. buffer[1].t \in {"+", "-", ":", "$", "*"}
          BY <2>3, <2>5
        <4>. QED  BY <2>6, <3>1, <4>1, Zenon DEF NextLine
      <3>3. arrived < s.at[cut + 2]
        <4>1. cut + 2 = next + 1
          BY <1>2, <1>12
        <4>. QED  BY <1>4, <1>5, <1>7, <2>4, <2>7, <4>1
      <3>4. Starved(stream, arrived, Cut, length, failed)
        BY <1>1, <3>3, Zenon DEF Starved
      <3>5. PICK out \in {Nothing, Throws} : out = GetNextRawMessage(state)
        BY <3>2
      <3>. QED  BY <3>4, <3>5, TryParseStays
    <2>8. CASE l >= 3
      <3>1. 2 \in LineEnds
        <4>1. buffer[2] = CR /\ buffer[3] = LF
          BY <1>4, <1>8, <2>4, <2>8, SMTT(30)
        <4>2. 2 \in 1..Len(buffer) - 1 /\ buffer[2 + 1] = LF
          BY <1>4, <2>8, <4>1
        <4>. QED  BY <4>1, <4>2, Zenon DEF LineEnds
      <3>2. PICK end : end = (CHOOSE i \in LineEnds : \A j \in LineEnds : i <= j)
        OBVIOUS
      <3>3. end = 2
        <4>1. end \in LineEnds /\ end \in Nat \ {0} /\ \A j \in LineEnds : end <= j
          BY <1>3, <3>1, <3>2, EndChosen
        <4>2. end # 1
          <5>1. buffer[end] = CR
            BY <4>1 DEF LineEnds
          <5>. QED  BY <2>5, <5>1
        <4>3. end <= 2
          BY <3>1, <4>1
        <4>. QED  BY <4>1, <4>2, <4>3
      <3>4. SubSeq(buffer, 1, end - 1) = <<u>>
        <4>1. PICK text : text = <<u>>
          OBVIOUS
        <4>2. text \in Seq(Char) /\ Len(text) = 1 /\ text[1] = u
          BY <2>3, <4>1
        <4>3. SubSeq(buffer, 1, Len(text)) = text
          BY <1>3, <1>4, <2>5, <4>2, FirstOf
        <4>4. end - 1 = 1
          BY <3>3
        <4>. QED  BY <4>1, <4>2, <4>3, <4>4, Zenon
      <3>5. end + Len(Delim) = 3 + 1
        BY <3>3, DelimLen
      <3>6. PICK due : due = Due(s, next)
        OBVIOUS
      <3>7. PICK text, rest : text = <<u>> /\ rest = From(3 + 1)
        OBVIOUS
      <3>8. NextLine = Taken("raw", <<text>>, rest, due)
        <4>1. buffer[1].t \in {"+", "-", ":", "$", "*"} /\ buffer[1].t = u.t /\ buffer[1].ok
              /\ buffer[1].n = u.n
          BY <2>3, <2>5
        <4>2. LineEnds # {}
          BY <3>1
        <4>3. PICK first, i : first = SubSeq(buffer, 1, end - 1) /\ i = end + Len(Delim)
          OBVIOUS
        <4>5. \/ buffer[1].t # "$" /\ NextLine = Taken("raw", <<first>>, From(i), {})
              \/ buffer[1].t = "$" /\ NextLine = Taken("raw", <<first>>, From(i), {buffer[1].n})
          BY <3>2, <4>1, <4>2, <4>3, Zenon DEF NextLine
        <4>6. first = text /\ From(i) = rest
          BY <3>4, <3>5, <3>7, <4>3, Zenon
        <4>4. due = IF u.t = "$" THEN {u.n} ELSE {}
          BY <2>3, <3>6, Zenon
        <4>. QED  BY <4>1, <4>4, <4>5, <4>6, Zenon
      <3>9. Buffered(s, arrived, rest, next, 0)
        <4>1. 3 \in 0..Len(buffer)
          BY <1>4, <2>8
        <4>2. Len(rest) = l - 3 /\ \A i \in 1..l - 3 : rest[i] = buffer[3 + i]
          BY <1>3, <1>4, <3>7, <4>1, RestOf, Zenon
        <4>3. arrived + 0 = s.at[next + 1] + Len(rest)
          <5>1. s.at[next + 1] = at + 3 /\ Len(rest) = l - 3
            BY <2>4, <4>2, Zenon
          <5>2. arrived + 0 = (at + 3) + (l - 3)
            BY <1>6, <1>7
          <5>. QED  BY <5>1, <5>2, Zenon
        <4>4. ASSUME NEW i \in 1..Len(rest)
              PROVE  rest[i] = s.units[s.at[next + 1] - 0 + i]
          <5>1. i \in 1..l - 3
            BY <4>2
          <5>2. 3 + i \in 1..l /\ at + (3 + i) = at + 3 - 0 + i
            BY <1>4, <1>5, <5>1, SMTT(30)
          <5>3. rest[i] = s.units[at + (3 + i)]
            BY <1>8, <4>2, <5>1, <5>2, Zenon
          <5>4. s.at[next + 1] - 0 + i = at + (3 + i)
            <6>1. s.at[next + 1] = at + 3
              BY <2>4, Zenon
            <6>2. i \in Int
              BY <5>1
            <6>3. PICK v : v = s.at[next + 1]
              OBVIOUS
            <6>4. v = at + 3 /\ at \in Nat
              BY <1>5, <6>1, <6>3, Zenon
            <6>5. v - 0 + i = at + (3 + i)
              BY <6>2, <6>4
            <6>. QED  BY <6>3, <6>5, Zenon
          <5>. QED  BY <5>3, <5>4, Zenon
        <4>. QED  BY <4>3, <4>4, Zenon DEF Buffered
      <3>10. Skewed(s, due, next, failed, 0) /\ 0 \in {0, 2}
        BY DEF Skewed
      <3>11. Reached(s, next) /\ Pending(s, a, next, cut, due)
        BY <1>2, <1>9, <1>11, <1>12, <1>14, LineCut, Zenon
      <3>12. text = s.piece[next].text
        BY <2>3, <3>7, Zenon
      <3>13. PICK out : out = GetNextRawMessage(state)
        OBVIOUS
      <3>14. out = Taken("raw", <<text>>, rest, due)
        BY <2>6, <3>8, <3>13, Zenon
      <3>15. Placed'
        BY <1>1, <1>2, <1>12, <3>6, <3>9, <3>10, <3>11, <3>12, <3>13, <3>14, TryParseTakes
      <3>. QED  BY <3>15
    <2>. QED  BY <1>4, <2>7, <2>8
  <1>. QED  BY <1>13, <1>14

-----------------------------------------------------------------------------
(* The database file.                                                      *)

LEMMA FormAnswers ==
    ASSUME NEW s, HasForm(s), NEW k \in 1..Len(s.part)
    PROVE  /\ s.part[k].type = "SyncResponse" => s.part[k].value # <<>>
           /\ s.part[k].type = "SyncResponse" =>
                 s.talker = "replica" /\ k > 1 /\ Answer(s, k - 1)
           /\ s.talker = "replica" /\ k > 1 /\ Answer(s, k - 1) => s.part[k].type = "SyncResponse"
           /\ s.talker = "replica" /\ s.part[k].type = "BulkString" => ~ Begins(s, k)
           /\ s.talker = "replica" /\ Answer(s, k) => \A j \in 1..k - 1 : ~ Answer(s, j)
           /\ s.talker \in {"server", "replica"}
  <1>1. s.talker \in {"server", "replica"}
    BY Zenon DEF HasForm
  <1>2. /\ s.part[k].type = "SyncResponse" => s.part[k].value # <<>>
        /\ s.part[k].type = "SyncResponse"
              <=> s.talker = "replica" /\ k > 1 /\ s.part[k - 1] = FullResync /\ Begins(s, k - 1)
        /\ s.talker = "replica" /\ s.part[k].type = "BulkString" => ~ Begins(s, k)
        /\ s.talker = "replica" /\ s.part[k] = FullResync /\ Begins(s, k) =>
              \A j \in 1..k - 1 : ~ (s.part[j] = FullResync /\ Begins(s, j))
    BY Zenon DEF HasForm
  <1>. QED  BY <1>1, <1>2, Zenon DEF Answer

LEMMA FormLeft ==
    ASSUME NEW s, HasForm(s), NEW k \in 1..Len(s.part), WellFormed(s, k)
    PROVE  s.part[k].left = Count(s.part[k]) + (IF Begins(s, k) THEN 0 ELSE s.part[k - 1].left - 1)
  BY Zenon DEF HasForm

LEMMA AnswerLast ==
    ASSUME NEW s, NEW k, Answer(s, k)
    PROVE  s.part[k].left = 0 /\ s.part[k].type = "SimpleString"
  BY DEF Answer, FullResync, Message

(* A master answers PSYNC once.                                            *)
LEMMA AnswerOnce ==
    ASSUME NEW s, HasForm(s), s.talker = "replica",
           NEW j \in 1..Len(s.part), NEW k \in 1..Len(s.part), Answer(s, j), Answer(s, k)
    PROVE  j = k
  <1>1. Len(s.part) \in Nat
    BY FormTypes
  <1>2. ~ (j < k)
    <2>1. j < k => j \in 1..k - 1
      BY <1>1
    <2>. QED  BY <2>1, FormAnswers
  <1>3. ~ (k < j)
    <2>1. k < j => k \in 1..j - 1
      BY <1>1
    <2>. QED  BY <2>1, FormAnswers
  <1>. QED  BY <1>1, <1>2, <1>3

(* A database file begins the message behind the last one, and is what the *)
(* talker expects.                                                         *)
LEMMA FileNext ==
    ASSUME NEW s, HasForm(s), NEW a \in 0..Len(s.part), NEW k \in a + 1..Len(s.part),
           \A j \in a + 1..k - 1 : s.part[j].left # 0,
           NEW st, NEW fail, Expecting(s, a, st, fail), st \in {"Any", "SyncResponse", "commands"},
           s.part[k].type = "SyncResponse"
    PROVE  k = a + 1 /\ st = "SyncResponse" /\ a > 0 /\ Answer(s, a)
  <1>1. k \in 1..Len(s.part) /\ a \in Nat /\ k \in Nat
    BY FormTypes
  <1>2. s.talker = "replica" /\ k > 1 /\ Answer(s, k - 1)
    BY <1>1, FormAnswers
  <1>3. s.part[k - 1].left = 0
    BY <1>2, AnswerLast
  <1>4. k - 1 \notin a + 1..k - 1
    BY <1>3
  <1>5. k = a + 1 /\ k - 1 = a
    BY <1>1, <1>4
  <1>6. a > 0 /\ Answer(s, a)
    BY <1>1, <1>2, <1>5
  <1>7. st # "Any"
    <2>1. a \in 1..a
      BY <1>1, <1>6
    <2>. QED  BY <1>2, <1>6, <2>1, Zenon DEF Expecting
  <1>8. st # "commands"
    BY <1>2, <1>6, Zenon DEF Expecting
  <1>. QED  BY <1>5, <1>6, <1>7, <1>8

(* A string that begins a message is the file that is expected.            *)
LEMMA StringNext ==
    ASSUME NEW s, HasForm(s), NEW a \in 0..Len(s.part), NEW k \in 1..Len(s.part), k = a + 1,
           Begins(s, k), NEW st, NEW fail, Expecting(s, a, st, fail), st = "SyncResponse",
           s.part[k].type \in {"BulkString", "SyncResponse"}
    PROVE  s.part[k].type = "SyncResponse"
  <1>1. s.talker = "replica"
    BY FormAnswers, Zenon DEF Expecting
  <1>. QED  BY <1>1, FormAnswers

(* As long as no file was refused, what is expected is next.               *)
LEMMA FileExpected ==
    ASSUME NEW s, HasForm(s), NEW a \in 0..Len(s.part), NEW k \in a + 1..Len(s.part),
           \A j \in a + 1..k - 1 : s.part[j].left # 0, WellFormed(s, a + 1),
           NEW st, Expecting(s, a, st, FALSE), st = "SyncResponse"
    PROVE  s.part[k].type = "SyncResponse"
  <1>1. a \in Nat /\ k \in Nat /\ a + 1 \in 1..Len(s.part) /\ (a + 1) - 1 = a
    BY FormTypes
  <1>2. s.talker = "replica" /\ a > 0 /\ Answer(s, a)
    <2>1. s.talker \in {"server", "replica"}
      BY <1>1, FormAnswers
    <2>. QED  BY <2>1, Zenon DEF Expecting
  <1>3. PICK b \in 1..Len(s.part) : b = a + 1
    BY <1>1
  <1>4. s.part[b].type = "SyncResponse"
    <2>1. b > 1 /\ b - 1 = a
      BY <1>1, <1>2, <1>3
    <2>. QED  BY <1>2, <2>1, FormAnswers
  <1>5. s.part[b].left = 0
    <2>1. s.part[a].left = 0
      BY <1>2, AnswerLast
    <2>2. Begins(s, b)
      BY <1>1, <1>3, <2>1, Zenon DEF Begins
    <2>3. s.part[b].left = Count(s.part[b]) + (IF Begins(s, b) THEN 0 ELSE s.part[b - 1].left - 1)
      BY <1>3, FormLeft, Zenon
    <2>4. Count(s.part[b]) = 0
      BY <1>4 DEF Count
    <2>. QED  BY <2>2, <2>3, <2>4
  <1>6. k = b
    <2>1. ~ (b \in a + 1..k - 1)
      BY <1>5
    <2>. QED  BY <1>1, <1>3, <2>1
  <1>. QED  BY <1>4, <1>6

-----------------------------------------------------------------------------
(* A string is cut, if all of it is there.                                 *)

(* What is known of a string that is due: part k it belongs to, its number *)
(* of units, and the delimiter behind it.                                  *)
LEMMA TextDue ==
    ASSUME NEW s, HasForm(s), NEW a \in 0..Len(s.part), a > 0 => s.part[a].left = 0,
           NEW cut \in Nat, cut <= Len(s.piece), s.first[a + 1] <= cut, Reached(s, cut),
           NEW n \in Due(s, cut), n >= 0, Pending(s, a, cut, cut, Due(s, cut)),
           NEW st \in {"Any", "SyncResponse", "commands"}, NEW fail \in BOOLEAN,
           Expecting(s, a, st, fail),
           NEW next, next = cut + 1, NEW delim, delim = DelimSize(st)
    PROVE  /\ next \in 1..Len(s.piece) /\ n \in 0..Len(s.units) /\ Due(s, next) = {}
           /\ s.piece[next].text \in Seq(Char) /\ Len(s.piece[next].text) = n
           /\ Reached(s, next) /\ Pending(s, a, next, cut, {})
           /\ delim \in {0, 2} /\ s.piece[next].delim \in {0, 2}
           /\ fail \/ delim = s.piece[next].delim
           /\ delim = 2 => s.piece[next].delim = 2
  <1>1. PICK k \in 1..Len(s.part) :
            /\ WellFormed(s, k) /\ s.first[k] + 1 = cut /\ LineOf(s, k).t = "$" /\ LineOf(s, k).n = n
            /\ Due(s, cut) = {n}
    BY TextNext
  <1>2. n \in Int
    <2>1. LineIn(s, LineOf(s, k), s.first[k] + 1)
      BY <1>1, LineAt
    <2>. QED  BY <1>1, <2>1 DEF LineIn
  <1>3. ~ Negative(LineOf(s, k))
    BY <1>1, <1>2 DEF Negative
  <1>4. s.first[k] \in Nat /\ Len(s.part) \in Nat /\ Len(s.piece) \in Nat
    BY FormTypes
  <1>5. s.first[k + 1] # s.first[k] + 1
    <2>1. PICK u : u = LineOf(s, k)
      OBVIOUS
    <2>2. s.first[k + 1] = s.first[k] + 1 => u.n < 0
      BY <1>1, <2>1, LineLength
    <2>. QED  BY <1>1, <1>2, <2>1, <2>2
  <1>6. TextIn(s, LineOf(s, k), s.part[k], s.first[k] + 2) /\ s.first[k + 1] = s.first[k] + 2
    BY <1>1, <1>5, TextAt
  <1>7. next = s.first[k] + 2 /\ s.first[k + 1] = cut + 1 /\ s.first[k] < cut
    BY <1>1, <1>4, <1>6
  <1>8. PICK m : m = s.part[k]
    OBVIOUS
  <1>9. TextIn(s, LineOf(s, k), m, next)
    BY <1>6, <1>7, <1>8, Zenon
  <1>10. /\ next \in 1..Len(s.piece) /\ n \in 0..Len(s.units) /\ Due(s, next) = {}
         /\ s.piece[next].text = m.value /\ m.value \in Seq(Char) /\ n = Len(m.value)
         /\ m.type \in {"BulkString", "SyncResponse"}
         /\ s.piece[next].delim = IF m.type = "SyncResponse" THEN 0 ELSE 2
    BY <1>1, <1>9, Zenon DEF TextIn
  <1>11. Reached(s, next) /\ Pending(s, a, next, cut, {})
    <2>1. \A i \in Due(s, cut) : ~ (i < -1)
      BY <1>1, <1>2
    <2>. QED  BY <1>1, <1>3, <1>7, <2>1, TextCut, Zenon
  <1>12. k \in a + 1..Len(s.part)
    <2>1. a + 1 \in 1..Len(s.part) + 1 /\ k + 1 \in 1..Len(s.part) + 1
      BY <1>4
    <2>2. s.first[a + 1] \in Nat
      BY <2>1, FormTypes
    <2>3. s.first[a + 1] < s.first[k + 1]
      BY <1>7, <2>2
    <2>4. a + 1 < k + 1
      BY <2>1, <2>3, FirstOrder
    <2>. QED  BY <1>4, <2>4
  <1>13. ASSUME NEW j \in a + 1..k - 1
         PROVE  s.part[j].left # 0
    <2>1. j \in a + 1..Len(s.part) /\ j + 1 \in 1..Len(s.part) + 1 /\ j + 1 <= k
          /\ k \in 1..Len(s.part) + 1
      BY <1>4, <1>12
    <2>2. s.first[j + 1] <= s.first[k]
      BY <2>1, FirstIncreases
    <2>3. s.first[j + 1] \in Nat
      BY <2>1, FormTypes, SMTT(30)
    <2>4. s.first[j + 1] <= cut /\ s.first[j + 1] # cut
      BY <1>1, <1>4, <2>2, <2>3, SMTT(30)
    <2>. QED  BY <2>1, <2>4 DEF Pending
  <1>14. delim = IF st = "SyncResponse" THEN 0 ELSE 2
    BY DelimLen, Zenon DEF DelimSize
  <1>15. m.type = "SyncResponse" => st = "SyncResponse"
    BY <1>8, <1>12, <1>13, FileNext
  <1>16. fail \/ (st = "SyncResponse" => m.type = "SyncResponse")
    <2>. SUFFICES ASSUME ~ fail, st = "SyncResponse"
                  PROVE  m.type = "SyncResponse"
      OBVIOUS
    <2>1. Expecting(s, a, st, FALSE)
      BY Zenon
    <2>2. WellFormed(s, a + 1)
      <3>1. a + 1 \in 1..Len(s.part) /\ a + 1 \in 1..Len(s.part) + 1 /\ k \in 1..Len(s.part) + 1
            /\ a + 1 <= k
        BY <1>4, <1>12
      <3>2. s.first[a + 1] <= s.first[k] /\ s.first[a + 1] \in Nat
        BY <3>1, FirstIncreases, FormTypes
      <3>3. s.first[a + 1] < cut
        BY <1>1, <1>4, <3>2
      <3>. QED  BY <3>1, <3>3 DEF Reached
    <2>. QED  BY <1>8, <1>12, <1>13, <2>1, <2>2, FileExpected
  <1>17. delim \in {0, 2} /\ s.piece[next].delim \in {0, 2}
    BY <1>10, <1>14
  <1>18. fail \/ delim = s.piece[next].delim
    BY <1>10, <1>14, <1>15, <1>16
  <1>19. delim = 2 => s.piece[next].delim = 2
    BY <1>10, <1>14, <1>15
  <1>. QED  BY <1>10, <1>11, <1>17, <1>18, <1>19

(* The length that is due is the only one.                                 *)
LEMMA StringIs ==
    ASSUME TypeOK, NEW n \in length
    PROVE  GetNextRawMessage(state) = NextString(n, state) /\ n \in Int
  <1>1. (CHOOSE m \in length : TRUE) \in length
    OBVIOUS
  <1>2. \A m, i \in length : m = i
    BY Zenon DEF TypeOK
  <1>3. (CHOOSE m \in length : TRUE) = n /\ length # {}
    BY <1>1, <1>2
  <1>4. n \in Int
    BY DEF TypeOK
  <1>. QED  BY <1>3, <1>4, Zenon DEF GetNextRawMessage

(* A negative length is one that no buffer has.                            *)
LEMMA TryParseNegative ==
    ASSUME TypeOK, Placed, TryParse, NEW n \in length, n < 0,
           Buffered(stream, arrived, buffer, Cut, 0)
    PROVE  Placed'
  <1>1. PICK s, a, base, cut : s = stream /\ a = Len(returned) /\ base = Base /\ cut = Cut
    OBVIOUS
  <1>2. /\ HasForm(s) /\ cut \in Nat /\ cut <= Len(s.piece) /\ Len(s.piece) \in Nat
        /\ Len(s.units) \in Nat /\ Len(s.part) \in Nat
    BY <1>1, Bearings
  <1>3. PICK l \in Nat : l = Len(buffer)
    BY DEF TypeOK
  <1>4. Reached(s, cut) /\ n \in Due(s, cut) /\ n \in Int
    BY <1>1, PlacedParts, StringIs
  <1>5. PICK k \in 1..Len(s.part) :
            WellFormed(s, k) /\ s.first[k] + 1 = cut /\ LineOf(s, k).t = "$" /\ LineOf(s, k).n = n
    BY <1>2, <1>4, TextNext
  <1>6. PICK u : u = LineOf(s, k)
    OBVIOUS
  <1>7. PICK units \in Nat : units = Len(s.units)
    BY <1>2
  <1>8. units + 1 - Sizes <= n
    <2>1. CASE s.first[k + 1] = s.first[k] + 1
      BY <1>2, <1>5, <1>6, <1>7, <2>1, LineLength
    <2>2. CASE s.first[k + 1] # s.first[k] + 1
      <3>1. TextIn(s, u, s.part[k], s.first[k] + 2)
        BY <1>2, <1>5, <1>6, <2>2, TextAt
      <3>2. u.n \in 0..Len(s.units)
        BY <3>1, Zenon DEF TextIn
      <3>. QED  BY <1>5, <1>6, <3>2
    <2>. QED  BY <2>1, <2>2
  <1>9. l <= units
    <2>1. PICK at \in Nat : at = s.at[cut + 1]
      <3>1. cut + 1 \in 1..Len(s.piece) + 1
        BY <1>2
      <3>. QED  BY <1>2, <3>1, FormTypes
    <2>2. arrived + 0 = at + l
      BY <1>1, <1>3, <2>1, Zenon DEF Buffered
    <2>3. arrived \in 0..units
      BY <1>1, <1>7 DEF TypeOK
    <2>. QED  BY <2>2, <2>3
  <1>10. n % Sizes = n + Sizes /\ n % Sizes > l
    <2>1. Sizes \in Nat \ {0}
      BY StreamIs
    <2>2. n \in -Sizes..-1
      BY <1>4, <1>8, <2>1
    <2>3. n % Sizes = n + Sizes
      BY <2>1, <2>2, ModNegative
    <2>4. n + Sizes > l
      BY <1>4, <1>8, <1>9, <2>1
    <2>. QED  BY <2>3, <2>4
  <1>11. PICK out \in {Nothing, Throws} : out = GetNextRawMessage(state)
    <2>1. NextString(n, state) \in {Nothing, Throws}
      <3>1. n % Sizes > Len(buffer)
        BY <1>3, <1>10, Zenon
      <3>. QED  BY <3>1, Zenon DEF NextString
    <2>. QED  BY <2>1, StringIs, Zenon
  <1>12. Starved(stream, arrived, Cut, length, failed)
    BY Zenon DEF Starved
  <1>. QED  BY <1>11, <1>12, TryParseStays

(* A string that arrived whole is cut where it lies.                       *)
LEMMA TryParseText ==
    ASSUME TypeOK, Placed, TryParse, NEW n \in length, n >= 0,
           Buffered(stream, arrived, buffer, Cut, 0)
    PROVE  Placed'
  <1>1. PICK s, a, base, cut : s = stream /\ a = Len(returned) /\ base = Base /\ cut = Cut
    OBVIOUS
  <1>2. /\ HasForm(s) /\ cut \in Nat /\ cut <= Len(s.piece) /\ Len(s.piece) \in Nat
        /\ a \in 0..Len(s.part) /\ Len(s.units) \in Nat /\ base = s.first[a + 1] /\ base <= cut
    BY <1>1, Bearings, SMTT(30)
  <1>3. /\ buffer \in Seq(Char) /\ doing = "cutting" /\ failed \in BOOLEAN
        /\ state \in {"Any", "SyncResponse", "commands"}
    BY DEF TypeOK, TryParse
  <1>4. PICK l \in Nat : l = Len(buffer)
    BY <1>3
  <1>5. PICK at \in Nat : at = s.at[cut + 1]
    <2>1. cut + 1 \in 1..Len(s.piece) + 1
      BY <1>2
    <2>. QED  BY <1>2, <2>1, FormTypes
  <1>6. arrived = at + l
    <2>1. arrived + 0 = at + l
      BY <1>1, <1>4, <1>5, Zenon DEF Buffered
    <2>2. arrived \in Nat
      BY DEF TypeOK
    <2>. QED  BY <2>1, <2>2
  <1>7. ASSUME NEW i \in 1..l
        PROVE  buffer[i] = s.units[at + i]
    <2>1. buffer[i] = s.units[at - 0 + i] /\ at - 0 = at
      <3>1. buffer[i] = s.units[s.at[cut + 1] - 0 + i]
        BY <1>1, <1>4, Zenon DEF Buffered
      <3>. QED  BY <1>5, <3>1
    <2>. QED  BY <2>1, Zenon
  <1>8. PICK next, delim : next = cut + 1 /\ delim = DelimSize(state)
    OBVIOUS
  <1>9. /\ next \in 1..Len(s.piece) /\ n \in 0..Len(s.units) /\ Due(s, next) = {}
        /\ s.piece[next].text \in Seq(Char) /\ Len(s.piece[next].text) = n
        /\ Reached(s, next) /\ Pending(s, a, next, cut, {})
        /\ delim \in {0, 2} /\ s.piece[next].delim \in {0, 2}
        /\ failed \/ delim = s.piece[next].delim
        /\ delim = 2 => s.piece[next].delim = 2
    <2>1. /\ Reached(s, cut) /\ Pending(s, a, cut, cut, Due(s, cut)) /\ n \in Due(s, cut)
          /\ Expecting(s, a, state, failed)
      <3>1. /\ Reached(s, cut) /\ Expecting(s, a, state, failed) /\ length = Due(s, cut)
            /\ Pending(s, a, cut, IF doing = "parsing" THEN cut - 1 ELSE cut, length)
        BY <1>1, PlacedParts
      <3>. QED  BY <1>3, <3>1
    <2>2. a > 0 => s.part[a].left = 0
      BY <1>1, PlacedParts DEF InOrder
    <2>3. s.first[a + 1] <= cut
      BY <1>2
    <2>. QED  BY <1>2, <1>3, <1>8, <2>1, <2>2, <2>3, TextDue, SMTT(30)
  <1>10. PICK text \in Seq(Char), d \in {0, 2} : text = s.piece[next].text /\ d = s.piece[next].delim
    BY <1>9
  <1>11. s.at[next + 1] = at + n + d
    <2>0. HasForm(s) /\ next \in 1..Len(s.piece)
      BY <1>2, <1>9
    <2>1. s.at[next + 1] = s.at[next] + Len(s.piece[next].text) + s.piece[next].delim
      BY <2>0, PieceForm, Zenon
    <2>2. s.at[next] = at /\ Len(s.piece[next].text) = n
      BY <1>5, <1>8, <1>9, Zenon
    <2>. QED  BY <1>10, <2>1, <2>2, Zenon
  <1>12. \A j \in 1..n : s.units[at + j] = text[j]
    <2>0. HasForm(s) /\ next \in 1..Len(s.piece)
      BY <1>2, <1>9
    <2>1. \A j \in 1..Len(s.piece[next].text) : s.units[s.at[next] + j] = s.piece[next].text[j]
      BY <2>0, Zenon DEF HasForm
    <2>. QED  BY <1>5, <1>8, <1>9, <1>10, <2>1, Zenon
  <1>13. n % Sizes = n /\ (n + delim) % Sizes = n + delim
    <2>1. Sizes \in Nat /\ Len(s.units) + 2 < Sizes
      BY <1>2, Bounded, Zenon
    <2>2. n \in 0..Sizes - 1 /\ n + delim \in 0..Sizes - 1
      BY <1>2, <1>9, <2>1
    <2>. QED  BY <2>1, <2>2, ModSmall
  <1>14. n \in Nat /\ delim \in Nat
    BY <1>2, <1>9
  <1>15. CASE l < n + delim
    <2>1. GetNextRawMessage(state) = Nothing
      <3>1. Len(buffer) < (n + delim) % Sizes
        BY <1>4, <1>13, <1>15, Zenon
      <3>2. NextString(n, state) = Nothing
        BY <1>8, <1>13, <3>1, Zenon DEF NextString
      <3>. QED  BY <3>2, StringIs, Zenon
    <2>2. failed \/ arrived < s.at[cut + 2]
      <3>1. cut + 2 = next + 1
        BY <1>2, <1>8
      <3>2. delim = d => arrived < at + n + d
        BY <1>6, <1>14, <1>15
      <3>. QED  BY <1>9, <1>10, <1>11, <3>1, <3>2
    <2>3. Starved(stream, arrived, Cut, length, failed)
      BY <1>1, <2>2, Zenon DEF Starved
    <2>4. PICK out \in {Nothing, Throws} : out = GetNextRawMessage(state)
      BY <2>1
    <2>. QED  BY <2>3, <2>4, TryParseStays
  <1>16. CASE l >= n + delim
    <2>1. n <= l
      BY <1>14, <1>16
    <2>2. SubSeq(buffer, 1, n) = text
      <3>1. Len(text) = n
        BY <1>9, <1>10, Zenon
      <3>2. \A i \in 1..n : buffer[i] = text[i]
        <4>1. \A i \in 1..n : i \in 1..l
          BY <1>14, <2>1
        <4>. QED  BY <1>7, <1>12, <4>1, Zenon
      <3>3. Len(text) <= Len(buffer) /\ \A i \in 1..Len(text) : buffer[i] = text[i]
        BY <1>4, <2>1, <3>1, <3>2, Zenon
      <3>4. SubSeq(buffer, 1, Len(text)) = text
        BY <1>3, <3>3, FirstOf
      <3>. QED  BY <3>1, <3>4, Zenon
    <2>3. PICK rest : rest = From(n + delim + 1)
      OBVIOUS
    <2>4. PICK out : out = GetNextRawMessage(state)
      OBVIOUS
    <2>5. out = Taken("raw", <<text>>, rest, {})
      <3>1. ~ (Len(buffer) < (n + delim) % Sizes)
        BY <1>4, <1>13, <1>14, <1>16
      <3>2. ~ (n % Sizes > Len(buffer))
        BY <1>4, <1>13, <1>14, <2>1
      <3>3. NextString(n, state) =
                Taken("raw", <<SubSeq(buffer, 1, n)>>, From(n + delim + 1), {})
        BY <1>8, <1>13, <3>1, <3>2, Zenon DEF NextString
      <3>. QED  BY <2>2, <2>3, <2>4, <3>3, StringIs, Zenon
    <2>6. PICK skew \in {0, 2} : skew = d - delim
      BY <1>9, <1>10
    <2>7. Skewed(s, {}, next, failed, skew)
      <3>1. skew = 2 => failed /\ next > 0 /\ s.piece[next].delim = 2
        BY <1>2, <1>8, <1>9, <1>10, <2>6
      <3>. QED  BY <3>1 DEF Skewed
    <2>8. PICK m : m = n + delim
      OBVIOUS
    <2>9. m \in 0..Len(buffer) /\ m \in Nat
      BY <1>4, <1>14, <1>16, <2>8
    <2>10. Len(rest) = l - m /\ \A i \in 1..l - m : rest[i] = buffer[m + i]
      BY <1>3, <1>4, <2>3, <2>8, <2>9, RestOf, Zenon
    <2>11. Buffered(s, arrived, rest, next, skew)
      <3>1. PICK to : to = s.at[next + 1]
        OBVIOUS
      <3>2. to = at + n + d /\ to - skew = at + m
        BY <1>11, <1>14, <2>6, <2>8, <3>1
      <3>3. arrived + skew = to + (l - m)
        BY <1>6, <1>14, <2>6, <2>8, <3>2
      <3>4. ASSUME NEW i \in 1..l - m
            PROVE  rest[i] = s.units[to - skew + i]
        <4>1. m + i \in 1..l /\ at + (m + i) = at + m + i
          BY <1>4, <2>9
        <4>2. rest[i] = s.units[at + (m + i)]
          BY <1>7, <2>10, <4>1, Zenon
        <4>. QED  BY <3>2, <4>1, <4>2, Zenon
      <3>. QED  BY <2>10, <3>1, <3>3, <3>4, Zenon DEF Buffered
    <2>12. PICK due : due = {}
      OBVIOUS
    <2>13. due = Due(s, next) /\ Skewed(s, due, next, failed, skew) /\ Pending(s, a, next, cut, due)
           /\ out = Taken("raw", <<text>>, rest, due) /\ text = s.piece[next].text
      BY <1>9, <1>10, <2>5, <2>7, <2>12, Zenon
    <2>14. /\ s = stream /\ a = Len(returned) /\ cut \in Nat /\ cut = Cut
           /\ next \in 1..Len(s.piece) /\ next = cut + 1 /\ Reached(s, next)
      BY <1>1, <1>2, <1>8, <1>9
    <2>15. Placed'
      BY <2>4, <2>6, <2>11, <2>13, <2>14, TryParseTakes
    <2>. QED  BY <2>15
  <1>. QED  BY <1>4, <1>14, <1>15, <1>16

(* TryParse.                                                               *)
LEMMA TryParseKeeps ==
    ASSUME TypeOK, Placed, TryParse
    PROVE  Placed' \/ Lost(stream, Len(returned))
  <1>1. PICK skew \in {0, 2} : Buffered(stream, arrived, buffer, Cut, skew)
                                 /\ Skewed(stream, length, Cut, failed, skew)
    BY DEF Placed
  <1>2. CASE skew = 2
    BY <1>1, <1>2, TryParseSkewed
  <1>3. CASE skew = 0 /\ length = {}
    BY <1>1, <1>3, TryParseLine
  <1>4. CASE skew = 0 /\ length # {}
    <2>1. PICK n \in length : TRUE
      BY <1>4
    <2>2. n \in Int
      BY <2>1, StringIs
    <2>3. CASE n < 0
      BY <1>1, <1>4, <2>1, <2>3, TryParseNegative
    <2>4. CASE n >= 0
      BY <1>1, <1>4, <2>1, <2>4, TryParseText
    <2>. QED  BY <2>2, <2>3, <2>4
  <1>. QED  BY <1>2, <1>3, <1>4

-----------------------------------------------------------------------------
(* Parsing what was cut.                                                   *)

(* Where what parse has ends.                                              *)
LEMMA BehindParsed ==
    ASSUME TypeOK, Placed, NEW s, s = stream, NEW a, a = Len(returned), NEW base, base = Base
    PROVE  /\ a + Len(parsed) \in a..Len(s.part)
           /\ s.first[a + Len(parsed) + 1] = base + read
  <1>. PICK b, cut : b = a + Len(parsed) /\ cut = Cut
    OBVIOUS
  <1>. QED  BY Bearings, SMTT(30)

(* What is ahead of parse is the line of the part behind those it has.     *)
LEMMA AheadIs ==
    ASSUME TypeOK, Placed, Reads, NEW s, s = stream, NEW a, a = Len(returned),
           NEW base, base = Base, NEW cut, cut = Cut, NEW k, k = a + Len(parsed) + 1
    PROVE  /\ k \in a + 1..Len(s.part) /\ k \in 1..Len(s.part) /\ WellFormed(s, k)
           /\ Ahead = LineOf(s, k) /\ s.first[k] = base + read /\ s.first[k] < cut
           /\ Begins(s, k) <=> parsed = <<>>
           /\ Left = IF Begins(s, k) THEN 1 ELSE s.part[k - 1].left
           /\ \A j \in a + 1..k - 1 : s.part[j].left # 0
  <1>1. PICK p \in Nat, l \in Nat : p = Len(parsed) /\ l = Len(raw)
    BY Bearings
  <1>2. PICK b : b = a + p
    OBVIOUS
  <1>3. /\ HasForm(s) /\ a \in 0..Len(s.part) /\ b \in a..Len(s.part) /\ Len(s.part) \in Nat
        /\ Len(s.piece) \in Nat /\ base \in 0..Len(s.piece) /\ cut \in base..Len(s.piece)
        /\ cut = base + l /\ s.first[b + 1] = base + read /\ read \in 0..l
        /\ base = s.first[a + 1]
    <2>1. b = a + Len(parsed)
      BY <1>1, <1>2, Zenon
    <2>2. /\ HasForm(s) /\ a \in 0..Len(s.part) /\ Len(s.part) \in Nat
          /\ Len(s.piece) \in Nat /\ base \in 0..Len(s.piece) /\ cut \in base..Len(s.piece)
          /\ cut = base + Len(raw) /\ read \in 0..Len(raw) /\ base = s.first[a + 1]
      BY Bearings
    <2>3. b \in a..Len(s.part) /\ s.first[b + 1] = base + read
      BY <2>1, BehindParsed, Zenon
    <2>. QED  BY <1>1, <2>2, <2>3, Zenon
  <1>4. InOrder(s, returned, parsed, read) /\ Held(s, base, raw) /\ Reached(s, cut)
    BY PlacedParts
  <1>5. Left # 0 /\ read < l
    BY <1>1 DEF Reads
  <1>6. k = b + 1
    BY <1>1, <1>2
  <1>7. s.first[k] = base + read /\ s.first[k] < cut /\ s.first[k] < Len(s.piece)
    BY <1>3, <1>5, <1>6, SMTT(30)
  <1>8. k \in a + 1..Len(s.part) /\ k \in 1..Len(s.part)
    <2>1. k # Len(s.part) + 1
      BY <1>3, <1>7, FormTypes, SMTT(30)
    <2>2. a \in Nat /\ b \in Nat /\ a <= b /\ b <= Len(s.part) /\ Len(s.part) \in Nat
      BY <1>3
    <2>. QED  BY <1>6, <2>1, <2>2
  <1>9. WellFormed(s, k)
    BY <1>4, <1>7, <1>8 DEF Reached
  <1>10. PICK u : u = LineOf(s, k)
    OBVIOUS
  <1>11. Ahead = u
    <2>1. PICK next : next = read + 1
      OBVIOUS
    <2>2. next \in 1..l /\ base + next = s.first[k] + 1
      <3>1. read \in Nat /\ base \in Nat /\ l \in Nat /\ read < l
        BY <1>3, <1>5
      <3>2. next \in 1..l /\ base + next = (base + read) + 1
        BY <2>1, <3>1
      <3>. QED  BY <1>7, <3>2, Zenon
    <2>3. raw[next] = s.piece[base + next].text
      BY <1>1, <1>4, <2>2, Zenon DEF Held
    <2>4. s.piece[s.first[k] + 1].text = <<u>>
      BY <1>3, <1>8, <1>9, <1>10, LineAt, Zenon DEF LineIn
    <2>5. raw[next] = <<u>>
      BY <2>2, <2>3, <2>4, Zenon
    <2>6. raw[next] # <<>> /\ raw[next][1] = u
      BY <2>5
    <2>. QED  BY <2>1, <2>6, Zenon DEF Ahead
  <1>12. CASE parsed = <<>>
    <2>1. p = 0 /\ b = a
      BY <1>1, <1>2, <1>3, <1>12
    <2>2. Begins(s, k)
      <3>1. a > 0 => s.part[a].left = 0
        BY <1>4 DEF InOrder
      <3>2. k = 1 \/ (a > 0 /\ k - 1 = a)
        BY <1>3, <1>6, <2>1
      <3>. QED  BY <3>1, <3>2 DEF Begins
    <2>3. Left = 1
      BY <1>12 DEF Left
    <2>4. \A j \in a + 1..k - 1 : s.part[j].left # 0
      BY <1>3, <1>6, <2>1
    <2>. QED  BY <1>7, <1>8, <1>9, <1>10, <1>11, <1>12, <2>2, <2>3, <2>4, Zenon
  <1>13. CASE parsed # <<>>
    <2>1. p \in 1..p /\ p > 0
      <3>1. parsed \in Seq(Part)
        BY DEF TypeOK
      <3>. QED  BY <1>1, <1>13, <3>1
    <2>2. parsed[p] = s.part[a + p]
      BY <1>1, <1>4, <2>1 DEF InOrder
    <2>3. Left = s.part[b].left
      BY <1>1, <1>2, <1>13, <2>2 DEF Left
    <2>4. b = k - 1 /\ k # 1 /\ b > a
      BY <1>2, <1>3, <1>6, <2>1, SMTT(30)
    <2>5. ~ Begins(s, k)
      BY <1>5, <2>3, <2>4, Zenon DEF Begins
    <2>6. \A j \in a + 1..b - 1 : s.part[j].left # 0
      BY <1>1, <1>2, <1>4 DEF InOrder
    <2>7. ASSUME NEW j \in a + 1..k - 1
          PROVE  s.part[j].left # 0
      <3>1. j \in a + 1..b - 1 \/ j = b
        BY <1>3, <2>4
      <3>. QED  BY <1>5, <2>3, <2>6, <3>1
    <2>. QED  BY <1>7, <1>8, <1>9, <1>10, <1>11, <1>13, <2>3, <2>4, <2>5, <2>7, Zenon
  <1>. QED  BY <1>12, <1>13

(* Part k is the one that parse reads next.                                *)
Facing(s, a, base, cut, k) ==
    /\ k \in a + 1..Len(s.part) /\ k = a + Len(parsed) + 1 /\ k \in 1..Len(s.part)
    /\ WellFormed(s, k) /\ Ahead = LineOf(s, k)
    /\ s.first[k] = base + read /\ s.first[k] < cut
    /\ Begins(s, k) <=> parsed = <<>>
    /\ Left = IF Begins(s, k) THEN 1 ELSE s.part[k - 1].left
    /\ \A j \in a + 1..k - 1 : s.part[j].left # 0

LEMMA PartAhead ==
    ASSUME TypeOK, Placed, Reads, NEW s, s = stream, NEW a, a = Len(returned),
           NEW base, base = Base, NEW cut, cut = Cut
    PROVE  \E k : Facing(s, a, base, cut, k)
  <1>1. PICK k : k = a + Len(parsed) + 1
    OBVIOUS
  <1>2. /\ k \in a + 1..Len(s.part) /\ k \in 1..Len(s.part) /\ WellFormed(s, k)
        /\ Ahead = LineOf(s, k) /\ s.first[k] = base + read /\ s.first[k] < cut
        /\ Begins(s, k) <=> parsed = <<>>
        /\ Left = IF Begins(s, k) THEN 1 ELSE s.part[k - 1].left
        /\ \A j \in a + 1..k - 1 : s.part[j].left # 0
    BY <1>1, AheadIs
  <1>. QED  BY <1>1, <1>2, Zenon DEF Facing

(* A part that is written as this program does has the size of its pieces. *)
LEMMA SizeOfPart ==
    ASSUME NEW s, HasForm(s), NEW k \in 1..Len(s.part), Pieces(s, k) = to_string(s.part[k])
    PROVE  s.at[s.first[k + 1] + 1] = s.at[s.first[k] + 1] + Size(s.part[k])
  <1>. DEFINE width(p) == Len(p.text) + p.delim
  <1>1. PICK z : z = to_string(s.part[k])
    OBVIOUS
  <1>2. PICK a, b : a = s.first[k] /\ b = s.first[k + 1]
    OBVIOUS
  <1>3. a \in 0..Len(s.piece) /\ b \in 0..Len(s.piece) /\ s.piece \in Seq(Piece) /\ Len(s.piece) \in Nat
    BY <1>2, FormTypes
  <1>4. z = SubSeq(s.piece, a + 1, b)
    BY <1>1, <1>2, Zenon DEF Pieces
  <1>5. (\E x : z = <<x>>) \/ (\E x, y : z = <<x, y>>)
    BY <1>1, Zenon DEF to_string
  <1>6. CASE \E x : z = <<x>>
    <2>1. PICK x : z = <<x>>
      BY <1>6
    <2>2. b = a + 1 /\ s.piece[a + 1] = x
      BY <1>3, <1>4, <2>1, OnePiece
    <2>3. Len(z) = 1 /\ z[1] = x
      BY <2>1
    <2>4. Size(s.part[k]) = width(x)
      BY <1>1, <2>3, Zenon DEF Size
    <2>5. a + 1 \in 1..Len(s.piece)
      BY <1>3, <2>2
    <2>6. /\ s.at[(a + 1) + 1] = s.at[a + 1] + Len(s.piece[a + 1].text) + s.piece[a + 1].delim
          /\ s.at[a + 1] \in 0..Len(s.units) /\ Len(s.piece[a + 1].text) \in Nat
          /\ s.piece[a + 1].delim \in {0, 2}
      BY <2>5, PieceForm, Zenon
    <2>7. PICK at \in 0..Len(s.units), l \in Nat, d \in {0, 2} :
             at = s.at[a + 1] /\ l = Len(x.text) /\ d = x.delim /\ s.at[b + 1] = at + l + d
      BY <2>2, <2>6, Zenon
    <2>8. at + l + d = at + (l + d)
      BY <2>7, FormTypes
    <2>9. s.at[b + 1] = s.at[a + 1] + Size(s.part[k])
      BY <2>4, <2>7, <2>8, Zenon
    <2>. QED  BY <1>2, <2>9, Zenon
  <1>7. CASE \E x, y : z = <<x, y>>
    <2>1. PICK x, y : z = <<x, y>>
      BY <1>7
    <2>2. Len(z) = 2 /\ z[1] = x /\ z[2] = y
      BY <2>1
    <2>3. b = a + 2 /\ s.piece[a + 1] = x /\ s.piece[a + 2] = y
      BY <1>3, <1>4, <2>2, TwoPieces
    <2>4. Size(s.part[k]) = width(x) + width(y)
      <3>1. Len(to_string(s.part[k])) # 1
        BY <1>1, <2>2
      <3>. QED  BY <1>1, <2>2, <3>1, Zenon DEF Size
    <2>5. a + 1 \in 1..Len(s.piece) /\ a + 2 \in 1..Len(s.piece) /\ (a + 1) + 1 = a + 2
          /\ (a + 2) + 1 = b + 1
      BY <1>3, <2>3
    <2>6. /\ s.at[(a + 1) + 1] = s.at[a + 1] + Len(s.piece[a + 1].text) + s.piece[a + 1].delim
          /\ s.at[a + 1] \in 0..Len(s.units) /\ Len(s.piece[a + 1].text) \in Nat
          /\ s.piece[a + 1].delim \in {0, 2}
      BY <2>5, PieceForm, Zenon
    <2>7. /\ s.at[(a + 2) + 1] = s.at[a + 2] + Len(s.piece[a + 2].text) + s.piece[a + 2].delim
          /\ Len(s.piece[a + 2].text) \in Nat /\ s.piece[a + 2].delim \in {0, 2}
      BY <2>5, PieceForm, Zenon
    <2>8. PICK at \in 0..Len(s.units), l \in Nat, d \in {0, 2}, m \in Nat, e \in {0, 2} :
             /\ at = s.at[a + 1] /\ l = Len(x.text) /\ d = x.delim /\ s.at[a + 2] = at + l + d
             /\ m = Len(y.text) /\ e = y.delim /\ s.at[b + 1] = at + l + d + m + e
      BY <2>3, <2>5, <2>6, <2>7, ZenonT(30)
    <2>9. at + l + d + m + e = at + ((l + d) + (m + e))
      <3>1. Len(s.units) \in Nat
        BY FormTypes
      <3>2. at \in Nat
        BY <3>1
      <3>. QED  BY <3>2
    <2>10. s.at[b + 1] = s.at[a + 1] + Size(s.part[k])
      BY <2>4, <2>8, <2>9, Zenon
    <2>. QED  BY <1>2, <2>10, Zenon
  <1>. QED  BY <1>5, <1>6, <1>7

(* Parse takes part k, which is written as n pieces.                       *)
Takes(s, a, k, type, value, count, n, left) ==
    /\ s = stream /\ a = Len(returned) /\ k = a + Len(parsed) + 1
    /\ n \in {1, 2} /\ left \in Nat /\ left = Left - 1 + count
    /\ parsed' = Append(parsed, Message(type, value, left))
    /\ Take(type, value, count, n) /\ Message(type, value, left) \in Part
    /\ s.part[k].type = type /\ s.part[k].value = value /\ Count(s.part[k]) = count
    /\ s.first[k + 1] = s.first[k] + n

(* One more part is taken, as it was written.                              *)
LEMMA TakeKeeps ==
    ASSUME TypeOK, Placed, Reads, NEW s, NEW a, NEW k, NEW type, NEW value, NEW count, NEW n, NEW left,
           Takes(s, a, k, type, value, count, n, left)
    PROVE  Placed' /\ (Counting => Counting')
  <1>. SUFFICES ASSUME s = stream, a = Len(returned), k = a + Len(parsed) + 1,
                       n \in {1, 2}, left \in Nat, left = Left - 1 + count,
                       parsed' = Append(parsed, Message(type, value, left)),
                       Take(type, value, count, n), Message(type, value, left) \in Part,
                       s.part[k].type = type, s.part[k].value = value, Count(s.part[k]) = count,
                       s.first[k + 1] = s.first[k] + n
                PROVE  Placed' /\ (Counting => Counting')
    BY Zenon DEF Takes
  <1>1. PICK base, cut : base = Base /\ cut = Cut
    OBVIOUS
  <1>2. /\ k \in a + 1..Len(s.part) /\ k \in 1..Len(s.part) /\ WellFormed(s, k)
        /\ s.first[k] = base + read
        /\ Left = IF Begins(s, k) THEN 1 ELSE s.part[k - 1].left
        /\ \A j \in a + 1..k - 1 : s.part[j].left # 0
    <2>1. \E j : Facing(s, a, base, cut, j)
      BY <1>1, PartAhead
    <2>. QED  BY <2>1 DEF Facing
  <1>3. /\ HasForm(s) /\ base = s.first[a + 1] /\ cut = base + Len(raw) /\ base \in Nat
        /\ a \in Nat /\ Len(s.part) \in Nat /\ read \in Nat
    <2>1. /\ HasForm(s) /\ base = s.first[a + 1] /\ cut = base + Len(raw)
          /\ base \in 0..Len(s.piece) /\ a \in 0..Len(s.part) /\ Len(s.part) \in Nat
          /\ Len(s.piece) \in Nat /\ Len(raw) \in Nat /\ read \in 0..Len(raw)
      <3>1. PICK b : b = a + Len(parsed)
        OBVIOUS
      <3>. QED  BY <1>1, <3>1, Bearings, ZenonT(40)
    <2>. QED  BY <2>1
  <1>4. PICK part : part = s.part[k]
    OBVIOUS
  <1>5. part \in Part /\ count \in Nat
    <2>1. part \in Part
      BY <1>2, <1>3, <1>4, FormTypes
    <2>2. Count(part) \in Nat
      BY <2>1 DEF Count, Part
    <2>. QED  BY <1>4, <2>1, <2>2
  <1>6. part.left = left
    <2>1. part.left = count + (IF Begins(s, k) THEN 0 ELSE s.part[k - 1].left - 1)
      BY <1>2, <1>3, <1>4, FormLeft, Zenon
    <2>2. CASE Begins(s, k)
      <3>1. Left = 1 /\ part.left = count + 0
        BY <1>2, <2>1, <2>2, Zenon
      <3>2. left = 1 - 1 + count
        BY <3>1, Zenon
      <3>. QED  BY <1>5, <3>1, <3>2
    <2>3. CASE ~ Begins(s, k)
      <3>1. PICK l : l = Left
        OBVIOUS
      <3>2. l = s.part[k - 1].left
        BY <1>2, <2>3, <3>1, Zenon
      <3>3. part.left = count + (l - 1) /\ left = l - 1 + count
        BY <2>1, <2>3, <3>1, <3>2, Zenon
      <3>4. l \in Int
        <4>1. k - 1 \in 1..Len(s.part)
          <5>1. k # 1 /\ k \in 1..Len(s.part) /\ Len(s.part) \in Nat
            BY <1>2, <1>3, <2>3, Zenon DEF Begins
          <5>. QED  BY <5>1
        <4>2. s.part[k - 1] \in Part
          BY <1>3, <4>1, FormTypes
        <4>. QED  BY <3>2, <4>2 DEF Part
      <3>. QED  BY <1>5, <3>3, <3>4
    <2>. QED  BY <2>2, <2>3
  <1>7. part = Message(type, value, left)
    BY <1>4, <1>5, <1>6 DEF Message, Part
  <1>8. /\ parsed' = Append(parsed, part) /\ read' = read + n /\ size' = size + Size(part)
        /\ UNCHANGED <<stream, arrived, buffer, raw, length, doing, control>>
    BY <1>7, Zenon DEF Take
  <1>9. PICK p \in Nat : p = Len(parsed)
    BY Bearings
  <1>10. /\ Len(parsed') = p + 1 /\ parsed'[p + 1] = part
         /\ \A i \in 1..p : parsed'[i] = parsed[i]
    BY <1>5, <1>8, <1>9 DEF TypeOK
  <1>11. /\ InOrder(s, returned, parsed, read) /\ k = a + (p + 1) /\ k = a + p + 1
    <2>1. k = a + p + 1
      BY <1>9
    <2>. QED  BY <1>1, <1>3, <1>9, <2>1, PlacedParts, SMTT(30)
  <1>12. read' = s.first[k + 1] - s.first[a + 1]
    <2>1. s.first[k + 1] = (base + read) + n /\ s.first[a + 1] = base
      BY <1>2, <1>3, Zenon
    <2>2. read + n = ((base + read) + n) - base
      <3>1. base \in Nat /\ read \in Nat /\ n \in Nat
        BY <1>3
      <3>. QED  BY <3>1
    <2>. QED  BY <1>8, <2>1, <2>2, Zenon
  <1>13. InOrder(s, returned', parsed', read')
    <2>1. /\ \A i \in 1..a : returned[i] = s.part[i]
          /\ a > 0 => s.part[a].left = 0
          /\ \A i \in 1..p : parsed[i] = s.part[a + i]
      BY <1>9, <1>11, Zenon DEF InOrder
    <2>2. ASSUME NEW i \in 1..p + 1
          PROVE  parsed'[i] = s.part[a + i]
      <3>1. i \in 1..p \/ i = p + 1
        BY <1>9
      <3>2. CASE i \in 1..p
        BY <1>10, <2>1, <3>2, Zenon
      <3>3. CASE i = p + 1
        BY <1>4, <1>10, <1>11, <3>3, Zenon
      <3>. QED  BY <3>1, <3>2, <3>3
    <2>3. k <= Len(s.part)
      BY <1>2
    <2>4. returned' = returned
      BY <1>8 DEF control
    <2>5. PICK ret, par, rd : ret = returned' /\ par = parsed' /\ rd = read'
      OBVIOUS
    <2>6. /\ Len(ret) = a /\ Len(par) = p + 1 /\ Len(ret) + Len(par) = k
          /\ \A i \in 1..a : ret[i] = s.part[i]
          /\ \A i \in 1..p + 1 : par[i] = s.part[a + i]
          /\ rd = s.first[k + 1] - s.first[a + 1]
      BY <1>10, <1>11, <1>12, <2>1, <2>2, <2>4, <2>5, Zenon
    <2>7. InOrder(s, ret, par, rd)
      BY <1>2, <2>1, <2>3, <2>6, Zenon DEF InOrder
    <2>. QED  BY <2>5, <2>7, Zenon
  <1>14. PICK skew \in {0, 2} : Buffered(s, arrived, buffer, cut, skew)
                                 /\ Skewed(s, length, cut, failed, skew)
    BY <1>1, PlacedParts
  <1>15. /\ Held(s, base, raw') /\ Reached(s, cut)
         /\ Pending(s, a, cut, IF doing' = "parsing" THEN cut - 1 ELSE cut, length')
         /\ length' = Due(s, cut) /\ Skewed(s, length', cut, failed', skew)
         /\ Buffered(s, arrived', buffer', cut, skew)
         /\ Expecting(s, a, state', failed')
         /\ doing' = "idle" => Starved(s, arrived', cut, length', failed')
    BY <1>1, <1>8, <1>14, PlacedParts, Zenon DEF control
  <1>16. stream' = s /\ a = Len(returned') /\ cut = base + Len(raw')
    BY <1>3, <1>8 DEF control
  <1>17. Placed'
    BY <1>3, <1>13, <1>14, <1>15, <1>16, PlacedAgain
  <1>18. ASSUME Counting
         PROVE  Counting'
    <2>1. Base' = base /\ failed' = failed /\ counted' = counted /\ stream' = s
      BY <1>1, <1>8 DEF control, Base
    <2>2. SUFFICES ASSUME Exact(s), ~ failed
                   PROVE  counted = s.at[base + 1] /\ size' = s.at[base + read' + 1] - s.at[base + 1]
      BY <2>1, Zenon DEF Counting
    <2>3. counted = s.at[base + 1] /\ size = s.at[base + read + 1] - s.at[base + 1]
      BY <1>1, <1>18, <2>2, Zenon DEF Counting
    <2>4. s.at[s.first[k + 1] + 1] = s.at[s.first[k] + 1] + Size(part)
      BY <1>2, <1>3, <1>4, <2>2, SizeOfPart, Zenon DEF Exact
    <2>5. s.at[base + read' + 1] = s.at[base + read + 1] + Size(part)
      <3>1. s.first[k + 1] + 1 = base + read' + 1 /\ s.first[k] + 1 = base + read + 1
        <4>1. s.first[k + 1] = (base + read) + n
          BY <1>2, Zenon
        <4>2. (base + read) + n = base + (read + n)
          <5>1. base \in Nat /\ read \in Nat /\ n \in Nat
            BY <1>3
          <5>. QED  BY <5>1
        <4>. QED  BY <1>2, <1>8, <4>1, <4>2, Zenon
      <3>. QED  BY <2>4, <3>1, Zenon
    <2>6. PICK x \in Int, y \in Int, z \in Nat : x = s.at[base + read + 1] /\ y = s.at[base + 1] /\ z = Size(part)
      <3>1. base + read + 1 \in 1..Len(s.piece) + 1 /\ base + 1 \in 1..Len(s.piece) + 1
        <4>1. base + read <= Len(s.piece) /\ Len(s.piece) \in Nat
          <5>1. s.first[k] \in 0..Len(s.piece) /\ Len(s.piece) \in Nat
            <6>1. k \in 1..Len(s.part) + 1
              BY <1>2, <1>3, SMTT(30)
            <6>. QED  BY <1>3, <6>1, FormTypes
          <5>. QED  BY <1>2, <5>1
        <4>2. base \in Nat /\ read \in Nat
          BY <1>3
        <4>. QED  BY <4>1, <4>2
      <3>2. s.at[base + read + 1] \in 0..Len(s.units) /\ s.at[base + 1] \in 0..Len(s.units)
            /\ Len(s.units) \in Nat
        BY <1>3, <3>1, FormTypes
      <3>3. Size(part) \in Nat
        BY <1>5, SizeTypes
      <3>. QED  BY <3>2, <3>3
    <2>7. (x - y) + z = (x + z) - y
      BY <2>6
    <2>8. size' = (x - y) + z /\ s.at[base + read' + 1] = x + z
      BY <1>8, <2>3, <2>5, <2>6, Zenon
    <2>. QED  BY <2>3, <2>6, <2>7, <2>8, Zenon
  <1>. QED  BY <1>17, <1>18

(* What a line or a string that is taken says is what was written.         *)
LEMMA ParseLineKeeps ==
    ASSUME TypeOK, Placed, ParseLine \/ ParseArray
    PROVE  Placed' /\ (Counting => Counting')
  <1>1. PICK s, a, base, cut : s = stream /\ a = Len(returned) /\ base = Base /\ cut = Cut
    OBVIOUS
  <1>2. Reads /\ Ahead.n \in Int /\ read + 1 <= Len(raw)
    <2>1. Reads
      BY Zenon DEF ParseLine, ParseArray
    <2>. QED  BY <2>1, AheadTypes
  <1>3. PICK k \in a + 1..Len(s.part) :
            /\ k = a + Len(parsed) + 1 /\ k \in 1..Len(s.part) /\ WellFormed(s, k)
            /\ Ahead = LineOf(s, k)
    <2>1. \E j : Facing(s, a, base, cut, j)
      BY <1>1, <1>2, PartAhead
    <2>. QED  BY <2>1, Zenon DEF Facing
  <1>4. PICK u : u = LineOf(s, k)
    OBVIOUS
  <1>5. HasForm(s)
    BY <1>1, Bearings
  <1>6. CASE u.t \in {"+", "-", ":", "*"}
    <2>1. Alone(s, k, u.t, u.n) /\ s.first[k + 1] = s.first[k] + 1
      <3>1. PICK i, m : i = s.first[k] + 1 /\ m = s.part[k]
        OBVIOUS
      <3>. QED  BY <1>3, <1>4, <1>5, <1>6, <3>1, PartForm
    <2>2. CASE \E type \in {"SimpleString", "SimpleError", "Integer"} :
                  Take(type, u.n, 0, 1) /\ s.part[k].type = type /\ s.part[k].value = u.n
      <3>1. PICK type \in {"SimpleString", "SimpleError", "Integer"} :
                  Take(type, u.n, 0, 1) /\ s.part[k].type = type /\ s.part[k].value = u.n
        BY <2>2
      <3>2. PICK n \in {1, 2} : n = 1
        OBVIOUS
      <3>3. PICK value \in Int, count \in Nat : value = u.n /\ count = 0
        BY <1>2, <1>3, <1>4
      <3>4. Count(s.part[k]) = count
        BY <3>1, <3>3 DEF Count
      <3>5. PICK left \in Nat : /\ Message(type, value, left) \in Part /\ left = Left - 1 + count
                                /\ parsed' = Append(parsed, Message(type, value, left))
        BY <1>2, <3>1, <3>2, <3>3, TakeTypes
      <3>6. Takes(s, a, k, type, value, count, n, left)
        BY <1>1, <1>3, <2>1, <3>1, <3>2, <3>3, <3>4, <3>5, Zenon DEF Takes
      <3>. QED  BY <1>2, <3>6, TakeKeeps, Zenon
    <2>3. CASE u.t = "*" /\ ParseArray
      <3>1. PICK value \in Nat : value = IF u.n < 0 THEN 0 ELSE u.n
        BY <1>2, <1>3, <1>4
      <3>2. Take("Array", value, value, 1)
        BY <1>3, <1>4, <2>3, <3>1, Zenon DEF ParseArray
      <3>3. s.part[k].type = "Array" /\ s.part[k].value = value
        BY <2>1, <2>3, <3>1, Zenon DEF Alone
      <3>4. Count(s.part[k]) = value
        BY <3>3 DEF Count
      <3>5. PICK n \in {1, 2}, type \in {"Array"} : n = 1 /\ type = "Array"
        OBVIOUS
      <3>6. PICK left \in Nat : /\ Message(type, value, left) \in Part /\ left = Left - 1 + value
                                /\ parsed' = Append(parsed, Message(type, value, left))
        BY <1>2, <3>1, <3>2, <3>5, TakeTypes
      <3>7. Takes(s, a, k, type, value, value, n, left)
        BY <1>1, <1>3, <2>1, <3>2, <3>3, <3>4, <3>5, <3>6, Zenon DEF Takes
      <3>. QED  BY <1>2, <3>7, TakeKeeps, Zenon
    <2>. QED  BY <1>3, <1>4, <2>1, <2>2, <2>3, Zenon DEF ParseLine, ParseArray, Alone
  <1>7. u.t \in {"+", "-", ":", "*"}
    BY <1>3, <1>4, Zenon DEF ParseLine, ParseArray
  <1>. QED  BY <1>6, <1>7

(* A string is of the type that was written, and so is one whose length    *)
(* alone is there.                                                         *)
LEMMA ParseStringKeeps ==
    ASSUME TypeOK, Placed, ParseString
    PROVE  Placed' /\ (Counting => Counting')
  <1>1. PICK s, a, base, cut : s = stream /\ a = Len(returned) /\ base = Base /\ cut = Cut
    OBVIOUS
  <1>2. Reads /\ Ahead.n \in Int /\ read + 1 <= Len(raw) /\ Len(raw) \in Nat /\ read \in Nat
    <2>1. Reads
      BY Zenon DEF ParseString
    <2>. QED  BY <2>1, AheadTypes
  <1>3. PICK k \in a + 1..Len(s.part) :
            /\ k = a + Len(parsed) + 1 /\ k \in 1..Len(s.part) /\ WellFormed(s, k)
            /\ Ahead = LineOf(s, k) /\ s.first[k] = base + read
            /\ Begins(s, k) <=> parsed = <<>>
            /\ \A j \in a + 1..k - 1 : s.part[j].left # 0
    <2>1. \E j : Facing(s, a, base, cut, j)
      BY <1>1, <1>2, PartAhead
    <2>. QED  BY <2>1, Zenon DEF Facing
  <1>4. PICK u, m : u = LineOf(s, k) /\ m = s.part[k]
    OBVIOUS
  <1>5. /\ HasForm(s) /\ a \in 0..Len(s.part) /\ Len(s.part) \in Nat /\ Len(parsed) \in Nat
        /\ base \in Nat /\ cut = base + Len(raw)
    <2>1. /\ HasForm(s) /\ a \in 0..Len(s.part) /\ Len(s.part) \in Nat /\ Len(parsed) \in Nat
          /\ base \in 0..Len(s.piece) /\ Len(s.piece) \in Nat /\ cut = base + Len(raw)
      BY <1>1, Bearings
    <2>. QED  BY <2>1
  <1>6. PICK type : type = IF state = "SyncResponse" /\ parsed = <<>> THEN "SyncResponse" ELSE "BulkString"
    OBVIOUS
  <1>7. /\ u.t = "$"
        /\ \/ u.n = -1 /\ Take(type, <<>>, 0, 1)
           \/ u.n # -1 /\ read + 1 < Len(raw) /\ Take(type, raw[read + 2], 0, 2)
    BY <1>3, <1>4, <1>6, Zenon DEF ParseString
  <1>8. Expecting(s, a, state, failed) /\ state \in {"Any", "SyncResponse", "commands"}
    BY <1>1, PlacedParts DEF TypeOK
  <1>9. m.type \in {"BulkString", "SyncResponse"} => type = m.type
    <2>1. ASSUME m.type = "SyncResponse"
          PROVE  type = m.type
      <3>1. k = a + 1 /\ state = "SyncResponse"
        BY <1>3, <1>4, <1>5, <1>8, <2>1, FileNext
      <3>2. parsed = <<>>
        <4>1. Len(parsed) = 0
          BY <1>3, <1>5, <3>1
        <4>. QED  BY <4>1 DEF TypeOK
      <3>. QED  BY <1>6, <2>1, <3>1, <3>2
    <2>2. ASSUME m.type = "BulkString", state = "SyncResponse", parsed = <<>>
          PROVE  FALSE
      <3>1. Len(parsed) = 0
        BY <2>2
      <3>2. k = a + 1
        BY <1>3, <1>5, <3>1
      <3>3. m.type = "SyncResponse"
        BY <1>3, <1>4, <1>5, <1>8, <2>2, <3>2, StringNext
      <3>. QED  BY <2>2, <3>3
    <2>. QED  BY <1>6, <2>1, <2>2
  <1>10. ASSUME NEW n \in {1, 2}, s.first[k + 1] = s.first[k] + n, m.type \in {"BulkString", "SyncResponse"},
                NEW value \in Seq(Char), value = m.value, Take(type, value, 0, n), read + n <= Len(raw)
         PROVE  Placed' /\ (Counting => Counting')
    <2>1. PICK count \in Nat : count = 0
      OBVIOUS
    <2>2. Count(s.part[k]) = count
      BY <1>4, <1>10, <2>1 DEF Count
    <2>3. type \in {"BulkString", "SyncResponse"} /\ s.part[k].type = type /\ s.part[k].value = value
      BY <1>4, <1>9, <1>10
    <2>4. PICK left \in Nat : /\ Message(type, value, left) \in Part /\ left = Left - 1 + count
                              /\ parsed' = Append(parsed, Message(type, value, left))
      BY <1>2, <1>10, <2>1, <2>3, TakeTypes
    <2>5. /\ s = stream /\ a = Len(returned) /\ k = a + Len(parsed) + 1 /\ Reads
          /\ Take(type, value, count, n)
      BY <1>1, <1>2, <1>3, <1>10, <2>1
    <2>6. n \in {1, 2} /\ s.first[k + 1] = s.first[k] + n
      BY <1>10, Zenon
    <2>7. Takes(s, a, k, type, value, count, n, left)
      BY <2>2, <2>3, <2>4, <2>5, <2>6, Zenon DEF Takes
    <2>. QED  BY <2>5, <2>7, TakeKeeps, Zenon
  <1>11. CASE s.first[k + 1] = s.first[k] + 1
    <2>1. u.n < 0 /\ m.type = "BulkString" /\ m.value = <<>>
      BY <1>3, <1>4, <1>5, <1>7, <1>11, LineLength
    <2>2. u.n = -1
      <3>. SUFFICES ASSUME read + 1 < Len(raw)
                    PROVE  FALSE
        BY <1>7
      <3>1. s.first[k] + 1 < cut /\ s.first[k] < cut
        BY <1>2, <1>3, <1>5
      <3>2. ~ Negative(u)
        BY <1>1, <1>3, <1>4, <3>1, PlacedParts DEF Reached
      <3>. QED  BY <1>7, <2>1, <3>2 DEF Negative
    <2>3. PICK value \in Seq(Char), n \in {1, 2} : value = <<>> /\ n = 1
      <3>1. <<>> \in Seq(Char)
        OBVIOUS
      <3>. QED  BY <3>1
    <2>. QED  BY <1>2, <1>7, <1>10, <1>11, <2>1, <2>2, <2>3
  <1>12. CASE s.first[k + 1] # s.first[k] + 1
    <2>1. TextIn(s, u, m, s.first[k] + 2) /\ s.first[k + 1] = s.first[k] + 2
      BY <1>3, <1>4, <1>5, <1>12, TextAt
    <2>2. /\ u.n \in 0..Len(s.units) /\ m.type \in {"BulkString", "SyncResponse"}
          /\ m.value \in Seq(Char) /\ s.piece[s.first[k] + 2].text = m.value
      BY <2>1, Zenon DEF TextIn
    <2>3. u.n # -1
      BY <2>2
    <2>4. read + 1 < Len(raw) /\ Take(type, raw[read + 2], 0, 2)
      BY <1>7, <2>3
    <2>5. raw[read + 2] = m.value
      <3>1. PICK i : i = read + 2
        OBVIOUS
      <3>2. i \in 1..Len(raw) /\ base + i = s.first[k] + 2
        <4>1. PICK r \in Nat, l \in Nat : r = read /\ l = Len(raw) /\ r + 1 < l
          BY <1>2, <2>4, Zenon
        <4>2. i \in 1..l
          BY <3>1, <4>1
        <4>3. s.first[k] = base + read /\ base \in Nat
          BY <1>3, <1>5, Zenon
        <4>4. base + i = (base + r) + 2
          BY <3>1, <4>1, <4>3
        <4>. QED  BY <4>1, <4>2, <4>3, <4>4, Zenon
      <3>3. raw[i] = s.piece[base + i].text
        BY <1>1, <3>2, PlacedParts, ZenonT(40) DEF Held
      <3>. QED  BY <2>2, <3>1, <3>2, <3>3, Zenon
    <2>6. PICK value \in Seq(Char), n \in {1, 2} : value = m.value /\ n = 2
      BY <2>2
    <2>7. read + n <= Len(raw) /\ Take(type, value, 0, n) /\ s.first[k + 1] = s.first[k] + n
      BY <1>2, <2>1, <2>4, <2>5, <2>6
    <2>. QED  BY <1>10, <2>2, <2>6, <2>7
  <1>. QED  BY <1>11, <1>12

(* Nothing that was cut is malformed.                                      *)
LEMMA ParseThrowsNever ==
    ASSUME TypeOK, Placed, ParseThrows
    PROVE  FALSE
  <1>1. PICK s, a, base, cut : s = stream /\ a = Len(returned) /\ base = Base /\ cut = Cut
    OBVIOUS
  <1>2. Reads
    BY Zenon DEF ParseThrows
  <1>3. PICK k \in a + 1..Len(s.part) :
            k \in 1..Len(s.part) /\ WellFormed(s, k) /\ Ahead = LineOf(s, k)
    <2>1. \E j : Facing(s, a, base, cut, j)
      BY <1>1, <1>2, PartAhead
    <2>. QED  BY <2>1, Zenon DEF Facing
  <1>4. HasForm(s)
    BY <1>1, Bearings
  <1>5. LineIn(s, LineOf(s, k), s.first[k] + 1)
    BY <1>3, <1>4, LineAt
  <1>6. Ahead.t \in {"+", "-", ":", "$", "*"} /\ Ahead.ok
    BY <1>3, <1>5 DEF LineIn
  <1>. QED  BY <1>6 DEF ParseThrows

(* The last part that parse has says what is left.                         *)
LEMMA LeftIs ==
    ASSUME TypeOK, Placed, NEW s, s = stream, NEW a, a = Len(returned), parsed # <<>>
    PROVE  /\ Left = s.part[a + Len(parsed)].left /\ Len(parsed) > 0
           /\ \A j \in a + 1..a + Len(parsed) - 1 : s.part[j].left # 0
  <1>1. PICK p \in Nat : p = Len(parsed)
    BY DEF TypeOK
  <1>2. p > 0
    BY <1>1 DEF TypeOK
  <1>3. \A i \in 1..p : parsed[i] = s.part[a + i]
    BY <1>1, Zenon DEF Placed, InOrder
  <1>4. p \in 1..p
    BY <1>2
  <1>5. Left = s.part[a + p].left
    BY <1>1, <1>3, <1>4, Zenon DEF Left
  <1>6. \A j \in a + 1..a + p - 1 : s.part[j].left # 0
    <2>1. InOrder(s, returned, parsed, read)
      BY Zenon DEF Placed
    <2>2. PICK b : b = a + p
      OBVIOUS
    <2>3. \A j \in a + 1..b - 1 : s.part[j].left # 0
      BY <1>1, <2>1, <2>2 DEF InOrder
    <2>. QED  BY <2>2, <2>3
  <1>. QED  BY <1>1, <1>2, <1>5, <1>6, Zenon

(* What is put back is counted anew when it is parsed again.               *)
LEMMA ReadSame ==
    ASSUME Counting, TypeOK, Placed, read' = 0, size' = 0,
           UNCHANGED <<stream, returned, counted, failed>>
    PROVE  Counting'
  <1>1. PICK s, base : s = stream /\ base = Base
    OBVIOUS
  <1>2. Base' = base /\ stream' = s /\ counted' = counted /\ failed' = failed
    BY <1>1 DEF Base
  <1>3. Exact(s) /\ ~ failed => counted = s.at[base + 1]
    BY <1>1, Zenon DEF Counting
  <1>4. s.at[base + 0 + 1] - s.at[base + 1] = 0
    <2>1. PICK cut, a : cut = Cut /\ a = Len(returned)
      OBVIOUS
    <2>2. HasForm(s) /\ base \in 0..Len(s.piece) /\ Len(s.piece) \in Nat /\ Len(s.units) \in Nat
      BY <1>1, <2>1, Bearings
    <2>3. base + 1 \in 1..Len(s.piece) + 1 /\ base + 0 + 1 = base + 1
      BY <2>2
    <2>4. s.at[base + 1] \in 0..Len(s.units)
      BY <2>2, <2>3, FormTypes
    <2>5. PICK x \in Int : x = s.at[base + 1]
      BY <2>4
    <2>6. x - x = 0
      BY <2>5
    <2>. QED  BY <2>3, <2>5, <2>6, Zenon
  <1>5. size' = s.at[base + read' + 1] - s.at[base + 1]
    BY <1>4, Zenon
  <1>6. SUFFICES ASSUME Exact(s), ~ failed
                 PROVE  counted = s.at[base + 1] /\ size' = s.at[base + read' + 1] - s.at[base + 1]
    BY <1>2 DEF Counting
  <1>. QED  BY <1>3, <1>5, <1>6, Zenon

(* No message ends where parse came to, unless in a length it waits behind.*)
LEMMA NotEnded ==
    ASSUME TypeOK, Placed, UngetAll, NEW s, s = stream, NEW a, a = Len(returned),
           NEW cut, cut = Cut
    PROVE  Pending(s, a, cut, cut, length)
  <1>1. PICK base : base = Base
    OBVIOUS
  <1>2. PICK p \in Nat, l \in Nat : p = Len(parsed) /\ l = Len(raw)
    BY Bearings
  <1>3. PICK b : b = a + p
    OBVIOUS
  <1>4. /\ HasForm(s) /\ a \in 0..Len(s.part) /\ Len(s.part) \in Nat /\ cut \in base..Len(s.piece)
        /\ Len(s.piece) \in Nat /\ base \in 0..Len(s.piece) /\ cut = base + l /\ read \in 0..l
    <2>1. /\ HasForm(s) /\ a \in 0..Len(s.part) /\ Len(s.part) \in Nat
          /\ Len(s.piece) \in Nat /\ base \in 0..Len(s.piece) /\ cut \in base..Len(s.piece)
          /\ cut = base + Len(raw) /\ read \in 0..Len(raw)
      BY <1>1, Bearings
    <2>. QED  BY <1>2, <2>1, Zenon
  <1>5. b \in a..Len(s.part) /\ s.first[b + 1] = base + read
    <2>1. a + Len(parsed) \in a..Len(s.part) /\ s.first[a + Len(parsed) + 1] = base + read
      BY <1>1, BehindParsed
    <2>. QED  BY <1>2, <1>3, <2>1, Zenon
  <1>6. doing = "parsing" /\ Left # 0
    BY Zenon DEF UngetAll
  <1>7. /\ Pending(s, a, cut, cut - 1, length) /\ Reached(s, cut) /\ length = Due(s, cut)
    <2>1. /\ Pending(s, a, cut, IF doing = "parsing" THEN cut - 1 ELSE cut, length)
          /\ Reached(s, cut) /\ length = Due(s, cut)
      BY <1>1, PlacedParts, Zenon
    <2>. QED  BY <1>6, <2>1, Zenon
  <1>8. SUFFICES ASSUME NEW j \in a + 1..Len(s.part), s.first[j + 1] = cut
                 PROVE  s.part[j].left # 0 \/ \E n \in length : n < -1
    <2>1. ASSUME NEW j \in a + 1..Len(s.part), s.first[j + 1] <= cut,
                 s.first[j + 1] = cut => s.part[j].left # 0 \/ \E n \in length : n < -1
          PROVE  s.part[j].left # 0 \/ (s.first[j + 1] = cut /\ \E n \in length : n < -1)
      <3>1. s.first[j + 1] \in Nat /\ cut \in Nat
        <4>1. j + 1 \in 1..Len(s.part) + 1
          BY <1>4
        <4>2. s.first[j + 1] \in 0..Len(s.piece)
          BY <1>4, <4>1, FormTypes
        <4>. QED  BY <1>4, <4>2
      <3>2. CASE s.first[j + 1] = cut
        BY <2>1, <3>2
      <3>3. CASE s.first[j + 1] # cut
        <4>1. s.first[j + 1] <= cut - 1
          BY <2>1, <3>1, <3>3
        <4>. QED  BY <1>7, <3>3, <4>1, Zenon DEF Pending
      <3>. QED  BY <3>2, <3>3
    <2>. QED  BY <2>1, Zenon DEF Pending
  <1>9. j + 1 \in 1..Len(s.part) + 1 /\ b + 1 \in 1..Len(s.part) + 1
    BY <1>4, <1>5
  <1>10. CASE read = l
    <2>1. j + 1 = b + 1
      BY <1>4, <1>5, <1>8, <1>9, <1>10, FirstOnce
    <2>2. j = b /\ p > 0
      BY <1>2, <1>3, <1>4, <1>5, <2>1
    <2>3. parsed # <<>>
      <3>1. parsed = <<>> => Len(parsed) = 0
        OBVIOUS
      <3>. QED  BY <1>2, <2>2, <3>1
    <2>4. Left = s.part[a + Len(parsed)].left
      BY <2>3, LeftIs, Zenon
    <2>. QED  BY <1>2, <1>3, <1>6, <2>2, <2>4, Zenon
  <1>11. CASE read + 1 = l /\ Ahead.t = "$" /\ Ahead.n # -1
    <2>1. Reads
      BY <1>2, <1>4, <1>6, <1>11 DEF Reads
    <2>2. PICK k : Facing(s, a, base, cut, k)
      BY <1>1, <2>1, PartAhead
    <2>3. k \in 1..Len(s.part) /\ WellFormed(s, k) /\ Ahead = LineOf(s, k) /\ s.first[k] = base + read
      BY <2>2, Zenon DEF Facing
    <2>4. s.first[k] + 1 = cut /\ s.first[k] \in Nat
      BY <1>4, <1>11, <2>3
    <2>5. k \in 1..Len(s.part) + 1 /\ k + 1 \in 1..Len(s.part) + 1
      BY <1>4, <2>3
    <2>6. s.first[k + 1] <= s.first[j + 1]
      BY <1>4, <1>8, <1>9, <2>4, <2>5, FirstOrder, SMTT(30)
    <2>7. s.first[k] < s.first[k + 1] /\ s.first[k + 1] \in Nat
      <3>1. s.first[k] < s.first[k + 1]
        BY <1>4, <2>3, FirstStep
      <3>. QED  BY <1>4, <2>5, <3>1, FormTypes
    <2>8. s.first[k + 1] = s.first[k] + 1
      BY <1>8, <2>4, <2>6, <2>7
    <2>9. PICK u : u = LineOf(s, k)
      OBVIOUS
    <2>10. u.n < 0 /\ u.t = "$" /\ u.n # -1
      BY <1>4, <1>11, <2>3, <2>8, <2>9, LineLength
    <2>11. LineIn(s, u, s.first[k] + 1)
      BY <1>4, <2>3, <2>9, LineAt
    <2>12. Due(s, cut) = {u.n} /\ u.n \in Int
      BY <2>4, <2>10, <2>11 DEF LineIn
    <2>13. u.n \in length /\ u.n < -1
      BY <1>7, <2>10, <2>12
    <2>. QED  BY <2>13
  <1>. QED  BY <1>2, <1>10, <1>11, Zenon DEF UngetAll

(* What is put back was cut, and is parsed again from its first line.      *)
LEMMA UngetAllKeeps ==
    ASSUME TypeOK, Placed, UngetAll
    PROVE  Placed' /\ (Counting => Counting')
  <1>1. PICK s, a, base, cut : s = stream /\ a = Len(returned) /\ base = Base /\ cut = Cut
    OBVIOUS
  <1>2. /\ HasForm(s) /\ base = s.first[a + 1] /\ cut = base + Len(raw)
        /\ a \in 0..Len(s.part) /\ Len(s.part) \in Nat /\ base \in 0..Len(s.piece) /\ Len(s.piece) \in Nat
    BY <1>1, Bearings
  <1>3. /\ doing' = "cutting" /\ read' = 0 /\ parsed' = <<>> /\ size' = 0
        /\ UNCHANGED <<stream, arrived, buffer, raw, length, control>>
    BY DEF UngetAll, Afresh
  <1>4. PICK skew \in {0, 2} : Buffered(s, arrived, buffer, cut, skew)
                                 /\ Skewed(s, length, cut, failed, skew)
    BY <1>1, PlacedParts
  <1>5. /\ Held(s, base, raw') /\ Reached(s, cut)
        /\ length' = Due(s, cut) /\ Skewed(s, length', cut, failed', skew)
        /\ Buffered(s, arrived', buffer', cut, skew)
        /\ Expecting(s, a, state', failed')
        /\ doing' # "idle"
    BY <1>1, <1>3, <1>4, PlacedParts, Zenon DEF control
  <1>6. Pending(s, a, cut, IF doing' = "parsing" THEN cut - 1 ELSE cut, length')
    <2>1. Pending(s, a, cut, cut, length)
      BY <1>1, NotEnded
    <2>2. (IF doing' = "parsing" THEN cut - 1 ELSE cut) = cut
      BY <1>3
    <2>. QED  BY <1>3, <2>1, <2>2, Zenon
  <1>7. InOrder(s, returned', parsed', read')
    <2>1. InOrder(s, returned, parsed, read)
      BY <1>1, PlacedParts
    <2>2. (\A i \in 1..a : returned[i] = s.part[i]) /\ (a > 0 => s.part[a].left = 0)
      BY <1>1, <2>1, Zenon DEF InOrder
    <2>3. PICK ret, par, rd : ret = returned /\ par = <<>> /\ rd = 0
      OBVIOUS
    <2>4. Len(ret) = a /\ Len(ret) + Len(par) = a /\ Len(par) = 0
      <3>1. Len(par) = 0
        BY <2>3
      <3>2. a + 0 = a
        BY <1>2
      <3>. QED  BY <1>1, <2>3, <3>1, <3>2, Zenon
    <2>5. rd = s.first[a + 1] - s.first[a + 1]
      <3>1. base - base = 0
        BY <1>2
      <3>. QED  BY <1>2, <2>3, <3>1, Zenon
    <2>6. (\A i \in 1..0 : par[i] = s.part[a + i]) /\ (\A j \in a + 1..a - 1 : s.part[j].left # 0)
          /\ a <= Len(s.part)
      BY <1>2
    <2>7. \A i \in 1..a : ret[i] = s.part[i]
      BY <2>2, <2>3, Zenon
    <2>8. InOrder(s, ret, par, rd)
      BY <2>2, <2>4, <2>5, <2>6, <2>7, Zenon DEF InOrder
    <2>9. returned' = returned
      BY <1>3 DEF control
    <2>. QED  BY <1>3, <2>3, <2>8, <2>9, Zenon
  <1>8. stream' = s /\ a = Len(returned') /\ cut = base + Len(raw')
    BY <1>1, <1>2, <1>3 DEF control
  <1>9. Placed'
    BY <1>2, <1>4, <1>5, <1>6, <1>7, <1>8, PlacedAgain
  <1>10. Counting => Counting'
    <2>1. read' = 0 /\ size' = 0 /\ UNCHANGED <<stream, returned, counted, failed>>
      BY <1>3 DEF control
    <2>. QED  BY <2>1, ReadSame
  <1>. QED  BY <1>9, <1>10

(* A string that is due is of some units, or has a delimiter behind.       *)
LEMMA TextNotEmpty ==
    ASSUME NEW s, HasForm(s), NEW cut \in Nat, cut <= Len(s.piece), Reached(s, cut),
           NEW n \in Due(s, cut), ~ (n < 0)
    PROVE  s.at[cut + 1] < s.at[cut + 2]
  <1>1. PICK k \in 1..Len(s.part) :
            /\ WellFormed(s, k) /\ s.first[k] + 1 = cut /\ LineOf(s, k).t = "$" /\ LineOf(s, k).n = n
    BY TextNext
  <1>2. PICK u, m : u = LineOf(s, k) /\ m = s.part[k]
    OBVIOUS
  <1>3. s.first[k] \in Nat
    BY FormTypes
  <1>4. s.first[k + 1] # s.first[k] + 1
    BY <1>1, <1>2, LineLength
  <1>5. TextIn(s, u, m, s.first[k] + 2) /\ s.first[k] + 2 = cut + 1
    BY <1>1, <1>2, <1>3, <1>4, TextAt
  <1>6. PICK i : i = cut + 1
    OBVIOUS
  <1>7. /\ i \in 1..Len(s.piece) /\ m.value \in Seq(Char) /\ s.piece[i].text = m.value
        /\ s.piece[i].delim = IF m.type = "SyncResponse" THEN 0 ELSE 2
    BY <1>5, <1>6, Zenon DEF TextIn
  <1>8. m.type = "SyncResponse" => m.value # <<>>
    BY <1>2, FormAnswers
  <1>9. PICK l \in Nat : l = Len(m.value) /\ (m.type = "SyncResponse" => l # 0)
    BY <1>7, <1>8
  <1>10. /\ s.at[i] \in 0..Len(s.units)
         /\ s.at[i + 1] = s.at[i] + Len(s.piece[i].text) + s.piece[i].delim
    BY <1>7, PieceForm, Zenon
  <1>11. PICK d \in {0, 2} : d = s.piece[i].delim /\ (m.type # "SyncResponse" => d = 2)
    BY <1>7
  <1>12. PICK at \in Nat : at = s.at[i]
    BY <1>10, FormTypes
  <1>13. s.at[i + 1] = at + l + d
    BY <1>7, <1>9, <1>10, <1>11, <1>12, Zenon
  <1>14. at < at + l + d
    BY <1>9, <1>11, SMTT(30)
  <1>15. i + 1 = cut + 2
    BY <1>6
  <1>. QED  BY <1>6, <1>12, <1>13, <1>14, <1>15, Zenon

(* When all that arrived was cut, what is next did not arrive whole.       *)
LEMMA AllParsedKeeps ==
    ASSUME TypeOK, Placed, AllParsed
    PROVE  Placed' \/ Lost(stream, Len(returned))
  <1>1. PICK s, a, base, cut : s = stream /\ a = Len(returned) /\ base = Base /\ cut = Cut
    OBVIOUS
  <1>2. /\ HasForm(s) /\ base = s.first[a + 1] /\ cut = base + Len(raw) /\ cut \in Nat
        /\ cut <= Len(s.piece) /\ Len(s.piece) \in Nat /\ Len(s.units) \in Nat /\ a \in 0..Len(s.part)
    BY <1>1, Bearings, SMTT(30)
  <1>3. /\ doing = "cutting" /\ doing' = "idle" /\ buffer = <<>>
        /\ UNCHANGED <<stream, arrived, buffer, raw, length, read, parsed, size, control>>
    BY DEF AllParsed
  <1>4. PICK skew \in {0, 2} : Buffered(s, arrived, buffer, cut, skew)
                                 /\ Skewed(s, length, cut, failed, skew)
    BY <1>1, PlacedParts
  <1>5. Reached(s, cut) /\ length = Due(s, cut) /\ Pending(s, a, cut, cut, length)
    <2>1. /\ Pending(s, a, cut, IF doing = "parsing" THEN cut - 1 ELSE cut, length)
          /\ Reached(s, cut) /\ length = Due(s, cut)
      BY <1>1, PlacedParts, Zenon
    <2>. QED  BY <1>3, <2>1
  <1>6. Starved(s, arrived, cut, length, failed) \/ Lost(s, a)
    <2>1. CASE skew = 2
      <3>1. failed
        BY <1>4, <2>1 DEF Skewed
      <3>. QED  BY <3>1, Zenon DEF Starved
    <2>2. CASE cut = Len(s.piece)
      BY <2>2, Zenon DEF Starved
    <2>3. CASE skew = 0 /\ cut # Len(s.piece)
      <3>1. cut + 1 \in 1..Len(s.piece) + 1 /\ cut < Len(s.piece)
        BY <1>2, <2>3
      <3>2. PICK at \in Nat : at = s.at[cut + 1]
        <4>1. s.at[cut + 1] \in 0..Len(s.units)
          BY <1>2, <3>1, FormTypes, Zenon
        <4>. QED  BY <1>2, <4>1
      <3>3. arrived = at
        <4>1. arrived + 0 = at + Len(buffer)
          BY <1>4, <2>3, <3>2, Zenon DEF Buffered
        <4>2. Len(buffer) = 0 /\ arrived \in Nat
          BY <1>3 DEF TypeOK
        <4>. QED  BY <4>1, <4>2
      <3>4. CASE length = {}
        <4>1. PICK k \in 1..Len(s.part) : s.first[k] = cut
          BY <1>2, <1>5, <3>1, <3>4, LineNext, SMTT(30)
        <4>2. CASE ~ WellFormed(s, k)
          <5>1. \A n \in length : ~ (n < -1)
            BY <3>4
          <5>2. Lost(s, a)
            BY <1>2, <1>5, <4>1, <4>2, <5>1, LineMalformed
          <5>. QED  BY <5>2
        <4>3. CASE WellFormed(s, k)
          <5>1. LineIn(s, LineOf(s, k), cut + 1)
            BY <1>2, <4>1, <4>3, LineAt
          <5>2. s.at[cut + 1 + 1] = s.at[cut + 1] + 3
            BY <5>1, Zenon DEF LineIn
          <5>3. cut + 1 + 1 = cut + 2
            BY <1>2
          <5>4. arrived < s.at[cut + 2]
            BY <3>2, <3>3, <5>2, <5>3
          <5>. QED  BY <5>4, Zenon DEF Starved
        <4>. QED  BY <4>2, <4>3
      <3>5. CASE length # {}
        <4>1. PICK n \in length : TRUE
          BY <3>5
        <4>2. CASE n < 0
          BY <4>1, <4>2, Zenon DEF Starved
        <4>3. CASE ~ (n < 0)
          <5>1. s.at[cut + 1] < s.at[cut + 2]
            BY <1>2, <1>5, <4>1, <4>3, TextNotEmpty
          <5>2. arrived < s.at[cut + 2]
            BY <3>2, <3>3, <5>1
          <5>. QED  BY <5>2, Zenon DEF Starved
        <4>. QED  BY <4>2, <4>3
      <3>. QED  BY <3>4, <3>5
    <2>. QED  BY <2>1, <2>2, <2>3
  <1>7. ASSUME Starved(s, arrived, cut, length, failed)
        PROVE  Placed'
    <2>1. /\ Held(s, base, raw') /\ Reached(s, cut) /\ InOrder(s, returned', parsed', read')
          /\ length' = Due(s, cut) /\ Skewed(s, length', cut, failed', skew)
          /\ Buffered(s, arrived', buffer', cut, skew)
          /\ Expecting(s, a, state', failed')
          /\ Starved(s, arrived', cut, length', failed')
      BY <1>1, <1>3, <1>4, <1>7, PlacedParts, Zenon DEF control
    <2>2. Pending(s, a, cut, IF doing' = "parsing" THEN cut - 1 ELSE cut, length')
      <3>1. (IF doing' = "parsing" THEN cut - 1 ELSE cut) = cut
        BY <1>3
      <3>. QED  BY <1>3, <1>5, <3>1, Zenon
    <2>3. stream' = s /\ a = Len(returned') /\ cut = base + Len(raw')
      BY <1>1, <1>2, <1>3 DEF control
    <2>. QED  BY <1>2, <1>4, <2>1, <2>2, <2>3, PlacedAgain
  <1>. QED  BY <1>1, <1>6, <1>7

-----------------------------------------------------------------------------
(* A message is given to the talker.                                       *)

(* Only a message of one part can be the answer to PSYNC.                  *)
LEMMA AnswerEnds ==
    ASSUME NEW s, HasForm(s), NEW a \in 0..Len(s.part), NEW b \in a + 1..Len(s.part),
           a > 0 => s.part[a].left = 0, \A k \in a + 1..b - 1 : s.part[k].left # 0
    PROVE  \A k \in a + 1..b : Answer(s, k) <=> k = b /\ b = a + 1 /\ s.part[b] = FullResync
  <1>1. Len(s.part) \in Nat
    BY FormTypes
  <1>2. TAKE k \in a + 1..b
  <1>3. k \in Nat /\ a \in Nat /\ b \in Nat /\ a < k /\ k <= b
    BY <1>1
  <1>4. ASSUME Answer(s, k)
        PROVE  k = b /\ b = a + 1 /\ s.part[b] = FullResync
    <2>1. s.part[k].left = 0 /\ s.part[k] = FullResync /\ Begins(s, k)
      BY <1>4, AnswerLast DEF Answer
    <2>2. k = b
      BY <1>3, <2>1
    <2>3. b = a + 1
      <3>. SUFFICES ASSUME b # a + 1
                    PROVE  FALSE
        OBVIOUS
      <3>1. k - 1 \in a + 1..b - 1 /\ k # 1
        BY <1>3, <2>2
      <3>2. s.part[k - 1].left # 0
        BY <3>1
      <3>. QED  BY <2>1, <3>1, <3>2 DEF Begins
    <2>. QED  BY <2>1, <2>2, <2>3
  <1>5. ASSUME k = b, b = a + 1, s.part[b] = FullResync
        PROVE  Answer(s, k)
    <2>1. k = 1 \/ (a > 0 /\ k - 1 = a)
      BY <1>3, <1>5
    <2>2. Begins(s, k)
      BY <2>1 DEF Begins
    <2>. QED  BY <1>5, <2>2 DEF Answer
  <1>. QED  BY <1>4, <1>5

LEMMA FullResyncOnly ==
    ASSUME NEW m \in Seq(Part)
    PROVE  m = <<FullResync>> <=> Len(m) = 1 /\ m[1] = FullResync
  OBVIOUS

(* What listen does to a talker that expects state and has failed, or not. *)
Listens(s, m, st, fail, next, then) ==
    \/ s.talker = "replica" /\ st = "Any" /\ m = <<FullResync>>
         /\ next = "SyncResponse" /\ then = fail
    \/ st = "SyncResponse" /\ m[1].type = "SyncResponse"
         /\ ((next = "commands" /\ then = fail) \/ (then = TRUE /\ next = st))
    \/ ~ (s.talker = "replica" /\ st = "Any" /\ m = <<FullResync>>)
         /\ ~ (st = "SyncResponse" /\ m[1].type = "SyncResponse")
         /\ next = st /\ then = fail

(* What the talker expects after a message is right for the next one.      *)
LEMMA ExpectingNext ==
    ASSUME NEW s, HasForm(s), NEW a \in 0..Len(s.part), NEW b \in a + 1..Len(s.part),
           a > 0 => s.part[a].left = 0, \A k \in a + 1..b - 1 : s.part[k].left # 0,
           NEW m \in Seq(Part), Len(m) = b - a, \A i \in 1..Len(m) : m[i] = s.part[a + i],
           NEW st \in {"Any", "SyncResponse", "commands"}, NEW fail \in BOOLEAN,
           NEW next, NEW then,
           Expecting(s, a, st, fail), Listens(s, m, st, fail, next, then)
    PROVE  Expecting(s, b, next, then)
  <1>1. Len(s.part) \in Nat /\ s.talker \in {"server", "replica"}
    BY FormTypes, Zenon DEF HasForm
  <1>2. a \in Nat /\ b \in Nat /\ a < b /\ b <= Len(s.part) /\ a + 1 \in 1..Len(s.part)
        /\ a + 1 \in 1..b /\ (\A k \in 1..a : k \in 1..b /\ k \in 1..Len(s.part) /\ k # b)
        /\ b \in 1..Len(s.part) /\ b \in 1..b
    BY <1>1
  <1>3. m = <<FullResync>> <=> b = a + 1 /\ s.part[b] = FullResync
    <2>1. Len(m) = 1 <=> b = a + 1
      BY <1>2
    <2>2. b = a + 1 => m[1] = s.part[b]
      BY <1>2
    <2>. QED  BY <2>1, <2>2, FullResyncOnly
  <1>4. m[1] = s.part[a + 1]
    BY <1>2
  <1>5. \A k \in a + 1..b : Answer(s, k) <=> k = b /\ m = <<FullResync>>
    <2>1. \A k \in a + 1..b : Answer(s, k) <=> k = b /\ b = a + 1 /\ s.part[b] = FullResync
      BY AnswerEnds
    <2>. QED  BY <1>3, <2>1, Zenon
  <1>6. s.part[a + 1].type = "SyncResponse" <=> s.talker = "replica" /\ a > 0 /\ Answer(s, a)
    <2>1. PICK k \in 1..Len(s.part) : k = a + 1
      BY <1>2
    <2>2. k - 1 = a /\ (k > 1 <=> a > 0)
      BY <1>2, <2>1
    <2>. QED  BY <2>1, <2>2, FormAnswers
  <1>7. ASSUME s.talker = "replica", NEW k \in 1..a, Answer(s, k)
        PROVE  ~ Answer(s, b)
    <2>1. k \in 1..Len(s.part) /\ b \in 1..Len(s.part) /\ k # b
      BY <1>2
    <2>. QED  BY <1>7, <2>1, AnswerOnce
  <1>8. CASE /\ s.talker = "replica" /\ st = "Any" /\ m = <<FullResync>>
             /\ next = "SyncResponse" /\ then = fail
    <2>1. ~ fail
      BY <1>8, Zenon DEF Expecting
    <2>2. Answer(s, b) /\ b > 0
      <3>1. b \in a + 1..b
        BY <1>2
      <3>. QED  BY <1>2, <1>5, <1>8, <3>1
    <2>. QED  BY <1>2, <1>8, <2>1, <2>2 DEF Expecting
  <1>9. CASE /\ st = "SyncResponse" /\ m[1].type = "SyncResponse"
             /\ ((next = "commands" /\ then = fail) \/ (then = TRUE /\ next = st))
    <2>1. s.talker = "replica" /\ a > 0 /\ Answer(s, a) /\ a \in 1..a
      <3>1. s.talker = "replica" /\ a > 0 /\ Answer(s, a)
        BY <1>4, <1>6, <1>9
      <3>. QED  BY <1>2, <3>1
    <2>2. CASE next = "commands" /\ then = fail
      <3>1. ~ fail
        <4>. SUFFICES ASSUME NEW k \in 1..a, s.part[k].type = "SyncResponse"
                      PROVE  FALSE
          BY Zenon DEF Expecting
        <4>1. k \in 1..Len(s.part) /\ a \in 1..Len(s.part)
          BY <1>2, <2>1
        <4>2. k > 1 /\ Answer(s, k - 1)
          BY <4>1, FormAnswers
        <4>3. k - 1 \in 1..Len(s.part) /\ k - 1 # a
          BY <1>1, <1>2, <4>1, <4>2
        <4>. QED  BY <2>1, <4>1, <4>2, <4>3, AnswerOnce
      <3>2. ~ Answer(s, b)
        BY <1>7, <2>1
      <3>3. \E k \in 1..b : Answer(s, k)
        BY <1>2, <2>1
      <3>4. b > 0
        BY <1>2
      <3>5. next # "Any" /\ next # "SyncResponse" /\ ~ then /\ s.talker # "server"
        BY <2>1, <2>2, <3>1
      <3>. QED  BY <3>2, <3>3, <3>4, <3>5, Zenon DEF Expecting
    <2>3. CASE then = TRUE /\ next = st
      <3>1. \E k \in 1..b : Answer(s, k)
        BY <1>2, <2>1
      <3>2. \E k \in 1..b : s.part[k].type = "SyncResponse"
        BY <1>2, <1>4, <1>9
      <3>3. next = "SyncResponse" /\ next # "Any" /\ next # "commands" /\ then /\ s.talker # "server"
        BY <1>9, <2>1, <2>3
      <3>. QED  BY <3>1, <3>2, <3>3, Zenon DEF Expecting
    <2>. QED  BY <1>9, <2>2, <2>3
  <1>10. CASE /\ ~ (s.talker = "replica" /\ st = "Any" /\ m = <<FullResync>>)
              /\ ~ (st = "SyncResponse" /\ m[1].type = "SyncResponse")
              /\ next = st /\ then = fail
    <2>1. s.talker = "server" => next = "Any"
      BY <1>10, Zenon DEF Expecting
    <2>2. ASSUME s.talker = "replica", next = "Any", NEW k \in 1..b
          PROVE  ~ Answer(s, k)
      <3>1. CASE k \in 1..a
        BY <1>10, <2>2, <3>1, Zenon DEF Expecting
      <3>2. CASE k \in a + 1..b
        BY <1>5, <1>10, <2>2, <3>2
      <3>. QED  BY <1>2, <3>1, <3>2
    <2>3. ASSUME s.talker = "replica", next # "Any"
          PROVE  (\E k \in 1..b : Answer(s, k)) /\ ~ Answer(s, b)
      <3>1. PICK k \in 1..a : Answer(s, k)
        BY <1>10, <2>3, Zenon DEF Expecting
      <3>. QED  BY <1>2, <1>7, <2>3, <3>1
    <2>4. s.talker = "replica" /\ next = "SyncResponse" => then
      BY <1>4, <1>6, <1>10, Zenon DEF Expecting
    <2>5. then => next = "SyncResponse" /\ \E k \in 1..b : s.part[k].type = "SyncResponse"
      <3>1. then => next = "SyncResponse" /\ \E k \in 1..a : s.part[k].type = "SyncResponse"
        BY <1>10, Zenon DEF Expecting
      <3>. QED  BY <1>2, <3>1
    <2>6. b > 0
      BY <1>2
    <2>. QED  BY <2>1, <2>2, <2>3, <2>4, <2>5, <2>6, Zenon DEF Expecting
  <1>. QED  BY <1>8, <1>9, <1>10, Zenon DEF Listens

LEMMA ListenIs ==
    ASSUME TypeOK, Return
    PROVE  /\ Listens(stream, parsed, state, failed, state', failed')
           /\ doing' \in {"idle", "cutting"} /\ (doing' = "idle" => failed')
           /\ failed => failed'
  <1>1. Listen(parsed)
    BY Zenon DEF Return
  <1>2. Listens(stream, parsed, state, failed, state', failed')
    BY <1>1, Zenon DEF Listen, Listens
  <1>3. doing' \in {"idle", "cutting"} /\ (doing' = "idle" => failed')
    BY <1>1 DEF Listen
  <1>4. failed => failed'
    BY <1>1 DEF Listen
  <1>. QED  BY <1>2, <1>3, <1>4

(* Part b is the last one of a message that is complete.                   *)
Ending(s, a, cut, b) ==
    /\ b \in a + 1..Len(s.part)
    /\ Len(parsed) = b - a /\ s.part[b].left = 0 /\ s.first[b + 1] = cut
    /\ \A k \in a + 1..b - 1 : s.part[k].left # 0
    /\ read = Len(raw) /\ a + 1 \in 1..Len(s.part)

(* A message that is complete ends where parse came to, and nothing was    *)
(* cut behind it.                                                          *)
LEMMA ReturnIs ==
    ASSUME TypeOK, Placed, Return, NEW s, s = stream, NEW a, a = Len(returned),
           NEW base, base = Base, NEW cut, cut = Cut
    PROVE  \E b : Ending(s, a, cut, b)
  <1>1. PICK p \in Nat, l \in Nat : p = Len(parsed) /\ l = Len(raw)
    BY Bearings
  <1>2. PICK b : b = a + p
    OBVIOUS
  <1>3. /\ a \in Nat /\ Len(s.part) \in Nat /\ base \in Nat /\ cut = base + l
        /\ read \in Nat /\ read <= l
    <2>1. /\ a \in 0..Len(s.part) /\ Len(s.part) \in Nat /\ Len(s.piece) \in Nat
          /\ base \in 0..Len(s.piece) /\ cut = base + Len(raw) /\ read \in 0..Len(raw)
      BY Bearings
    <2>. QED  BY <1>1, <2>1
  <1>4. b \in a..Len(s.part) /\ s.first[b + 1] = base + read
    <2>1. a + Len(parsed) \in a..Len(s.part) /\ s.first[a + Len(parsed) + 1] = base + read
      BY BehindParsed
    <2>. QED  BY <1>1, <1>2, <2>1, Zenon
  <1>5. doing = "parsing" /\ Left = 0
    BY Zenon DEF Return
  <1>6. parsed # <<>>
    BY <1>5 DEF Left
  <1>7. /\ Left = s.part[a + Len(parsed)].left /\ Len(parsed) > 0
        /\ \A j \in a + 1..a + Len(parsed) - 1 : s.part[j].left # 0
    BY <1>6, LeftIs
  <1>8. s.part[b].left = 0 /\ p > 0 /\ \A j \in a + 1..b - 1 : s.part[j].left # 0
    <2>1. s.part[b].left = 0
      BY <1>1, <1>2, <1>5, <1>7, Zenon
    <2>2. p > 0
      BY <1>1, <1>7
    <2>3. \A j \in a + 1..b - 1 : s.part[j].left # 0
      BY <1>1, <1>2, <1>7
    <2>. QED  BY <2>1, <2>2, <2>3
  <1>9. b \in a + 1..Len(s.part) /\ p = b - a /\ a + 1 \in 1..Len(s.part)
    BY <1>2, <1>3, <1>4, <1>8
  <1>10. read = l
    <2>1. Pending(s, a, cut, cut - 1, length)
      <3>1. Pending(s, a, cut, IF doing = "parsing" THEN cut - 1 ELSE cut, length)
        BY PlacedParts, Zenon
      <3>. QED  BY <1>5, <3>1, Zenon
    <2>. SUFFICES ASSUME read < l
                  PROVE  FALSE
      BY <1>1, <1>3
    <2>2. s.first[b + 1] <= cut - 1 /\ s.first[b + 1] # cut
      BY <1>1, <1>3, <1>4
    <2>. QED  BY <1>8, <1>9, <2>1, <2>2, Zenon DEF Pending
  <1>11. s.first[b + 1] = cut
    BY <1>3, <1>4, <1>10
  <1>12. Ending(s, a, cut, b)
    BY <1>1, <1>8, <1>9, <1>10, <1>11, Zenon DEF Ending
  <1>. QED  BY <1>12

LEMMA Joined ==
    ASSUME NEW S, NEW p \in Seq(S), NEW q \in Seq(S)
    PROVE  /\ Len(p \o q) = Len(p) + Len(q)
           /\ \A i \in 1..Len(p) : (p \o q)[i] = p[i]
           /\ \A i \in 1..Len(q) : (p \o q)[Len(p) + i] = q[i]
  OBVIOUS

(* What was returned are the parts that were written, now up to part b.    *)
LEMMA ReturnInOrder ==
    ASSUME TypeOK, Placed, Return, NEW s, s = stream, NEW a \in Nat, a = Len(returned),
           NEW b \in a + 1..Len(s.part), Len(parsed) = b - a
    PROVE  Len(returned') = b /\ \A i \in 1..b : returned'[i] = s.part[i]
  <1>1. PICK p, q, z : p = returned /\ q = parsed /\ z = returned'
    OBVIOUS
  <1>2. PICK S : S = Part
    OBVIOUS
  <1>3. p \in Seq(S) /\ q \in Seq(S) /\ z = p \o q
    BY <1>1, <1>2, Zenon DEF TypeOK, Return
  <1>4. /\ Len(p \o q) = Len(p) + Len(q)
        /\ \A i \in 1..Len(p) : (p \o q)[i] = p[i]
        /\ \A i \in 1..Len(q) : (p \o q)[Len(p) + i] = q[i]
    BY <1>3, Joined
  <1>5. Len(p) = a /\ Len(q) = b - a
    BY <1>1, Zenon
  <1>6. a \in Nat /\ b \in Nat /\ a <= b
    <2>1. Len(s.part) \in Nat
      BY StreamIs, FormTypes, Zenon
    <2>. QED  BY <2>1
  <1>7. Len(z) = b
    <2>1. Len(z) = a + (b - a)
      BY <1>3, <1>4, <1>5, Zenon
    <2>2. a + (b - a) = b
      BY <1>6
    <2>. QED  BY <2>1, <2>2, Zenon
  <1>8. InOrder(s, p, q, read)
    BY <1>1, Zenon DEF Placed
  <1>9. /\ \A i \in 1..a : p[i] = s.part[i]
        /\ \A i \in 1..b - a : q[i] = s.part[a + i]
    BY <1>5, <1>8, Zenon DEF InOrder
  <1>10. ASSUME NEW i \in 1..b
         PROVE  z[i] = s.part[i]
    <2>1. CASE i \in 1..a
      BY <1>3, <1>4, <1>5, <1>9, <2>1, Zenon
    <2>2. CASE i \notin 1..a
      <3>1. PICK j \in 1..b - a : a + j = i
        <4>1. i - a \in 1..b - a /\ a + (i - a) = i
          BY <1>6, <2>2
        <4>. QED  BY <4>1
      <3>2. z[a + j] = q[j] /\ q[j] = s.part[a + j]
        BY <1>3, <1>4, <1>5, <1>9, Zenon
      <3>. QED  BY <3>1, <3>2, Zenon
    <2>. QED  BY <2>1, <2>2
  <1>. QED  BY <1>1, <1>7, <1>10, Zenon

(* Return.                                                                 *)
LEMMA ReturnKeeps ==
    ASSUME TypeOK, Placed, Return
    PROVE  Placed' /\ (Counting => Counting')
  <1>1. PICK s, a, base, cut : s = stream /\ a = Len(returned) /\ base = Base /\ cut = Cut
    OBVIOUS
  <1>2. /\ HasForm(s) /\ a \in 0..Len(s.part) /\ Len(s.part) \in Nat /\ cut \in base..Len(s.piece)
        /\ Len(s.piece) \in Nat /\ base \in 0..Len(s.piece) /\ Len(raw) \in Nat
        /\ cut = base + Len(raw)
    BY <1>1, Bearings
  <1>3. PICK b \in a + 1..Len(s.part) :
            /\ Len(parsed) = b - a /\ s.part[b].left = 0 /\ s.first[b + 1] = cut
            /\ \A k \in a + 1..b - 1 : s.part[k].left # 0
            /\ read = Len(raw) /\ a + 1 \in 1..Len(s.part)
    <2>1. \E b : Ending(s, a, cut, b)
      BY <1>1, ReturnIs
    <2>. QED  BY <2>1, Zenon DEF Ending
  <1>4. /\ raw' = SubSeq(raw, read + 1, Len(raw)) /\ read' = 0 /\ parsed' = <<>> /\ size' = 0
        /\ counted' = counted + size /\ doing = "parsing"
        /\ UNCHANGED <<stream, arrived, buffer, length>>
    BY Zenon DEF Return, Afresh
  <1>5. raw' = <<>> /\ Len(raw') = 0
    <2>1. raw \in Seq(Seq(Char))
      BY DEF TypeOK
    <2>2. SubSeq(raw, Len(raw) + 1, Len(raw)) = <<>>
      BY <2>1
    <2>. QED  BY <1>3, <1>4, <2>2
  <1>6. a \in Nat /\ b \in Nat /\ a < b /\ b <= Len(s.part) /\ cut \in Nat
    BY <1>2, <1>3
  <1>7. Len(returned') = b /\ \A i \in 1..b : returned'[i] = s.part[i]
    <2>1. /\ s = stream /\ a \in Nat /\ a = Len(returned) /\ b \in a + 1..Len(s.part)
          /\ Len(parsed) = b - a
      BY <1>1, <1>3, <1>6
    <2>. QED  BY <2>1, ReturnInOrder, Zenon
  <1>8. PICK skew \in {0, 2} : Buffered(s, arrived, buffer, cut, skew)
                                 /\ Skewed(s, length, cut, failed, skew)
    BY <1>1, PlacedParts
  <1>9. /\ InOrder(s, returned, parsed, read) /\ Reached(s, cut) /\ length = Due(s, cut)
        /\ Expecting(s, a, state, failed)
    BY <1>1, PlacedParts
  <1>10. InOrder(s, returned', parsed', read')
    <2>1. PICK ret, par, rd : ret = returned' /\ par = <<>> /\ rd = 0
      OBVIOUS
    <2>2. Len(ret) = b /\ Len(ret) + Len(par) = b /\ Len(par) = 0
      BY <1>6, <1>7, <2>1
    <2>3. rd = s.first[b + 1] - s.first[b + 1]
      <3>1. cut - cut = 0
        BY <1>6
      <3>. QED  BY <1>3, <2>1, <3>1, Zenon
    <2>4. (\A i \in 1..0 : par[i] = s.part[b + i]) /\ (\A j \in b + 1..b - 1 : s.part[j].left # 0)
          /\ b <= Len(s.part)
      BY <1>6
    <2>5. \A i \in 1..b : ret[i] = s.part[i]
      BY <1>7, <2>1, Zenon
    <2>6. InOrder(s, ret, par, rd)
      BY <1>3, <2>2, <2>3, <2>4, <2>5, Zenon DEF InOrder
    <2>. QED  BY <1>4, <2>1, <2>6, Zenon
  <1>11. Held(s, cut, raw')
    BY <1>2, <1>5, <1>6 DEF Held
  <1>12. /\ Listens(s, parsed, state, failed, state', failed')
         /\ doing' \in {"idle", "cutting"} /\ (doing' = "idle" => failed') /\ (failed => failed')
    BY <1>1, ListenIs
  <1>13. Pending(s, b, cut, IF doing' = "parsing" THEN cut - 1 ELSE cut, length')
    <2>1. ASSUME NEW j \in b + 1..Len(s.part), s.first[j + 1] <= cut
          PROVE  FALSE
      <3>1. b + 1 \in 1..Len(s.part) + 1 /\ j + 1 \in 1..Len(s.part) + 1 /\ b + 1 < j + 1
        BY <1>2, <1>6
      <3>2. s.first[b + 1] < s.first[j + 1]
        BY <1>2, <3>1, FirstIncreases
      <3>3. s.first[j + 1] \in 0..Len(s.piece)
        BY <1>2, <3>1, FormTypes
      <3>. QED  BY <1>2, <1>3, <1>6, <2>1, <3>2, <3>3
    <2>2. (IF doing' = "parsing" THEN cut - 1 ELSE cut) = cut
      BY <1>12
    <2>3. Pending(s, b, cut, cut, length')
      BY <2>1, Zenon DEF Pending
    <2>. QED  BY <2>2, <2>3, Zenon
  <1>14. Expecting(s, b, state', failed')
    <2>1. /\ parsed \in Seq(Part) /\ state \in {"Any", "SyncResponse", "commands"} /\ failed \in BOOLEAN
      BY DEF TypeOK
    <2>2. (a > 0 => s.part[a].left = 0) /\ \A i \in 1..Len(parsed) : parsed[i] = s.part[a + i]
      BY <1>1, <1>9, Zenon DEF InOrder
    <2>3. PICK m \in Seq(Part) : m = parsed
      BY <2>1
    <2>4. Len(m) = b - a /\ (\A i \in 1..Len(m) : m[i] = s.part[a + i])
          /\ Listens(s, m, state, failed, state', failed')
      BY <1>3, <1>12, <2>2, <2>3, Zenon
    <2>5. /\ HasForm(s) /\ a \in 0..Len(s.part) /\ b \in a + 1..Len(s.part)
          /\ Expecting(s, a, state, failed)
          /\ \A k \in a + 1..b - 1 : s.part[k].left # 0
      BY <1>2, <1>3, <1>9
    <2>6. PICK st \in {"Any", "SyncResponse", "commands"}, fail \in BOOLEAN :
             st = state /\ fail = failed
      BY <2>1
    <2>7. PICK next, then : next = state' /\ then = failed'
      OBVIOUS
    <2>8. Listens(s, m, st, fail, next, then) /\ Expecting(s, a, st, fail)
      BY <2>4, <2>5, <2>6, <2>7, Zenon
    <2>9. Expecting(s, b, next, then)
      BY <2>2, <2>4, <2>5, <2>8, ExpectingNext
    <2>. QED  BY <2>7, <2>9, Zenon
  <1>15. /\ length' = Due(s, cut) /\ Buffered(s, arrived', buffer', cut, skew)
         /\ Skewed(s, length', cut, failed', skew)
         /\ doing' = "idle" => Starved(s, arrived', cut, length', failed')
    BY <1>4, <1>8, <1>9, <1>12, Zenon DEF Skewed, Starved
  <1>16. stream' = s /\ b = Len(returned') /\ cut = cut + Len(raw') /\ cut = s.first[b + 1]
    <2>1. cut = cut + 0
      BY <1>6
    <2>. QED  BY <1>1, <1>3, <1>4, <1>5, <1>7, <2>1, Zenon
  <1>17. Placed'
    BY <1>8, <1>10, <1>11, <1>9, <1>13, <1>14, <1>15, <1>16, PlacedAgain
  <1>18. ASSUME Counting
         PROVE  Counting'
    <2>1. Base' = cut /\ stream' = s
      BY <1>16, Zenon DEF Base
    <2>2. SUFFICES ASSUME Exact(s), ~ failed'
                   PROVE  counted' = s.at[cut + 1] /\ size' = s.at[cut + read' + 1] - s.at[cut + 1]
      BY <2>1 DEF Counting
    <2>3. counted = s.at[base + 1] /\ size = s.at[base + read + 1] - s.at[base + 1]
      BY <1>1, <1>12, <1>18, <2>2, Zenon DEF Counting
    <2>4. base + 1 \in 1..Len(s.piece) + 1 /\ cut + 1 \in 1..Len(s.piece) + 1 /\ cut + 0 + 1 = cut + 1
      BY <1>2
    <2>5. s.at[base + 1] \in 0..Len(s.units) /\ s.at[cut + 1] \in 0..Len(s.units) /\ Len(s.units) \in Nat
      BY <1>2, <2>4, FormTypes
    <2>6. PICK x \in Nat, y \in Nat : x = s.at[base + 1] /\ y = s.at[cut + 1]
      BY <2>5
    <2>7. counted' = x + (y - x)
      BY <1>2, <1>3, <1>4, <2>3, <2>6, Zenon
    <2>8. x + (y - x) = y /\ y - y = 0
      BY <2>6
    <2>. QED  BY <1>4, <2>4, <2>6, <2>7, <2>8, Zenon
  <1>. QED  BY <1>17, <1>18

-----------------------------------------------------------------------------
(* The invariant.                                                          *)

(* Once lost, always lost.                                                 *)
LEMMA LostGrows ==
    ASSUME NEW s, NEW a \in Nat, NEW b \in Nat, a <= b, Lost(s, a)
    PROVE  Lost(s, b)
  <1>1. PICK j \in 1..Len(s.part) :
            ~ WellFormed(s, j) /\ \A k \in a + 1..j - 1 : s.part[k].left # 0
    BY DEF Lost
  <1>2. \A k \in b + 1..j - 1 : k \in a + 1..j - 1
    OBVIOUS
  <1>. QED  BY <1>1, <1>2, Zenon DEF Lost

(* Nothing is promised of a message that is returned when the parser is    *)
(* lost.                                                                   *)
LEMMA LostNotClean ==
    ASSUME NEW a \in Nat, Lost(stream, a), NEW i \in Nat, a < i
    PROVE  ~ Clean(i)
  <1>1. PICK j \in 1..Len(stream.part) :
            ~ WellFormed(stream, j) /\ \A k \in a + 1..j - 1 : stream.part[k].left # 0
    BY DEF Lost
  <1>2. j \in Int
    BY <1>1
  <1>3. \A k \in i..j - 1 : k \in a + 1..j - 1
    BY <1>2
  <1>. QED  BY <1>1, <1>3, Zenon DEF Clean

LEMMA InOrderFaithful ==
    ASSUME NEW s, HasForm(s), NEW ret \in Seq(Part), NEW par \in Seq(Part), NEW rd,
           InOrder(s, ret, par, rd)
    PROVE  \A i \in 1..Len(ret) : i \in 1..Len(s.part) /\ ret[i] = s.part[i]
  <1>1. PICK a \in Nat, p \in Nat : a = Len(ret) /\ p = Len(par)
    OBVIOUS
  <1>2. Len(s.part) \in Nat
    BY FormTypes
  <1>3. a + p <= Len(s.part) /\ \A i \in 1..a : ret[i] = s.part[i]
    BY <1>1, Zenon DEF InOrder
  <1>4. \A i \in 1..a : i \in 1..Len(s.part)
    BY <1>1, <1>2, <1>3
  <1>. QED  BY <1>1, <1>3, <1>4, Zenon

(* A step does not take a message back, and only Return gives one.         *)
LEMMA ReturnedGrows ==
    ASSUME TypeOK, [Next]_vars
    PROVE  /\ stream' = stream /\ Len(returned) \in Nat /\ Len(returned') \in Nat
           /\ Len(returned) <= Len(returned')
           /\ \A i \in 1..Len(returned) : returned'[i] = returned[i]
           /\ Return \/ returned' = returned
  <1>1. returned \in Seq(Part) /\ parsed \in Seq(Part)
    BY DEF TypeOK
  <1>2. CASE Return
    <2>1. returned' = returned \o parsed /\ stream' = stream
      BY <1>2, Zenon DEF Return
    <2>2. PICK p, q, z : p = returned /\ q = parsed /\ z = p \o q
      OBVIOUS
    <2>3. PICK S : S = Part
      OBVIOUS
    <2>4. p \in Seq(S) /\ q \in Seq(S)
      BY <1>1, <2>2, <2>3, Zenon
    <2>5. Len(z) = Len(p) + Len(q) /\ \A i \in 1..Len(p) : z[i] = p[i]
      BY <2>2, <2>4, Joined, SMTT(30)
    <2>6. Len(p) \in Nat /\ Len(q) \in Nat
      BY <2>4
    <2>7. Len(p) \in Nat /\ Len(z) \in Nat /\ Len(p) <= Len(z)
      BY <2>5, <2>6
    <2>8. returned' = z
      BY <2>1, <2>2, Zenon
    <2>. QED  BY <1>2, <2>1, <2>2, <2>5, <2>7, <2>8, Zenon
  <1>3. CASE ~ Return
    <2>1. stream' = stream /\ returned' = returned
      BY <1>3, Zenon DEF Next, Parse, vars, control, Read, TryParse, ParseLine, ParseString, ParseArray,
                         ParseThrows, UngetAll, AllParsed, Take
    <2>2. Len(returned) \in Nat
      BY <1>1
    <2>. QED  BY <2>1, <2>2
  <1>. QED  BY <1>2, <1>3

(* Only parse has parts.                                                   *)
LEMMA FreshStep ==
    ASSUME Fresh, [Next]_vars
    PROVE  Fresh'
  <1>1. CASE Read \/ TryParse \/ AllParsed
    BY <1>1 DEF Fresh, Read, TryParse, AllParsed
  <1>2. CASE ParseLine \/ ParseString \/ ParseArray
    <2>1. doing = "parsing" /\ doing' = doing
      BY <1>2, Zenon DEF ParseLine, ParseString, ParseArray, Reads, Take
    <2>. QED  BY <2>1 DEF Fresh
  <1>3. CASE ParseThrows \/ UngetAll \/ Return
    BY <1>3, Zenon DEF Fresh, ParseThrows, UngetAll, Return, Afresh
  <1>4. CASE UNCHANGED vars
    BY <1>4 DEF Fresh, vars
  <1>. QED  BY <1>1, <1>2, <1>3, <1>4, Zenon DEF Next, Parse

(* What is returned when not lost is what was written.                     *)
LEMMA FaithfulStep ==
    ASSUME TypeOK, Faithful, TypeOK', [Next]_vars, Lost(stream, Len(returned)) \/ Placed'
    PROVE  Faithful'
  <1>1. PICK s, a : s = stream /\ a = Len(returned)
    OBVIOUS
  <1>2. /\ stream' = s /\ a \in Nat /\ Len(returned') \in Nat /\ a <= Len(returned')
        /\ \A i \in 1..a : returned'[i] = returned[i]
        /\ Return \/ returned' = returned
    BY <1>1, ReturnedGrows
  <1>3. \A i : Clean(i)' <=> Clean(i)
    BY <1>1, <1>2 DEF Clean
  <1>4. CASE Lost(s, a)
    <2>1. ASSUME NEW i \in 1..Len(returned'), Clean(i)
          PROVE  i \in 1..Len(s.part) /\ returned'[i] = s.part[i]
      <3>1. CASE i \in 1..a
        BY <1>1, <1>2, <2>1, <3>1, Zenon DEF Faithful
      <3>2. CASE i \notin 1..a
        <4>1. i \in Nat /\ a < i
          BY <1>2, <3>2
        <4>. QED  BY <1>1, <1>2, <1>4, <2>1, <4>1, LostNotClean
      <3>. QED  BY <3>1, <3>2
    <2>. QED  BY <1>2, <1>3, <2>1, Zenon DEF Faithful
  <1>5. CASE Placed'
    <2>1. InOrder(s, returned', parsed', read')
      BY <1>2, <1>5, Zenon DEF Placed
    <2>2. returned' \in Seq(Part) /\ parsed' \in Seq(Part)
      BY DEF TypeOK
    <2>3. HasForm(s)
      BY <1>1, StreamIs
    <2>4. PICK ret \in Seq(Part), par \in Seq(Part) : ret = returned' /\ par = parsed'
      BY <2>2
    <2>5. \A i \in 1..Len(ret) : i \in 1..Len(s.part) /\ ret[i] = s.part[i]
      <3>1. PICK rd : rd = read'
        OBVIOUS
      <3>2. InOrder(s, ret, par, rd)
        BY <2>1, <2>4, <3>1, Zenon
      <3>. QED  BY <2>3, <3>2, InOrderFaithful, Zenon
    <2>. QED  BY <1>2, <2>4, <2>5, Zenon DEF Faithful
  <1>. QED  BY <1>1, <1>4, <1>5

(* At first nothing was returned or cut.                                   *)
LEMMA InvariantInit ==
    ASSUME Init
    PROVE  IInv
  <1>1. TypeOK
    BY TypeInit
  <1>2. Fresh /\ Faithful
    <2>1. \A i \in 1..Len(<<>>) : FALSE
      OBVIOUS
    <2>. QED  BY <2>1, Zenon DEF Init, Fresh, Faithful
  <1>3. PICK s, none : s = stream /\ none = {}
    OBVIOUS
  <1>4. HasForm(s)
    BY <1>1, <1>3, StreamIs
  <1>5. /\ arrived = 0 /\ buffer = <<>> /\ raw = <<>> /\ length = none /\ doing = "idle" /\ read = 0
        /\ parsed = <<>> /\ size = 0 /\ state = "Any" /\ failed = FALSE /\ returned = <<>>
        /\ counted = 0
    BY <1>3 DEF Init
  <1>6. /\ Len(s.part) \in Nat /\ Len(s.piece) \in Nat /\ Len(s.units) \in Nat
        /\ s.first[1] = 0 /\ s.at[1] = 0
        /\ \A k \in 1..Len(s.part) + 1 : s.first[k] \in 0..Len(s.piece)
        /\ \A i \in 1..Len(s.piece) + 1 : s.at[i] \in 0..Len(s.units)
    BY <1>4, FormTypes
  <1>7. PICK zero \in Nat : zero = 0
    OBVIOUS
  <1>8. PICK e : e = <<>> /\ Len(e) = zero
    BY <1>7
  <1>9. Base = zero /\ Cut = zero /\ Len(returned) = zero
    <2>1. Len(<<>>) + 1 = 1 /\ 0 + Len(<<>>) = 0
      OBVIOUS
    <2>2. Base = 0
      BY <1>3, <1>5, <1>6, <2>1, Zenon DEF Base
    <2>3. Cut = 0
      BY <1>5, <2>1, <2>2, Zenon DEF Cut
    <2>. QED  BY <1>5, <1>7, <2>2, <2>3
  <1>10. Reached(s, zero)
    <2>1. ASSUME NEW k \in 1..Len(s.part)
          PROVE  ~ (s.first[k] < zero)
      <3>1. k \in 1..Len(s.part) + 1
        BY <1>6
      <3>. QED  BY <1>6, <1>7, <3>1
    <2>. QED  BY <2>1, Zenon DEF Reached
  <1>11. Pending(s, zero, zero, zero, none)
    <2>1. ASSUME NEW k \in zero + 1..Len(s.part)
          PROVE  ~ (s.first[k + 1] <= zero)
      <3>1. k \in 1..Len(s.part) /\ k \in 1..Len(s.part) + 1 /\ k + 1 \in 1..Len(s.part) + 1
        BY <1>6, <1>7
      <3>2. s.first[k] < s.first[k + 1]
        BY <1>4, <3>1, FirstStep
      <3>3. s.first[k] \in 0..Len(s.piece) /\ s.first[k + 1] \in 0..Len(s.piece)
        BY <1>6, <3>1
      <3>. QED  BY <1>6, <1>7, <3>2, <3>3
    <2>. QED  BY <2>1, Zenon DEF Pending
  <1>12. none = Due(s, zero)
    <2>1. ~ (zero > 0)
      BY <1>7
    <2>. QED  BY <1>3, <2>1, Zenon DEF Due
  <1>13. InOrder(s, e, e, zero)
    <2>1. Len(e) + Len(e) = zero /\ Len(e) = zero
      BY <1>7, <1>8
    <2>2. /\ zero <= Len(s.part) /\ (\A i \in 1..zero : FALSE) /\ ~ (zero > 0)
          /\ \A k \in zero + 1..zero - 1 : FALSE
      BY <1>6, <1>7
    <2>3. zero = s.first[zero + 1] - s.first[zero + 1]
      <3>1. zero + 1 = 1 /\ 0 - 0 = 0
        BY <1>7
      <3>. QED  BY <1>6, <1>7, <3>1, Zenon
    <2>. QED  BY <2>1, <2>2, <2>3, Zenon DEF InOrder
  <1>14. Held(s, zero, e)
    BY <1>6, <1>7, <1>8 DEF Held
  <1>15. Buffered(s, zero, e, zero, zero)
    <2>1. zero + 1 = 1 /\ zero + zero = 0 /\ 0 + zero = 0 /\ \A i \in 1..zero : FALSE
      BY <1>7
    <2>2. PICK x : x = s.at[zero + 1]
      OBVIOUS
    <2>3. x = 0
      BY <1>6, <2>1, <2>2, Zenon
    <2>4. zero + zero = x + zero
      BY <1>7, <2>3
    <2>5. zero + zero = s.at[zero + 1] + Len(e)
      BY <1>8, <2>2, <2>4, Zenon
    <2>6. \A i \in 1..Len(e) : FALSE
      <3>1. PICK n : n = Len(e)
        OBVIOUS
      <3>2. n = 0
        BY <1>7, <1>8, <3>1, Zenon
      <3>3. \A i \in 1..n : FALSE
        BY <3>2
      <3>. QED  BY <3>1, <3>3, Zenon
    <2>. QED  BY <2>5, <2>6, Zenon DEF Buffered
  <1>16. Skewed(s, none, zero, FALSE, zero)
    BY <1>7 DEF Skewed
  <1>17. Expecting(s, zero, "Any", FALSE)
    <2>1. \A k \in 1..zero : FALSE
      BY <1>7
    <2>. QED  BY <2>1 DEF Expecting
  <1>18. Starved(s, zero, zero, none, FALSE) \/ Lost(s, zero)
    <2>1. CASE zero = Len(s.piece)
      BY <2>1, Zenon DEF Starved
    <2>2. CASE zero # Len(s.piece)
      <3>1. zero < Len(s.piece) /\ zero <= Len(s.piece) /\ zero \in 0..Len(s.part)
        BY <1>6, <1>7, <2>2
      <3>2. PICK k \in 1..Len(s.part) : s.first[k] = zero
        BY <1>3, <1>4, <1>10, <1>12, <3>1, LineNext
      <3>3. CASE ~ WellFormed(s, k)
        <4>1. \A n \in none : ~ (n < -1)
          BY <1>3
        <4>2. Lost(s, zero)
          BY <1>4, <1>11, <3>1, <3>2, <3>3, <4>1, LineMalformed
        <4>. QED  BY <4>2
      <3>4. CASE WellFormed(s, k)
        <4>1. LineIn(s, LineOf(s, k), zero + 1)
          BY <1>4, <3>2, <3>4, LineAt
        <4>2. s.at[zero + 1 + 1] = s.at[zero + 1] + 3
          BY <4>1, Zenon DEF LineIn
        <4>3. zero + 1 = 1 /\ zero + 1 + 1 = zero + 2 /\ zero < 0 + 3
          BY <1>7
        <4>4. zero < s.at[zero + 2]
          BY <1>6, <4>2, <4>3, Zenon
        <4>. QED  BY <4>4, Zenon DEF Starved
      <3>. QED  BY <3>3, <3>4
    <2>. QED  BY <2>1, <2>2
  <1>19. Counting
    <2>1. /\ Base + 1 = 1 /\ Base + read + 1 = 1 /\ 0 - 0 = 0
      BY <1>5, <1>7, <1>9
    <2>. QED  BY <1>3, <1>5, <1>6, <2>1, Zenon DEF Counting
  <1>20. ASSUME Starved(s, zero, zero, none, FALSE)
         PROVE  Placed
    <2>1. zero \in {0, 2} /\ doing # "parsing"
      BY <1>5, <1>7
    <2>2. (IF doing = "parsing" THEN zero - 1 ELSE zero) = zero
      BY <2>1
    <2>3. /\ InOrder(stream, returned, parsed, read) /\ Held(stream, Base, raw)
          /\ Expecting(stream, Len(returned), state, failed)
          /\ Buffered(stream, arrived, buffer, Cut, zero) /\ Skewed(stream, length, Cut, failed, zero)
          /\ Starved(stream, arrived, Cut, length, failed)
      BY <1>3, <1>5, <1>7, <1>8, <1>9, <1>13, <1>14, <1>15, <1>16, <1>17, <1>20, Zenon
    <2>4. /\ Reached(stream, Cut) /\ length = Due(stream, Cut)
          /\ Pending(stream, Len(returned), Cut, IF doing = "parsing" THEN Cut - 1 ELSE Cut, length)
      BY <1>3, <1>5, <1>9, <1>10, <1>11, <1>12, <2>2, Zenon
    <2>. QED  BY <2>1, <2>3, <2>4, Zenon DEF Placed
  <1>. QED  BY <1>1, <1>2, <1>3, <1>9, <1>18, <1>19, <1>20, Zenon DEF IInv

(* Every step keeps the parser in its place, unless it is lost.            *)
LEMMA PlacedStep ==
    ASSUME TypeOK, Placed, Counting, [Next]_vars
    PROVE  (Placed' /\ Counting') \/ Lost(stream, Len(returned))
  <1>1. CASE Read
    <2>1. UNCHANGED <<stream, returned, read, size, counted, failed>>
      BY <1>1 DEF Read, control
    <2>. QED  BY <1>1, <2>1, ReadKeeps, CountingSame
  <1>2. CASE TryParse
    <2>1. UNCHANGED <<stream, returned, read, size, counted, failed>>
      BY <1>2, Zenon DEF TryParse, control
    <2>. QED  BY <1>2, <2>1, TryParseKeeps, CountingSame
  <1>3. CASE ParseLine \/ ParseArray
    BY <1>3, ParseLineKeeps
  <1>4. CASE ParseString
    BY <1>4, ParseStringKeeps
  <1>5. CASE ParseThrows
    BY <1>5, ParseThrowsNever
  <1>6. CASE UngetAll
    BY <1>6, UngetAllKeeps
  <1>7. CASE Return
    BY <1>7, ReturnKeeps
  <1>8. CASE AllParsed
    <2>1. UNCHANGED <<stream, returned, read, size, counted, failed>>
      BY <1>8 DEF AllParsed, control
    <2>. QED  BY <1>8, <2>1, AllParsedKeeps, CountingSame
  <1>9. CASE UNCHANGED vars
    <2>1. /\ UNCHANGED <<stream, arrived, buffer, raw, length, doing, read, parsed>>
          /\ UNCHANGED <<state, failed, returned>>
          /\ UNCHANGED <<size, counted>>
      BY <1>9 DEF vars, control
    <2>2. Base' = Base /\ Cut' = Cut
      BY <2>1 DEF Base, Cut
    <2>3. Placed'
      BY <2>1, <2>2, Zenon DEF Placed
    <2>. QED  BY <2>1, <2>3, CountingSame
  <1>. QED  BY <1>1, <1>2, <1>3, <1>4, <1>5, <1>6, <1>7, <1>8, <1>9, Zenon DEF Next, Parse

(* The invariant is inductive.                                             *)
LEMMA InvariantStep ==
    ASSUME IInv, [Next]_vars
    PROVE  IInv'
  <1>1. TypeOK /\ Fresh /\ Faithful /\ (Lost(stream, Len(returned)) \/ (Placed /\ Counting))
    BY Zenon DEF IInv
  <1>2. TypeOK' /\ Fresh'
    BY <1>1, TypeStep, FreshStep
  <1>3. Lost(stream, Len(returned)) \/ (Placed' /\ Counting')
    BY <1>1, PlacedStep
  <1>4. Faithful'
    BY <1>1, <1>2, <1>3, FaithfulStep
  <1>5. Lost(stream, Len(returned)) => Lost(stream', Len(returned'))
    <2>1. PICK s, a, b : s = stream /\ a = Len(returned) /\ b = Len(returned')
      OBVIOUS
    <2>2. stream' = s /\ a \in Nat /\ b \in Nat /\ a <= b
      BY <1>1, <2>1, ReturnedGrows
    <2>3. Lost(s, a) => Lost(s, b)
      BY <2>2, LostGrows
    <2>. QED  BY <2>1, <2>2, <2>3, Zenon
  <1>. QED  BY <1>2, <1>3, <1>4, <1>5, Zenon DEF IInv

(* The invariant: the parser met a malformed line, or what it returned, is *)
(* parsing, cut out and has not cut is the stream as it was written, in    *)
(* this order.                                                             *)
THEOREM InvariantCorrect == Spec => []IInv
  <1>. QED  BY InvariantInit, InvariantStep, PTL DEF Spec

(* However a stream is split, what listen is given are the messages that   *)
(* were written, in order, up to a message with a malformed line.          *)
THEOREM FaithfulCorrect == Spec => []Faithful
  <1>1. IInv => Faithful
    BY Zenon DEF IInv
  <1>. QED  BY <1>1, InvariantCorrect, PTL

-----------------------------------------------------------------------------
(* What follows from the invariant.                                        *)

(* What was cut does not hold back a message of a stream that is not       *)
(* spoiled.                                                                *)
LEMMA CutReturned ==
    ASSUME TypeOK, Placed, doing = "idle", NEW s, s = stream, NEW a, a = Len(returned),
           NEW cut, cut = Cut, NEW k \in a + 1..Len(s.part), s.part[k].left = 0,
           \A j \in 1..k : ~ Spoils(j), s.first[k + 1] <= cut
    PROVE  FALSE
  <1>1. PICK base : base = Base
    OBVIOUS
  <1>2. /\ HasForm(s) /\ cut \in Nat /\ cut <= Len(s.piece) /\ Len(s.part) \in Nat /\ a \in Nat
    <2>1. /\ HasForm(s) /\ cut \in base..Len(s.piece) /\ base \in 0..Len(s.piece)
          /\ Len(s.piece) \in Nat /\ Len(s.part) \in Nat /\ a \in 0..Len(s.part)
      BY <1>1, Bearings
    <2>. QED  BY <2>1
  <1>3. Pending(s, a, cut, cut, length) /\ Reached(s, cut) /\ length = Due(s, cut)
    <2>1. /\ Pending(s, a, cut, IF doing = "parsing" THEN cut - 1 ELSE cut, length)
          /\ Reached(s, cut) /\ length = Due(s, cut)
      BY <1>1, PlacedParts, Zenon
    <2>. QED  BY <2>1
  <1>4. PICK n \in length : n < -1 /\ s.first[k + 1] = cut
    BY <1>3, Zenon DEF Pending
  <1>5. PICK j \in 1..Len(s.part) :
            WellFormed(s, j) /\ s.first[j] + 1 = cut /\ LineOf(s, j).t = "$" /\ LineOf(s, j).n = n
    BY <1>2, <1>3, <1>4, TextNext
  <1>6. j \in 1..k
    <2>1. j \in 1..Len(s.part) + 1 /\ k + 1 \in 1..Len(s.part) + 1
      BY <1>2
    <2>2. s.first[j] \in 0..Len(s.piece) /\ Len(s.piece) \in Nat
      BY <1>2, <2>1, FormTypes
    <2>3. s.first[j] < s.first[k + 1]
      BY <1>4, <1>5, <2>2
    <2>4. j < k + 1
      BY <1>2, <2>1, <2>3, FirstOrder
    <2>. QED  BY <1>2, <2>4
  <1>7. n \in Int
    BY <1>4, StringIs
  <1>8. LineOf(s, j).n < 0
    BY <1>4, <1>5, <1>7
  <1>9. Spoils(j)
    BY <1>5, <1>8, Zenon DEF Spoils, LineOf
  <1>. QED  BY <1>6, <1>9

(* In its place, an idle parser has returned all that arrived whole.       *)
LEMMA PlacedNotWithheld ==
    ASSUME TypeOK, Placed, doing = "idle", NEW s, s = stream, NEW a, a = Len(returned),
           NEW k \in a + 1..Len(s.part), s.part[k].left = 0,
           \A j \in 1..k : ~ Spoils(j), s.at[s.first[k + 1] + 1] <= arrived
    PROVE  FALSE
  <1>1. PICK base, cut : base = Base /\ cut = Cut
    OBVIOUS
  <1>2. /\ HasForm(s) /\ cut \in Nat /\ cut <= Len(s.piece) /\ Len(s.part) \in Nat /\ a \in Nat
        /\ Len(s.piece) \in Nat /\ Len(s.units) \in Nat
    <2>1. /\ HasForm(s) /\ cut \in base..Len(s.piece) /\ base \in 0..Len(s.piece)
          /\ Len(s.piece) \in Nat /\ Len(s.part) \in Nat /\ a \in 0..Len(s.part)
          /\ Len(s.units) \in Nat
      BY <1>1, Bearings
    <2>. QED  BY <2>1
  <1>3. k \in 1..Len(s.part) /\ k \in 1..Len(s.part) + 1 /\ k + 1 \in 1..Len(s.part) + 1
    BY <1>2
  <1>4. s.first[k + 1] \in Nat /\ s.first[k + 1] <= Len(s.piece)
    <2>1. s.first[k + 1] \in 0..Len(s.piece)
      BY <1>2, <1>3, FormTypes
    <2>. QED  BY <1>2, <2>1
  <1>5. ~ (s.first[k + 1] <= cut)
    BY <1>1, CutReturned
  <1>6. /\ Starved(s, arrived, cut, length, failed) /\ Reached(s, cut) /\ length = Due(s, cut)
        /\ Expecting(s, a, state, failed)
    BY <1>1, PlacedParts
  <1>7. cut # Len(s.piece)
    BY <1>2, <1>4, <1>5
  <1>8. ~ (arrived < s.at[cut + 2])
    <2>1. cut + 2 \in 1..Len(s.piece) + 1 /\ s.first[k + 1] + 1 \in 1..Len(s.piece) + 1
          /\ cut + 2 <= s.first[k + 1] + 1
      BY <1>2, <1>4, <1>5, SMTT(30)
    <2>2. s.at[cut + 2] <= s.at[s.first[k + 1] + 1]
      BY <1>2, <2>1, AtIncreases
    <2>3. s.at[cut + 2] \in 0..Len(s.units) /\ s.at[s.first[k + 1] + 1] \in 0..Len(s.units)
      BY <1>2, <2>1, FormTypes
    <2>4. arrived \in Nat
      BY DEF TypeOK
    <2>. QED  BY <1>2, <2>2, <2>3, <2>4, SMTT(30)
  <1>9. ~ failed
    <2>. SUFFICES ASSUME failed
                  PROVE  FALSE
      OBVIOUS
    <2>1. PICK i \in 1..a : s.part[i].type = "SyncResponse"
      BY <1>6, Zenon DEF Expecting
    <2>2. i \in 1..k
      BY <1>2
    <2>3. Spoils(i)
      BY <2>1, Zenon DEF Spoils
    <2>. QED  BY <2>2, <2>3
  <1>10. PICK n \in length : n < 0
    BY <1>6, <1>7, <1>8, <1>9, Zenon DEF Starved
  <1>11. PICK j \in 1..Len(s.part) :
            WellFormed(s, j) /\ s.first[j] + 1 = cut /\ LineOf(s, j).t = "$" /\ LineOf(s, j).n = n
    BY <1>2, <1>6, <1>10, TextNext, SMTT(30)
  <1>12. j \in 1..k
    <2>1. j \in 1..Len(s.part) + 1
      BY <1>2
    <2>2. s.first[j] \in 0..Len(s.piece)
      BY <1>2, <2>1, FormTypes
    <2>3. s.first[j] < s.first[k + 1]
      BY <1>2, <1>4, <1>5, <1>11, <2>2
    <2>4. j < k + 1
      BY <1>2, <1>3, <2>1, <2>3, FirstOrder
    <2>. QED  BY <1>2, <2>4
  <1>13. Spoils(j)
    BY <1>10, <1>11, Zenon DEF Spoils, LineOf
  <1>. QED  BY <1>12, <1>13

(* The next message to return is spoiled when the parser is lost.          *)
LEMMA LostNotWithheld ==
    ASSUME NEW a \in Nat, Lost(stream, a), NEW k \in a + 1..Len(stream.part),
           stream.part[k].left = 0, \A j \in 1..k : ~ Spoils(j)
    PROVE  FALSE
  <1>1. PICK j \in 1..Len(stream.part) :
            ~ WellFormed(stream, j) /\ \A i \in a + 1..j - 1 : stream.part[i].left # 0
    BY DEF Lost
  <1>2. Spoils(j)
    BY <1>1, Zenon DEF Spoils
  <1>3. ~ (j <= k)
    BY <1>1, <1>2
  <1>4. k \in a + 1..j - 1
    BY <1>1, <1>3
  <1>. QED  BY <1>1, <1>4

(* A message is given to listen in the turn in which the last byte of it   *)
(* arrives, unless the stream was spoiled before.                          *)
THEOREM NothingWithheldCorrect == Spec => []NothingWithheld
  <1>1. ASSUME IInv
        PROVE  NothingWithheld
    <2>1. TypeOK /\ (Lost(stream, Len(returned)) \/ Placed)
      BY <1>1, Zenon DEF IInv
    <2>2. SUFFICES ASSUME doing = "idle", NEW k \in 1..Len(stream.part),
                          stream.part[k].left = 0, End(k) <= arrived, \A j \in 1..k : ~ Spoils(j),
                          ~ (k <= Len(returned))
                   PROVE  FALSE
      BY Zenon DEF NothingWithheld
    <2>3. PICK s, a : s = stream /\ a = Len(returned)
      OBVIOUS
    <2>4. a \in Nat
      BY <2>1, <2>3 DEF TypeOK
    <2>5. k \in a + 1..Len(s.part)
      BY <2>2, <2>3, <2>4
    <2>6. s.at[s.first[k + 1] + 1] <= arrived
      BY <2>2, <2>3, Zenon DEF End
    <2>7. CASE Lost(s, a)
      BY <2>2, <2>3, <2>4, <2>5, <2>7, LostNotWithheld
    <2>8. CASE Placed
      BY <2>1, <2>2, <2>3, <2>5, <2>6, <2>8, PlacedNotWithheld
    <2>. QED  BY <2>1, <2>3, <2>7, <2>8
  <1>. QED  BY <1>1, InvariantCorrect, PTL

(* Nothing that this program writes is malformed.                          *)
LEMMA ExactWellFormed ==
    ASSUME NEW s, HasForm(s), NEW k \in 1..Len(s.part), Pieces(s, k) = to_string(s.part[k])
    PROVE  WellFormed(s, k)
  <1>1. PICK z, m : z = to_string(s.part[k]) /\ m = s.part[k]
    OBVIOUS
  <1>2. PICK a, b : a = s.first[k] /\ b = s.first[k + 1]
    OBVIOUS
  <1>3. a \in 0..Len(s.piece) /\ b \in 0..Len(s.piece) /\ s.piece \in Seq(Piece) /\ m \in Part
    BY <1>1, <1>2, FormTypes
  <1>4. z = SubSeq(s.piece, a + 1, b)
    BY <1>1, <1>2, Zenon DEF Pieces
  <1>5. \E t \in {"+", "-", ":", "*", "$"} : \E n : z = <<Line(t, n)>> \/ (\E y : z = <<Line(t, n), y>>)
    BY <1>1, Zenon DEF to_string
  <1>6. PICK t \in {"+", "-", ":", "*", "$"} :
            \E n : z = <<Line(t, n)>> \/ (\E y : z = <<Line(t, n), y>>)
    BY <1>5
  <1>7. PICK n : z = <<Line(t, n)>> \/ (\E y : z = <<Line(t, n), y>>)
    BY <1>6
  <1>8. PICK x : x = Line(t, n)
    OBVIOUS
  <1>9. s.piece[a + 1] = x
    <2>1. CASE z = <<x>>
      BY <1>3, <1>4, <2>1, OnePiece
    <2>2. CASE \E y : z = <<x, y>>
      <3>1. PICK y : z = <<x, y>>
        BY <2>2
      <3>2. Len(z) = 2 /\ z[1] = x /\ z[2] = y
        BY <3>1
      <3>. QED  BY <1>3, <1>4, <3>2, TwoPieces
    <2>. QED  BY <1>7, <1>8, <2>1, <2>2, Zenon
  <1>10. x.text[1].ok = TRUE /\ x.text[1].t # "junk"
    BY <1>6, <1>8 DEF Line, Unit
  <1>. QED  BY <1>2, <1>9, <1>10, Zenon DEF WellFormed

(* The bytes counted are those of the stream up to the next message, and   *)
(* what arrived behind them is what was cut out and what is in the buffer. *)
THEOREM BytesCountedCorrect == Spec => []BytesCounted
  <1>1. ASSUME IInv
        PROVE  BytesCounted
    <2>1. PICK s, a, base, cut : s = stream /\ a = Len(returned) /\ base = Base /\ cut = Cut
      OBVIOUS
    <2>2. TypeOK /\ (Lost(s, a) \/ (Placed /\ Counting))
      BY <1>1, <2>1, Zenon DEF IInv
    <2>3. HasForm(s)
      BY <2>1, <2>2, StreamIs
    <2>4. SUFFICES ASSUME Exact(s), ~ failed
                   PROVE  /\ counted = s.at[base + 1]
                          /\ arrived = s.at[base + 1 + Len(raw)] + Len(buffer)
      BY <2>1, Zenon DEF BytesCounted, Exact, Base
    <2>5. ~ Lost(s, a)
      <3>1. \A k \in 1..Len(s.part) : WellFormed(s, k)
        BY <2>3, <2>4, ExactWellFormed DEF Exact
      <3>. QED  BY <3>1 DEF Lost
    <2>6. Placed /\ Counting
      BY <2>2, <2>5
    <2>7. counted = s.at[base + 1]
      BY <2>1, <2>4, <2>6, Zenon DEF Counting
    <2>8. PICK skew \in {0, 2} : Buffered(s, arrived, buffer, cut, skew)
                                   /\ Skewed(s, length, cut, failed, skew)
      BY <2>1, <2>6, PlacedParts
    <2>9. skew = 0
      BY <2>4, <2>8 DEF Skewed
    <2>10. arrived + 0 = s.at[cut + 1] + Len(buffer)
      BY <2>8, <2>9, Zenon DEF Buffered
    <2>11. base + 1 + Len(raw) = cut + 1
      <3>1. base \in 0..Len(s.piece) /\ Len(s.piece) \in Nat /\ Len(raw) \in Nat /\ cut = base + Len(raw)
        BY <2>1, <2>2, <2>6, Bearings
      <3>. QED  BY <3>1
    <2>12. arrived + 0 = arrived
      BY <2>2 DEF TypeOK
    <2>. QED  BY <2>7, <2>10, <2>11, <2>12, Zenon
  <1>. QED  BY <1>1, InvariantCorrect, PTL
=============================================================================
