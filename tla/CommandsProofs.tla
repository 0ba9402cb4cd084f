--------------------------- MODULE CommandsProofs ---------------------------
(***************************************************************************)
(* Theorems of Commands, for messages of any words and any length.         *)
(*                                                                         *)
(* The loops of SET and XREAD have the same shape of invariant: what is    *)
(* behind data_pos is of the grammar, and the option is the number read    *)
(* last.  So a loop that reaches the end, or STREAMS, has met a command of *)
(* the grammar, and where it throws the word it met cannot be part of one. *)
(***************************************************************************)
EXTENDS Commands, TLAPS

TypeOK ==
    /\ message \in Seq(WordForm)
    /\ data_pos \in 0..N
    /\ data_pos = 0 => option = <<>>
    /\ data_pos > 0 => HasLoop

(* What SET has read.                                                      *)
SetSoFar ==
    Names("set") /\ data_pos > 0 =>
        /\ data_pos <= 3 \/ data_pos % 2 = 1
        /\ \A i \in 1..data_pos : message[i].bulk
        /\ \A i \in 4..data_pos :
              IF i % 2 = 0 THEN message[i].text = "px" ELSE IsPositive(message[i])
        /\ option = IF data_pos > 3 THEN <<message[data_pos]>> ELSE <<>>

(* What XREAD has read.                                                    *)
XReadSoFar ==
    Names("xread") /\ data_pos > 0 =>
        /\ data_pos % 2 = 1
        /\ \A i \in 2..data_pos :
              IF i % 2 = 0 THEN message[i].bulk /\ message[i].text = "block"
              ELSE IsUInt(message[i])
        /\ option = IF data_pos > 1 THEN <<message[data_pos]>> ELSE <<>>

(* A message that was constructed is one of a command that is sent.        *)
IsSent ==
    constructed # <<>> => \E c \in Sent : constructed = <<c>> /\ message = construct(c)

(* A loop is in a message that arrived.                                    *)
Began == data_pos > 0 => Arrives

-----------------------------------------------------------------------------
(* What every step leaves alone.                                           *)

(* The message is never changed, and its outcome only once.                *)
LEMMA MessageStays ==
  ASSUME Next
  PROVE  message' = message /\ constructed' = constructed /\ outcome = Waiting
  BY DEF Next, Listen, ListenInLoop, NeverComplete, ParseKeyOrValue, ParseParam, EndSet,
         ParseBlock, ParseStreams, UnexpectedArg, EndXRead, Returns, GoesOn, Turn, End

(* A keyword that construct writes is a word.                              *)
LEMMA KeywordForm ==
  ASSUME NEW t \in Text
  PROVE  <<Upper(t)>> \in Seq(WordForm) /\ Upper(t) \in TextForm
         /\ Upper(t).bulk /\ Upper(t).text = t
  <1>1. Upper(t) = [bulk |-> TRUE, text |-> t, upper |-> TRUE, number |-> {}]
    BY DEF Upper, Word
  <1>2. Upper(t) \in WordForm /\ Upper(t) \in TextForm
    BY <1>1 DEF WordForm, TextForm
  <1>3. Upper(t).bulk /\ Upper(t).text = t
    BY <1>1
  <1> HIDE DEF Upper
  <1> QED BY <1>2, <1>3

(* What is sent is of the form it is constructed from.                     *)
LEMMA SentIs ==
  ASSUME NEW c \in Sent
  PROVE  /\ c.type \in {"ping", "replconf", "psync", "set"} /\ c.args \in Seq(TextForm)
         /\ c = [type |-> c.type, args |-> c.args]
         /\ \/ c.type = "ping" /\ c.args = <<>>
            \/ c.type # "ping" /\ Len(c.args) = 2
            \/ c.type = "set" /\ Len(c.args) = 3 /\ IsPositive(c.args[3])
  <1>1. c \in SentForm
    BY CommandsAssumption
  <1>2. c \in [type : {"ping", "replconf", "psync", "set"}, args : Seq(TextForm)]
    BY <1>1 DEF SentForm
  <1>3. \/ c.type = "ping" /\ c.args = <<>>
        \/ c.type # "ping" /\ Len(c.args) = 2
        \/ c.type = "set" /\ Len(c.args) = 3 /\ IsPositive(c.args[3])
    BY <1>1, Zenon DEF SentForm
  <1> QED BY <1>2, <1>3

(* Only the key and the value of a SET may be empty.                       *)
LEMMA SentEmpty ==
  ASSUME NEW c \in Sent, NEW i \in DOMAIN c.args, c.args[i].text = ""
  PROVE  c.type = "set" /\ i <= 2
  <1>1. c \in SentForm
    BY CommandsAssumption
  <1> QED BY <1>1, Zenon DEF SentForm

(* The words of constructed messages.                                      *)
LEMMA ConstructedWords ==
  ASSUME NEW c \in Sent
  PROVE  construct(c) \in Seq(WordForm)
  <1>0. c.type \in Text
    BY SentIs, CommandsAssumption
  <1>1. c.args \in Seq(TextForm) /\ \A w \in TextForm : w \in WordForm
    BY SentIs DEF TextForm, WordForm
  <1>2. c.args \in Seq(WordForm)
    BY <1>1
  <1>3. CASE c.type = "set" /\ Len(c.args) > 2
    <2>1. Len(c.args) = 3
      BY <1>3, SentIs
    <2>2. "set" \in Text /\ "px" \in Text
      BY CommandsAssumption
    <2>3. Upper("set") \in WordForm /\ Upper("px") \in WordForm
      BY <2>2, <1>1, KeywordForm
    <2>4. c.args[1] \in WordForm /\ c.args[2] \in WordForm /\ c.args[3] \in WordForm
      BY <2>1, <1>2
    <2>5. construct(c) = <<Upper("set"), c.args[1], c.args[2], Upper("px"), c.args[3]>>
      BY <1>3 DEF construct
    <2> HIDE DEF Upper
    <2> QED BY <2>3, <2>4, <2>5
  <1>4. CASE ~ (c.type = "set" /\ Len(c.args) > 2)
    <2>1. construct(c) = <<Upper(c.type)>> \o c.args
      BY <1>4 DEF construct
    <2>2. <<Upper(c.type)>> \in Seq(WordForm)
      BY <1>0, KeywordForm
    <2> QED BY <2>1, <2>2, <1>2
  <1> QED BY <1>3, <1>4

-----------------------------------------------------------------------------
(* Type correctness, and where a loop is.                                  *)

(* At first nothing was read.                                              *)
LEMMA TypeInit == Init => TypeOK /\ SetSoFar /\ XReadSoFar /\ IsSent
  <1> SUFFICES ASSUME Init PROVE TypeOK /\ SetSoFar /\ XReadSoFar /\ IsSent
    OBVIOUS
  <1>1. data_pos = 0 /\ option = <<>>
    BY DEF Init
  <1>2. CASE \E c \in Sent : constructed = <<c>> /\ message = construct(c)
    <2>1. message \in Seq(WordForm)
      BY <1>2, ConstructedWords
    <2> QED BY <1>1, <1>2, <2>1 DEF TypeOK, SetSoFar, XReadSoFar, IsSent, N
  <1>3. CASE constructed = <<>> /\ \E r \in Received : \E n \in 0..r.more :
               \E words \in [1..n -> r.words] : message = r.start \o words
    <2>1. PICK r \in Received : \E n \in 0..r.more :
                 \E words \in [1..n -> r.words] : message = r.start \o words
      BY <1>3
    <2>2. r.start \in Seq(WordForm) /\ r.words \subseteq WordForm /\ r.more \in Nat
      BY CommandsAssumption
    <2>3. PICK n \in 0..r.more : \E words \in [1..n -> r.words] : message = r.start \o words
      BY <2>1
    <2>4. PICK words \in [1..n -> r.words] : message = r.start \o words
      BY <2>3
    <2>5. n \in Nat /\ words \in [1..n -> WordForm]
      BY <2>2
    <2>6. words \in Seq(WordForm)
      BY <2>5
    <2>7. message \in Seq(WordForm)
      BY <2>2, <2>4, <2>6
    <2> QED BY <1>1, <1>3, <2>7 DEF TypeOK, SetSoFar, XReadSoFar, IsSent, N
  <1> QED BY <1>2, <1>3 DEF Init

(* The loops keep within the message.                                      *)
LEMMA TypeStep == TypeOK /\ [Next]_vars => TypeOK'
  <1> SUFFICES ASSUME TypeOK, [Next]_vars PROVE TypeOK'
    OBVIOUS
  <1>0. N \in Nat /\ data_pos \in 0..N
    BY DEF TypeOK, N
  <1>1. CASE UNCHANGED vars
    BY <1>1 DEF TypeOK, vars, N, HasLoop, Names
  <1>2. CASE data_pos' = data_pos /\ option' = option /\ Next
    BY <1>2, MessageStays DEF TypeOK, N, HasLoop, Names
  <1>3. CASE ListenInLoop
    <2>1. N >= 1
      BY <1>3, <1>0 DEF ListenInLoop, HasLoop, Names, TypeOK, N
    <2> QED BY <1>3, <1>0, <2>1 DEF ListenInLoop, HasLoop, Names, TypeOK, N
  <1>4. ASSUME NEW n \in {1, 2}, NEW met, GoesOn(n, met), data_pos + n <= N, HasLoop, data_pos > 0
        PROVE  TypeOK'
    BY <1>4, <1>0 DEF GoesOn, TypeOK, N, HasLoop, Names
  <1>5. CASE ParseKeyOrValue
    BY <1>5, <1>2, <1>4, <1>0 DEF ParseKeyOrValue, Turn, Returns, HasLoop, Next
  <1>6. CASE ParseParam
    BY <1>6, <1>2, <1>4, <1>0 DEF ParseParam, Turn, Returns, HasLoop, Next
  <1>7. CASE ParseBlock
    <2>1. HasLoop
      BY <1>7 DEF ParseBlock, Turn, TypeOK
    <2> QED BY <1>7, <2>1, <1>2, <1>4, <1>0 DEF ParseBlock, Turn, Returns, Next
  <1>8. CASE Listen \/ NeverComplete \/ EndSet \/ ParseStreams \/ UnexpectedArg \/ EndXRead
    BY <1>8, <1>2 DEF Next, Listen, NeverComplete, EndSet, ParseStreams, UnexpectedArg, EndXRead,
       Returns
  <1> QED BY <1>1, <1>3, <1>5, <1>6, <1>7, <1>8 DEF Next

(* What is sent stays so.                                                  *)
LEMMA SentStep == IsSent /\ [Next]_vars => IsSent'
  BY MessageStays DEF IsSent, vars

(* Only a message that arrives is listened to.                             *)
LEMMA BeganStep == TypeOK /\ Began /\ [Next]_vars => Began'
  <1> SUFFICES ASSUME TypeOK, Began, [Next]_vars PROVE Began'
    OBVIOUS
  <1>1. CASE UNCHANGED vars
    BY <1>1 DEF Began, Arrives, Framed, vars
  <1>2. CASE Next
    <2>1. Arrives' <=> Arrives
      BY <1>2, MessageStays DEF Arrives, Framed
    <2>2. data_pos' = data_pos \/ data_pos > 0 \/ ListenInLoop
      BY <1>2 DEF Next, Listen, NeverComplete, ParseKeyOrValue, ParseParam, EndSet, ParseBlock,
         ParseStreams, UnexpectedArg, EndXRead, Returns, Turn, End
    <2> QED BY <2>1, <2>2 DEF Began, ListenInLoop
  <1> QED BY <1>1, <1>2

(* Nothing but NeverComplete ends with Stuck.                              *)
LEMMA NotStuck ==
  ASSUME Next, Names("set"), ~ NeverComplete PROVE outcome' # Stuck
  <1>1. /\ Waiting # Stuck /\ Refused # Stuck /\ \A t, a : Parsed(t, a) # Stuck
    BY DEF Waiting, Refused, Stuck, Parsed
  <1>2. ~ Listen /\ ~ Names("xread")
    BY DEF Listen, HasLoop, Names
  <1>3. ~ (ParseBlock \/ ParseStreams \/ UnexpectedArg \/ EndXRead)
    BY <1>2 DEF ParseBlock, ParseStreams, UnexpectedArg, EndXRead, Turn, End
  <1> QED BY <1>1, <1>2, <1>3, MessageStays DEF Next, ListenInLoop, ParseKeyOrValue, ParseParam,
             EndSet, Returns, GoesOn

(* What is between the steps is a sequence of words and a place in it.     *)
LEMMA Place ==
  ASSUME TypeOK
  PROVE  N \in Nat /\ data_pos \in 0..N /\ DOMAIN message = 1..N /\ N = Len(message)
  BY DEF TypeOK, N

-----------------------------------------------------------------------------
(* SET.                                                                    *)

(* A step of another command, or to an outcome, leaves what was read.      *)
LEMMA SetStep == TypeOK /\ SetSoFar /\ [Next]_vars => SetSoFar'
  <1> SUFFICES ASSUME TypeOK, SetSoFar, [Next]_vars PROVE SetSoFar'
    OBVIOUS
  <1>0. N \in Nat /\ data_pos \in 0..N
    BY Place
  <1>1. CASE UNCHANGED <<message, data_pos, option>>
    BY <1>1 DEF SetSoFar, Names
  <1>2. CASE ~ Names("set") /\ message' = message
    BY <1>2 DEF SetSoFar, Names
  <1>3. CASE ListenInLoop
    BY <1>3 DEF ListenInLoop, SetSoFar, Names, TypeOK
  <1>4. CASE ParseKeyOrValue /\ data_pos' # data_pos
    <2>1. data_pos' = data_pos + 1 /\ option' = option /\ message' = message /\ Arg.bulk
          /\ Names("set") /\ data_pos \in 1..2
      BY <1>4, <1>0 DEF ParseKeyOrValue, Returns, GoesOn, Turn
    <2>2. option = <<>> /\ \A i \in 1..data_pos : message[i].bulk
      BY <2>1 DEF SetSoFar
    <2>3. \A i \in 1..data_pos + 1 : message[i].bulk
      BY <2>1, <2>2 DEF Arg
    <2> QED BY <2>1, <2>2, <2>3 DEF SetSoFar, Names
  <1>5. CASE ParseParam /\ data_pos' # data_pos
    <2>1. data_pos' = data_pos + 2 /\ option' = <<NextArg>> /\ message' = message
          /\ Arg.bulk /\ Arg.text = "px" /\ IsPositive(NextArg)
          /\ Names("set") /\ data_pos > 2
      BY <1>5, <1>0 DEF ParseParam, Returns, GoesOn, Turn
    <2>2. data_pos % 2 = 1 /\ \A i \in 1..data_pos : message[i].bulk
      BY <2>1, <1>0 DEF SetSoFar
    <2>3. \A i \in 1..data_pos + 2 : message[i].bulk
      BY <2>1, <2>2, <1>0 DEF Arg, NextArg, IsPositive, IsInt
    <2>4. \A i \in 4..data_pos + 2 :
              IF i % 2 = 0 THEN message[i].text = "px" ELSE IsPositive(message[i])
      <3>1. \A i \in 4..data_pos + 2 : i \in 4..data_pos \/ i = data_pos + 1 \/ i = data_pos + 2
        BY <1>0
      <3>2. (data_pos + 1) % 2 = 0 /\ (data_pos + 2) % 2 = 1
        BY <2>2, <1>0
      <3>3. ASSUME NEW i \in 4..data_pos
            PROVE  IF i % 2 = 0 THEN message[i].text = "px" ELSE IsPositive(message[i])
        BY <2>1, <1>0 DEF SetSoFar
      <3>4. message[data_pos + 1].text = "px" /\ IsPositive(message[data_pos + 2])
        BY <2>1 DEF Arg, NextArg
      <3> QED BY <3>1, <3>2, <3>3, <3>4
    <2>5. (data_pos + 2) % 2 = 1
      BY <2>2, <1>0
    <2> QED BY <2>1, <2>3, <2>4, <2>5, <1>0 DEF SetSoFar, Names, NextArg
  <1>6. CASE ParseBlock \/ ParseStreams \/ UnexpectedArg \/ EndXRead
    <2>1. ~ Names("set")
      BY <1>6 DEF ParseBlock, ParseStreams, UnexpectedArg, EndXRead, Turn, End, Names
    <2> QED BY <1>6, <2>1, <1>2, MessageStays DEF Next
  <1>7. CASE Listen \/ NeverComplete \/ EndSet
    BY <1>7, <1>1 DEF Listen, NeverComplete, EndSet, Returns
  <1>8. CASE (ParseKeyOrValue \/ ParseParam) /\ data_pos' = data_pos
    BY <1>8, <1>0, <1>1 DEF ParseKeyOrValue, ParseParam, Returns, GoesOn
  <1> QED BY <1>1, <1>3, <1>4, <1>5, <1>6, <1>7, <1>8 DEF Next, vars

(* The words from one place to the next but one.                           *)
LEMMA TwoWords ==
  ASSUME TypeOK, N >= 3
  PROVE  SubSeq(message, 2, 3) = <<message[2], message[3]>>
  <1>1. message \in Seq(WordForm) /\ Len(message) \in Nat /\ Len(message) >= 3
    BY Place DEF TypeOK
  <1> DEFINE s == SubSeq(message, 2, 3)
  <1>2. s \in Seq(WordForm) /\ Len(s) = 2
    BY <1>1
  <1>3. s[1] = message[2] /\ s[2] = message[3]
    BY <1>1
  <1> HIDE DEF s
  <1>4. s = <<message[2], message[3]>>
    BY <1>2, <1>3
  <1> QED BY <1>4 DEF s

(* Where SET returns or throws, its message is of the grammar or not.      *)
LEMMA SetGrammarStep == TypeOK /\ SetSoFar /\ SetGrammar /\ [Next]_vars => SetGrammar'
  <1> SUFFICES ASSUME TypeOK, SetSoFar, SetGrammar, [Next]_vars PROVE SetGrammar'
    OBVIOUS
  <1> DEFINE Form == /\ N >= 3 /\ N % 2 = 1 /\ AllBulk(message)
                     /\ \A i \in 4..N :
                           IF i % 2 = 0 THEN message[i].text = "px" ELSE IsPositive(message[i])
  <1>0. N \in Nat /\ data_pos \in 0..N /\ DOMAIN message = 1..N
    BY Place
  <1>1. CASE UNCHANGED vars
    BY <1>1 DEF SetGrammar, vars, Is, Names, Accepted, N, AllBulk
  <1>2. CASE outcome' = outcome /\ Next
    <2>1. outcome' = Waiting
      BY <1>2, MessageStays
    <2> QED BY <2>1 DEF SetGrammar, Is, Waiting
  <1>3. CASE Next /\ ~ Names("set")
    BY <1>3, MessageStays DEF SetGrammar, Is, Names
  <1>4. ASSUME Next, outcome' = Refused, ~ Form PROVE SetGrammar'
    <2>1. N' = N /\ message' = message
      BY <1>4, MessageStays DEF N
    <2>2. ~ Accepted'
      BY <1>4 DEF Accepted, Refused
    <2> QED BY <1>4, <2>1, <2>2 DEF SetGrammar, AllBulk
  <1>5. CASE Listen
    BY <1>5, <1>3 DEF Listen, HasLoop, Next
  <1>6. CASE ParseKeyOrValue /\ outcome' # outcome
    <2>1. outcome' = Refused /\ ~ Arg.bulk /\ data_pos + 1 \in 1..N
      BY <1>6, <1>0 DEF ParseKeyOrValue, Returns, GoesOn, Turn
    <2>2. ~ AllBulk(message)
      BY <2>1, <1>0 DEF AllBulk, Arg
    <2> QED BY <1>4, <1>6, <2>1, <2>2 DEF Next
  <1>7. CASE ParseParam /\ outcome' # outcome
    <2>1. outcome' = Refused /\ data_pos > 2 /\ data_pos < N /\ Names("set")
          /\ ~ (Arg.bulk /\ Arg.text = "px" /\ data_pos + 1 < N /\ IsPositive(NextArg))
      BY <1>7, <1>0 DEF ParseParam, Returns, GoesOn, Turn
    <2>2. data_pos % 2 = 1
      BY <2>1, <1>0 DEF SetSoFar
    <2>3. (data_pos + 1) % 2 = 0 /\ (data_pos + 2) % 2 = 1
          /\ data_pos + 1 \in 4..N /\ data_pos + 1 \in 1..N
      BY <2>1, <2>2, <1>0
    <2>4. CASE ~ Arg.bulk
      BY <2>4, <2>3, <1>0, <2>1, <1>4, <1>7 DEF AllBulk, Arg, Next
    <2>5. CASE Arg.text # "px"
      BY <2>5, <2>3, <2>1, <1>4, <1>7 DEF Arg, Next
    <2>6. CASE data_pos + 1 >= N
      <3>1. N = data_pos + 1
        BY <2>6, <2>1, <1>0
      <3> QED BY <3>1, <2>3, <2>1, <1>4, <1>7 DEF Next
    <2>7. CASE data_pos + 1 < N /\ ~ IsPositive(NextArg)
      <3>1. data_pos + 2 \in 4..N
        BY <2>7, <2>1, <1>0
      <3> QED BY <3>1, <2>7, <2>3, <2>1, <1>4, <1>7 DEF NextArg, Next
    <2> QED BY <2>1, <1>0, <2>4, <2>5, <2>6, <2>7
  <1>8. CASE EndSet
    <2>1. data_pos = N /\ Names("set") /\ data_pos > 0 /\ UNCHANGED <<message, data_pos, option>>
      BY <1>8, <1>0 DEF EndSet, End, Returns
    <2>2. CASE N < 3
      <3>1. outcome' = Refused
        BY <1>8, <2>2, <1>0 DEF EndSet, Returns
      <3> QED BY <3>1, <2>2, <1>0, <1>4, <1>8 DEF Next
    <2>3. CASE N >= 3
      <3>1. outcome' = Parsed("set", <<message[2], message[3]>> \o option)
        BY <1>8, <2>3 DEF EndSet, Returns
      <3>2. Accepted' /\ outcome'.command.args = <<message[2], message[3]>> \o option
        BY <3>1 DEF Accepted, Parsed
      <3>3. option = IF N > 3 THEN <<message[N]>> ELSE <<>>
        BY <2>1 DEF SetSoFar
      <3>4. outcome'.command.args = SubSeq(message, 2, 3) \o (IF N > 3 THEN <<message[N]>> ELSE <<>>)
        BY <3>2, <3>3, <2>3, TwoWords
      <3>5. N % 2 = 1
        BY <2>1, <2>3, <1>0 DEF SetSoFar
      <3>6. Form
        BY <2>1, <2>3, <3>5, <1>0 DEF SetSoFar, AllBulk
      <3>7. N' = N /\ message' = message
        BY <2>1 DEF N
      <3> QED BY <3>2, <3>4, <3>6, <3>7 DEF SetGrammar, AllBulk
    <2> QED BY <2>2, <2>3, <1>0
  <1>9. CASE ParseBlock \/ ParseStreams \/ UnexpectedArg \/ EndXRead
    <2>1. ~ Names("set")
      BY <1>9 DEF ParseBlock, ParseStreams, UnexpectedArg, EndXRead, Turn, End, Names
    <2> QED BY <1>9, <2>1, <1>3 DEF Next
  <1>10. CASE ListenInLoop
    BY <1>10, <1>2 DEF ListenInLoop, Next
  <1>11. CASE NeverComplete
    BY <1>11 DEF NeverComplete, Returns, SetGrammar, Is
  <1> QED BY <1>1, <1>2, <1>5, <1>6, <1>7, <1>8, <1>9, <1>10, <1>11 DEF Next

-----------------------------------------------------------------------------
(* XREAD.                                                                  *)

(* The loop stops behind whole pairs of BLOCK and its number.              *)
LEMMA XReadStep == TypeOK /\ XReadSoFar /\ [Next]_vars => XReadSoFar'
  <1> SUFFICES ASSUME TypeOK, XReadSoFar, [Next]_vars PROVE XReadSoFar'
    OBVIOUS
  <1>0. N \in Nat /\ data_pos \in 0..N
    BY Place
  <1>1. CASE UNCHANGED <<message, data_pos, option>>
    BY <1>1 DEF XReadSoFar, Names
  <1>2. CASE ~ Names("xread") /\ message' = message
    BY <1>2 DEF XReadSoFar, Names
  <1>3. CASE ListenInLoop
    BY <1>3 DEF ListenInLoop, XReadSoFar, Names, TypeOK
  <1>4. CASE ParseBlock /\ data_pos' # data_pos
    <2>1. data_pos' = data_pos + 2 /\ option' = <<NextArg>> /\ message' = message
          /\ Arg.bulk /\ Arg.text = "block" /\ IsUInt(NextArg)
          /\ Names("xread") /\ data_pos > 0
      BY <1>4, <1>0 DEF ParseBlock, Returns, GoesOn, Turn
    <2>2. data_pos % 2 = 1
      BY <2>1, <1>0 DEF XReadSoFar
    <2>3. (data_pos + 1) % 2 = 0 /\ (data_pos + 2) % 2 = 1
      BY <2>2, <1>0
    <2>4. \A i \in 2..data_pos + 2 :
              IF i % 2 = 0 THEN message[i].bulk /\ message[i].text = "block"
              ELSE IsUInt(message[i])
      <3>1. \A i \in 2..data_pos + 2 : i \in 2..data_pos \/ i = data_pos + 1 \/ i = data_pos + 2
        BY <1>0
      <3>2. ASSUME NEW i \in 2..data_pos
            PROVE  IF i % 2 = 0 THEN message[i].bulk /\ message[i].text = "block"
                   ELSE IsUInt(message[i])
        BY <2>1, <1>0 DEF XReadSoFar
      <3>3. /\ message[data_pos + 1].bulk /\ message[data_pos + 1].text = "block"
            /\ IsUInt(message[data_pos + 2])
        BY <2>1 DEF Arg, NextArg
      <3> QED BY <3>1, <3>2, <3>3, <2>3
    <2> QED BY <2>1, <2>3, <2>4, <1>0 DEF XReadSoFar, Names, NextArg
  <1>5. CASE ParseKeyOrValue \/ ParseParam \/ EndSet
    <2>1. ~ Names("xread")
      BY <1>5 DEF ParseKeyOrValue, ParseParam, EndSet, Turn, End, Names
    <2> QED BY <1>5, <2>1, <1>2, MessageStays DEF Next
  <1>6. CASE Listen \/ NeverComplete \/ ParseStreams \/ UnexpectedArg \/ EndXRead
    BY <1>6, <1>1 DEF Listen, NeverComplete, ParseStreams, UnexpectedArg, EndXRead, Returns
  <1>7. CASE ParseBlock /\ data_pos' = data_pos
    BY <1>7, <1>0, <1>1 DEF ParseBlock, Returns, GoesOn
  <1> QED BY <1>1, <1>3, <1>4, <1>5, <1>6, <1>7 DEF Next, vars

(* What XREAD has read is a number of BLOCK.                               *)
LEMMA BlocksRead ==
  ASSUME TypeOK, XReadSoFar, Names("xread"), data_pos > 0
  PROVE  /\ N >= 4
         /\ \E m \in Nat : data_pos = 2 * m + 1 /\ m \in 0..(N - 1) \div 2
               /\ Blocks(m) /\ option = Block(m)
  <1>0. N \in Nat /\ data_pos \in 1..N
    BY Place
  <1>1. N >= 4
    BY DEF TypeOK, HasLoop, Names
  <1>2. data_pos % 2 = 1
    BY DEF XReadSoFar
  <1>3. PICK m \in Nat : data_pos = 2 * m + 1
    <2>1. data_pos \div 2 \in Nat /\ data_pos = 2 * (data_pos \div 2) + 1
      BY <1>0, <1>2
    <2> QED BY <2>1
  <1>4. m <= (N - 1) \div 2
    BY <1>0, <1>3
  <1>5. Blocks(m)
    BY <1>3 DEF XReadSoFar, Blocks
  <1>6. option = Block(m)
    <2>1. option = IF 2 * m + 1 > 1 THEN <<message[2 * m + 1]>> ELSE <<>>
      BY <1>3 DEF XReadSoFar
    <2>2. 2 * m + 1 > 1 <=> m # 0
      OBVIOUS
    <2> QED BY <2>1, <2>2 DEF Block
  <1>7. m \in 0..(N - 1) \div 2
    BY <1>0, <1>4
  <1> QED BY <1>1, <1>3, <1>5, <1>6, <1>7

(* From where XREAD is, a message of the grammar goes on with STREAMS, the *)
(* end, or one more BLOCK.                                                 *)
LEMMA BlocksAhead ==
  ASSUME TypeOK, XReadSoFar, Names("xread"), data_pos > 0,
         NEW m \in Nat, data_pos = 2 * m + 1,
         NEW n \in 0..(N - 1) \div 2, Blocks(n), WithStreams(n) \/ N = 2 * n + 1
  PROVE  \/ n = m
         \/ Arg.bulk /\ Arg.text = "block" /\ data_pos + 1 < N /\ IsUInt(NextArg)
  <1>0. N \in Nat /\ data_pos \in 1..N /\ n \in Nat /\ 2 * n + 1 <= N
    <2>1. N \in Nat /\ data_pos \in 1..N
      BY Place
    <2>2. (N - 1) \div 2 \in Nat /\ 2 * ((N - 1) \div 2) <= N - 1
      BY <2>1
    <2> HIDE DEF N
    <2> QED BY <2>1, <2>2
  <1>1. CASE n < m
    <2>1. 2 * n + 2 \in 2..data_pos /\ (2 * n + 2) % 2 = 0
      BY <1>0, <1>1
    <2>2. message[2 * n + 2].text = "block"
      BY <2>1 DEF XReadSoFar
    <2>3. ~ WithStreams(n)
      BY <2>2 DEF WithStreams
    <2> QED BY <1>0, <1>1, <2>3
  <1>2. CASE n > m
    <2>1. /\ 2 * m + 2 \in 2..2 * n + 1 /\ 2 * m + 3 \in 2..2 * n + 1
          /\ (2 * m + 2) % 2 = 0 /\ (2 * m + 3) % 2 = 1
      BY <1>0, <1>2
    <2>2. /\ message[2 * m + 2].bulk /\ message[2 * m + 2].text = "block"
          /\ IsUInt(message[2 * m + 3])
      BY <2>1 DEF Blocks
    <2>3. data_pos + 1 = 2 * m + 2 /\ data_pos + 2 = 2 * m + 3 /\ data_pos + 1 < N
      BY <1>0, <1>2
    <2> QED BY <2>2, <2>3 DEF Arg, NextArg
  <1> QED BY <1>0, <1>1, <1>2

(* A message of which XREAD has read all BLOCK there are.                  *)
XReadForm(n) == Blocks(n) /\ (WithStreams(n) \/ (n >= 2 /\ N = 2 * n + 1))

(* Behind STREAMS there is one half of keys and one of ids, or not.        *)
LEMMA StreamsRead ==
  ASSUME TypeOK, ParseStreams, NEW m \in Nat, data_pos = 2 * m + 1
  PROVE  outcome' = IF WithStreams(m) THEN Parsed("xread", <<option, Request(m)>>) ELSE Refused
  <1> DEFINE rest == N - data_pos - 1
             n    == rest \div 2
             keys == SubSeq(message, data_pos + 2, data_pos + 1 + n)
             ids  == SubSeq(message, data_pos + 2 + n, data_pos + 1 + 2 * n)
             good == rest >= 2 /\ rest % 2 = 0 /\ AllBulk(keys) /\ \A j \in 1..n : IsReadId(ids[j])
  <1>1. N \in Nat /\ data_pos \in 1..N /\ data_pos < N /\ Arg.bulk /\ Arg.text = "streams"
    BY Place DEF ParseStreams, Turn
  <1>2. outcome' = IF good THEN Parsed("xread", <<option, [j \in 1..n |-> <<keys[j], ids[j]>>]>>)
                   ELSE Refused
    BY DEF ParseStreams, Returns
  <1>3. rest = N - 2 * m - 2 /\ n = Keys(m)
    BY <1>1 DEF Keys
  <1>4. rest \in Nat /\ n \in Nat /\ 2 * n <= rest /\ data_pos + 1 + 2 * n <= N
    BY <1>1
  <1>5. message \in Seq(WordForm) /\ Len(message) = N
    BY DEF TypeOK, N
  <1>6. keys \in Seq(WordForm) /\ Len(keys) = n /\ \A j \in 1..n : keys[j] = message[2 * m + 2 + j]
    <2>1. \A j \in 1..n : data_pos + 1 + j = 2 * m + 2 + j /\ data_pos + 1 + j \in 1..N
      BY <1>1, <1>4
    <2>2. keys \in Seq(WordForm) /\ Len(keys) = n
      BY <1>1, <1>4, <1>5
    <2>3. \A j \in 1..n : keys[j] = message[data_pos + 1 + j]
      BY <1>1, <1>4, <1>5
    <2> QED BY <2>1, <2>2, <2>3
  <1>7. Len(ids) = n /\ \A j \in 1..n : ids[j] = message[2 * m + 2 + n + j]
    <2>1. \A j \in 1..n : data_pos + 1 + n + j = 2 * m + 2 + n + j
      BY <1>1, <1>4
    <2>2. Len(ids) = n
      BY <1>1, <1>4, <1>5
    <2>3. \A j \in 1..n : ids[j] = message[data_pos + 1 + n + j]
      BY <1>1, <1>4, <1>5
    <2> QED BY <2>1, <2>2, <2>3
  <1>8. AllBulk(keys) <=> \A j \in 1..n : message[2 * m + 2 + j].bulk
    <2>1. DOMAIN keys = 1..n
      BY <1>6
    <2> HIDE DEF keys, n
    <2> QED BY <2>1, <1>6 DEF AllBulk
  <1>9. (rest >= 2 /\ rest % 2 = 0) <=> (N % 2 = 0 /\ n >= 1)
    BY <1>1, <1>3, <1>4
  <1>10. message[2 * m + 2].bulk /\ message[2 * m + 2].text = "streams" /\ 2 * m + 2 <= N
    <2>1. data_pos + 1 = 2 * m + 2
      BY <1>1
    <2> QED BY <2>1, <1>1 DEF Arg
  <1>11. good <=> WithStreams(m)
    <2> HIDE DEF keys, n, ids, rest
    <2> QED BY <1>3, <1>7, <1>8, <1>9, <1>10 DEF WithStreams
  <1>12. [j \in 1..n |-> <<keys[j], ids[j]>>] = Request(m)
    <2> HIDE DEF keys, n, ids, rest
    <2> QED BY <1>3, <1>6, <1>7 DEF Request
  <1> HIDE DEF good, keys, n, ids, rest
  <1> QED BY <1>2, <1>11, <1>12

(* Where XREAD returns or throws, its message is of the grammar or not.    *)
LEMMA XReadGrammarStep == TypeOK /\ XReadSoFar /\ XReadGrammar /\ [Next]_vars => XReadGrammar'
  <1> SUFFICES ASSUME TypeOK, XReadSoFar, XReadGrammar, [Next]_vars PROVE XReadGrammar'
    OBVIOUS
  <1>0. N \in Nat /\ data_pos \in 0..N
    BY Place
  <1>1. CASE UNCHANGED vars
    BY <1>1 DEF XReadGrammar, vars, Is, Names, Accepted, N, Blocks, Block, WithStreams, Keys, Request
  <1>2. CASE outcome' = outcome /\ Next
    <2>1. outcome' = Waiting
      BY <1>2, MessageStays
    <2> QED BY <2>1 DEF XReadGrammar, Is, Waiting
  <1>3. CASE Next /\ ~ Names("xread")
    BY <1>3, MessageStays DEF XReadGrammar, Is, Names
  <1>4. ASSUME Next
        PROVE  /\ N' = N
               /\ \A n \in 0..(N - 1) \div 2 :
                     /\ Blocks(n)' = Blocks(n) /\ WithStreams(n)' = WithStreams(n)
                     /\ Block(n)' = Block(n) /\ Request(n)' = Request(n)
    BY <1>4, MessageStays DEF N, Blocks, Block, WithStreams, Keys, Request
  <1>5. ASSUME Next, outcome' = Refused,
               \A n \in 0..(N - 1) \div 2 : ~ XReadForm(n)
        PROVE  XReadGrammar'
    <2>1. ~ Accepted'
      BY <1>5 DEF Accepted, Refused
    <2> QED BY <1>4, <1>5, <2>1 DEF XReadGrammar, XReadForm
  <1>6. CASE Listen /\ Names("xread")
    <2>1. N < 4
      BY <1>6, <1>0 DEF Listen, HasLoop
    <2>2. outcome' = Refused
      <3>1. message # <<>> /\ message[1].bulk /\ message[1].text = "xread"
        BY <1>6 DEF Names
      <3>2. try_parse(message) = Refused
        BY <3>1 DEF try_parse
      <3> QED BY <3>2, <1>6 DEF Listen, Returns, Refused
    <2>3. ASSUME NEW n \in 0..(N - 1) \div 2 PROVE ~ XReadForm(n)
      <3>1. n \in Nat /\ (N - 1) \div 2 <= 1
        BY <2>1, <1>0
      <3>2. ~ WithStreams(n)
        <4>1. SUFFICES ASSUME 2 * n + 2 <= N, N % 2 = 0, (N - 2 * n - 2) \div 2 >= 1 PROVE FALSE
          BY DEF WithStreams, Keys
        <4> QED BY <4>1, <2>1, <1>0, <3>1
      <3> QED BY <3>1, <3>2, <2>1, <1>0 DEF XReadForm
    <2> QED BY <1>5, <1>6, <2>2, <2>3 DEF Next
  <1>7. CASE ParseBlock /\ outcome' # outcome
    <2>1. /\ outcome' = Refused /\ Names("xread") /\ data_pos > 0 /\ data_pos < N
          /\ Arg.text = "block" /\ ~ (data_pos + 1 < N /\ IsUInt(NextArg))
      BY <1>7, <1>0 DEF ParseBlock, Returns, GoesOn, Turn
    <2>2. PICK m \in Nat : data_pos = 2 * m + 1
      BY <2>1, BlocksRead
    <2>3. message[2 * m + 2].text = "block" /\ N # 2 * m + 1
      BY <2>1, <2>2, <1>0 DEF Arg
    <2>4. ASSUME NEW n \in 0..(N - 1) \div 2 PROVE ~ XReadForm(n)
      BY <2>1, <2>2, <2>3, BlocksAhead DEF XReadForm, WithStreams
    <2> QED BY <1>5, <1>7, <2>1, <2>4 DEF Next
  <1>8. CASE UnexpectedArg
    <2>1. /\ outcome' = Refused /\ Names("xread") /\ data_pos > 0 /\ data_pos < N
          /\ ~ (Arg.bulk /\ Arg.text \in {"block", "streams"})
      BY <1>8, <1>0 DEF UnexpectedArg, Returns, Turn
    <2>2. PICK m \in Nat : data_pos = 2 * m + 1
      BY <2>1, BlocksRead
    <2>3. ~ (message[2 * m + 2].bulk /\ message[2 * m + 2].text = "streams") /\ N # 2 * m + 1
      BY <2>1, <2>2, <1>0 DEF Arg
    <2>4. ASSUME NEW n \in 0..(N - 1) \div 2 PROVE ~ XReadForm(n)
      BY <2>1, <2>2, <2>3, BlocksAhead DEF XReadForm, WithStreams
    <2> QED BY <1>5, <1>8, <2>1, <2>4 DEF Next
  <1>9. CASE ParseStreams
    <2>1. Names("xread") /\ data_pos > 0 /\ data_pos < N /\ Arg.text = "streams"
      BY <1>9, <1>0 DEF ParseStreams, Turn
    <2>2. PICK m \in Nat : /\ data_pos = 2 * m + 1 /\ m \in 0..(N - 1) \div 2
                           /\ Blocks(m) /\ option = Block(m)
      BY <2>1, BlocksRead
    <2>3. ASSUME NEW n \in 0..(N - 1) \div 2, Blocks(n), WithStreams(n) \/ N = 2 * n + 1
          PROVE  n = m /\ WithStreams(m)
      <3>1. n = m
        BY <2>1, <2>2, <2>3, BlocksAhead
      <3>2. N # 2 * m + 1
        BY <2>1, <2>2, <1>0
      <3> QED BY <2>3, <3>1, <3>2
    <2>4. outcome' = IF WithStreams(m) THEN Parsed("xread", <<option, Request(m)>>) ELSE Refused
      BY <1>9, <2>2, StreamsRead
    <2>5. CASE ~ WithStreams(m)
      BY <2>3, <2>4, <2>5, <1>5, <1>9 DEF Next, XReadForm
    <2>6. CASE WithStreams(m)
      <3>1. Accepted' /\ outcome'.command.args = <<Block(m), Request(m)>>
        BY <2>2, <2>4, <2>6 DEF Accepted, Parsed
      <3> QED BY <2>2, <2>3, <2>6, <3>1, <1>4, <1>9 DEF Next, XReadGrammar
    <2> QED BY <2>5, <2>6
  <1>10. CASE EndXRead
    <2>1. Names("xread") /\ data_pos > 0 /\ data_pos = N /\ Accepted'
      BY <1>10, <1>0 DEF EndXRead, End, Returns, Accepted, Parsed
    <2>2. N >= 4
      BY <2>1, BlocksRead
    <2>3. PICK m \in Nat : data_pos = 2 * m + 1 /\ m \in 0..(N - 1) \div 2 /\ Blocks(m)
      BY <2>1, BlocksRead
    <2>4. m >= 2 /\ N = 2 * m + 1
      BY <2>1, <2>2, <2>3
    <2>5. ASSUME NEW n \in 0..(N - 1) \div 2, Blocks(n), WithStreams(n) PROVE FALSE
      <3>1. n = m
        BY <2>1, <2>3, <2>5, BlocksAhead
      <3> QED BY <3>1, <2>4, <2>5 DEF WithStreams
    <2> QED BY <2>1, <2>3, <2>4, <2>5, <1>4, <1>10 DEF Next, XReadGrammar
  <1>11. CASE ParseKeyOrValue \/ ParseParam \/ EndSet
    <2>1. ~ Names("xread")
      BY <1>11 DEF ParseKeyOrValue, ParseParam, EndSet, Turn, End, Names
    <2> QED BY <1>11, <2>1, <1>3 DEF Next
  <1>12. CASE ListenInLoop
    BY <1>12, <1>2 DEF ListenInLoop, Next
  <1>13. CASE NeverComplete
    BY <1>13 DEF NeverComplete, Returns, XReadGrammar, Is
  <1> QED BY <1>1, <1>2, <1>3, <1>6, <1>7, <1>8, <1>9, <1>10, <1>11, <1>12, <1>13 DEF Next

-----------------------------------------------------------------------------
(* What this program sends.                                                *)

(* The words of a message that is constructed from a keyword and args.     *)
LEMMA ConstructedFrom ==
  ASSUME NEW c \in Sent, ~ (c.type = "set" /\ Len(c.args) > 2)
  PROVE  /\ construct(c)[1] = Upper(c.type) /\ Len(construct(c)) = Len(c.args) + 1
         /\ \A i \in 1..Len(c.args) : construct(c)[i + 1] = c.args[i]
         /\ Tail(construct(c)) = c.args
  <1>1. construct(c) = <<Upper(c.type)>> \o c.args
    BY DEF construct
  <1>2. c.args \in Seq(TextForm) /\ c.type \in Text
    BY SentIs, CommandsAssumption
  <1>3. Upper(c.type) \in TextForm
    BY <1>2, KeywordForm
  <1>4. ASSUME NEW w \in TextForm, NEW s \in Seq(TextForm)
        PROVE  /\ (<<w>> \o s)[1] = w /\ Len(<<w>> \o s) = Len(s) + 1
               /\ \A i \in 1..Len(s) : (<<w>> \o s)[i + 1] = s[i]
               /\ Tail(<<w>> \o s) = s
    OBVIOUS
  <1> HIDE DEF Upper
  <1> QED BY <1>1, <1>2, <1>3, <1>4

(* A SET with a duration.                                                  *)
LEMMA ConstructedSetPx ==
  ASSUME NEW c \in Sent, c.type = "set", Len(c.args) > 2
  PROVE  /\ Len(construct(c)) = 5 /\ Len(c.args) = 3 /\ IsPositive(c.args[3])
         /\ construct(c)[1] = Upper("set") /\ construct(c)[2] = c.args[1]
         /\ construct(c)[3] = c.args[2] /\ construct(c)[4] = Upper("px")
         /\ construct(c)[5] = c.args[3]
  <1>1. construct(c) = <<Upper("set"), c.args[1], c.args[2], Upper("px"), c.args[3]>>
    BY DEF construct
  <1>2. Len(c.args) # 2 /\ c.type # "ping"
    <2>1. \A n \in Nat : n > 2 => n # 2
      OBVIOUS
    <2>2. Len(c.args) \in Nat
      BY SentIs
    <2> QED BY <2>1, <2>2
  <1>3. Len(c.args) = 3 /\ IsPositive(c.args[3])
    BY <1>2, SentIs, Zenon
  <1> HIDE DEF Upper
  <1> QED BY <1>1, <1>3

(* A SET that is sent is of the grammar of SET.                            *)
LEMMA SentSet ==
  ASSUME TypeOK, NEW c \in Sent, c.type = "set", message = construct(c)
  PROVE  /\ Names("set") /\ N >= 3 /\ N % 2 = 1 /\ AllBulk(message)
         /\ \A i \in 4..N : IF i % 2 = 0 THEN message[i].text = "px" ELSE IsPositive(message[i])
         /\ SubSeq(message, 2, 3) \o (IF N > 3 THEN <<message[N]>> ELSE <<>>) = c.args
  <1>1. /\ "set" \in Text /\ "px" \in Text
        /\ c.args \in Seq(TextForm) /\ \A w \in TextForm : w.bulk
    BY SentIs, CommandsAssumption DEF TextForm
  <1>2. /\ Upper("set").bulk /\ Upper("set").text = "set"
        /\ Upper("px").bulk /\ Upper("px").text = "px"
    BY <1>1, KeywordForm
  <1>3. CASE Len(c.args) > 2
    <2>1. /\ N = 5 /\ Len(c.args) = 3 /\ IsPositive(c.args[3])
          /\ message[1] = Upper("set") /\ message[2] = c.args[1] /\ message[3] = c.args[2]
          /\ message[4] = Upper("px") /\ message[5] = c.args[3]
      BY <1>3, ConstructedSetPx DEF N
    <2>2. c.args[1].bulk /\ c.args[2].bulk /\ c.args[3].bulk
      BY <1>1, <2>1
    <2>3. DOMAIN message = 1..5 /\ \A i \in 1..5 : i \in {1, 2, 3, 4, 5}
      BY <2>1, Place
    <2>4. AllBulk(message)
      <3> HIDE DEF Upper
      <3> QED BY <1>2, <2>1, <2>2, <2>3 DEF AllBulk
    <2>5. \A i \in 4..N : IF i % 2 = 0 THEN message[i].text = "px" ELSE IsPositive(message[i])
      <3>1. \A i \in 4..N : i = 4 \/ i = 5
        BY <2>1
      <3>2. message[4].text = "px" /\ IsPositive(message[5])
        BY <2>1, <1>2
      <3>3. 4 % 2 = 0 /\ 5 % 2 = 1
        OBVIOUS
      <3> QED BY <3>1, <3>2, <3>3
    <2>6. SubSeq(message, 2, 3) = <<c.args[1], c.args[2]>>
      BY <2>1, TwoWords
    <2>7. <<c.args[1], c.args[2]>> \o <<c.args[3]>> = c.args
      BY <1>1, <2>1
    <2>8. N > 3 /\ N % 2 = 1 /\ message[N] = c.args[3] /\ N >= 3
      BY <2>1
    <2>9. Names("set")
      <3>1. message # <<>>
        BY <2>1 DEF N
      <3> QED BY <3>1, <2>1, <1>2 DEF Names
    <2> QED BY <2>4, <2>5, <2>6, <2>7, <2>8, <2>9
  <1>4. CASE ~ (Len(c.args) > 2)
    <2>1. Len(c.args) = 2
      BY <1>4, SentIs
    <2>2. /\ message[1] = Upper("set") /\ Len(message) = Len(c.args) + 1
          /\ \A i \in 1..Len(c.args) : message[i + 1] = c.args[i]
      BY <1>4, ConstructedFrom
    <2>3. N = 3 /\ message[2] = c.args[1] /\ message[3] = c.args[2]
      <3>1. N = 3
        BY <2>1, <2>2 DEF N
      <3>2. message[1 + 1] = c.args[1] /\ message[2 + 1] = c.args[2]
        <4>1. 1 \in 1..Len(c.args) /\ 2 \in 1..Len(c.args)
          BY <2>1
        <4> QED BY <2>2, <4>1
      <3> QED BY <3>1, <3>2
    <2>4. c.args[1].bulk /\ c.args[2].bulk
      BY <1>1, <2>1
    <2>5. DOMAIN message = 1..3 /\ \A i \in 1..3 : i \in {1, 2, 3}
      BY <2>3, Place
    <2>6. AllBulk(message)
      <3> HIDE DEF Upper
      <3> QED BY <1>2, <2>2, <2>3, <2>4, <2>5 DEF AllBulk
    <2>7. SubSeq(message, 2, 3) = <<c.args[1], c.args[2]>>
      BY <2>3, TwoWords
    <2>8. <<c.args[1], c.args[2]>> \o <<>> = c.args
      BY <1>1, <2>1
    <2>9. Names("set")
      <3>1. message # <<>>
        BY <2>3 DEF N
      <3> QED BY <3>1, <2>2, <1>2 DEF Names
    <2>10. ~ (N > 3) /\ N >= 3 /\ N % 2 = 1 /\ 4..N = {}
      BY <2>3
    <2> QED BY <2>6, <2>7, <2>8, <2>9, <2>10
  <1> QED BY <1>3, <1>4

(* Every other command that is sent is parsed by its words.                *)
LEMMA SentOther ==
  ASSUME TypeOK, NEW c \in Sent, c.type # "set", message = construct(c)
  PROVE  /\ ~ HasLoop /\ try_parse(message) = Parsed(c.type, c.args)
         /\ c.type = "replconf" => ReadsConf(c.args)
  <1>1. /\ c.type \in {"ping", "replconf", "psync"} /\ c.type \in Text
        /\ c.args \in Seq(TextForm) /\ \A w \in TextForm : w.bulk
    BY SentIs, CommandsAssumption DEF TextForm
  <1>2. Upper(c.type).bulk /\ Upper(c.type).text = c.type
    BY <1>1, KeywordForm
  <1>3. message[1] = Upper(c.type) /\ Len(message) = Len(c.args) + 1 /\ Tail(message) = c.args
    BY ConstructedFrom
  <1>4. message # <<>> /\ message[1].bulk /\ message[1].text = c.type
    BY <1>1, <1>2, <1>3
  <1>5. ~ HasLoop
    BY <1>1, <1>4 DEF HasLoop, Names
  <1>6. CASE c.type = "ping"
    <2>1. c.args = <<>>
      BY <1>6, SentIs
    <2> QED BY <1>4, <1>5, <1>6, <2>1 DEF try_parse
  <1>7. CASE c.type # "ping"
    <2>1. AllBulk(c.args)
      BY <1>1 DEF AllBulk
    <2>2. try_parse(message) = ParseAll(c.type, message)
      BY <1>1, <1>4, <1>7 DEF try_parse
    <2>3. try_parse(message) = Parsed(c.type, c.args)
      BY <2>1, <2>2, <1>3 DEF ParseAll, Args
    <2>4. Len(c.args) = 2
      BY <1>7, SentIs
    <2>5. ReadsConf(c.args)
      BY <2>4 DEF ReadsConf
    <2> QED BY <1>5, <2>3, <2>5
  <1> QED BY <1>6, <1>7

(* A message is framed unless an empty word comes before its last one.     *)
LEMMA FramedIs ==
  ASSUME TypeOK, NEW c \in Sent, message = construct(c)
  PROVE  (Framed(message) <=> ~ HasHole(c)) /\ (HasHole(c) => c.type = "set")
  <1>0. DOMAIN c.args = 1..Len(c.args) /\ Len(c.args) \in Nat
    BY SentIs
  <1>1. /\ "set" \in Text /\ "px" \in Text /\ c.type \in Text
        /\ c.type \in {"ping", "replconf", "psync", "set"}
    BY SentIs, CommandsAssumption
  <1>2. /\ Upper("set").text = "set" /\ Upper("px").text = "px"
        /\ Upper(c.type).text = c.type /\ c.type # ""
    BY <1>1, KeywordForm
  <1>3. HasHole(c) => c.type = "set"
    BY SentEmpty DEF HasHole
  <1>4. DOMAIN message = 1..N /\ N = Len(message)
    BY Place
  <1>5. CASE c.type = "set" /\ Len(c.args) > 2
    <2>1. /\ N = 5 /\ Len(c.args) = 3
          /\ message[1] = Upper("set") /\ message[2] = c.args[1] /\ message[3] = c.args[2]
          /\ message[4] = Upper("px") /\ message[5] = c.args[3]
          /\ c.args[3].text # ""
      <3>1. /\ N = 5 /\ Len(c.args) = 3
            /\ message[1] = Upper("set") /\ message[2] = c.args[1] /\ message[3] = c.args[2]
            /\ message[4] = Upper("px") /\ message[5] = c.args[3]
        BY <1>5, ConstructedSetPx DEF N
      <3>2. 3 \in DOMAIN c.args /\ ~ (3 <= 2)
        BY <1>0, <3>1
      <3> QED BY <3>1, <3>2, SentEmpty
    <2>2. /\ \A i \in 1..5 : i \in {1, 2, 3, 4, 5}
          /\ 2 \in 1..5 /\ 3 \in 1..5 /\ 2 # 5 /\ 3 # 5
      OBVIOUS
    <2>3. Framed(message) <=> c.args[1].text # "" /\ c.args[2].text # ""
      <3>1. Framed(message) <=> \A i \in 1..5 : message[i].text = "" => i = 5
        BY <1>4, <2>1 DEF Framed
      <3>2. message[1].text = "set" /\ message[4].text = "px" /\ message[5].text # ""
        BY <1>2, <2>1
      <3>3. message[2].text = c.args[1].text /\ message[3].text = c.args[2].text
        BY <2>1
      <3>4. "set" # "" /\ "px" # ""
        OBVIOUS
      <3> QED BY <2>2, <3>1, <3>2, <3>3, <3>4
    <2>4. HasHole(c) <=> c.args[1].text = "" \/ c.args[2].text = ""
      <3>0. Len(c.args) = 3
        BY <2>1
      <3>1. DOMAIN c.args = 1..3
        BY <1>0, <3>0
      <3>2. /\ 1 \in 1..3 /\ 2 \in 1..3 /\ 1 < 3 /\ 2 < 3
            /\ \A i \in 1..3 : i < 3 => i = 1 \/ i = 2
        OBVIOUS
      <3>3. HasHole(c) <=> \E i \in 1..3 : c.args[i].text = "" /\ i < 3
        BY <3>0, <3>1 DEF HasHole
      <3> QED BY <3>2, <3>3
    <2> QED BY <1>3, <2>3, <2>4
  <1>6. CASE ~ (c.type = "set" /\ Len(c.args) > 2)
    <2>1. /\ message[1] = Upper(c.type) /\ N = Len(c.args) + 1
          /\ \A i \in 1..Len(c.args) : message[i + 1] = c.args[i]
      BY <1>6, ConstructedFrom DEF N
    <2>2. \A i \in 1..N : i = 1 \/ (i - 1 \in 1..Len(c.args) /\ i = (i - 1) + 1)
      BY <1>0, <2>1
    <2>3. ASSUME HasHole(c) PROVE ~ Framed(message)
      <3>1. PICK i \in 1..Len(c.args) : c.args[i].text = "" /\ i < Len(c.args)
        BY <1>0, <2>3 DEF HasHole
      <3>2. i + 1 \in 1..N /\ i + 1 # N
        <4>1. \A n \in Nat : i \in 1..n /\ i < n => i + 1 \in 1..n + 1 /\ i + 1 # n + 1
          OBVIOUS
        <4>2. N = Len(c.args) + 1
          BY <2>1
        <4> QED BY <1>0, <3>1, <4>1, <4>2
      <3>3. message[i + 1].text = ""
        BY <2>1, <3>1
      <3> QED BY <1>4, <3>2, <3>3 DEF Framed
    <2>4. ASSUME ~ HasHole(c), NEW i \in 1..N, message[i].text = "" PROVE i = N
      <3>1. i # 1
        BY <1>2, <2>1, <2>4
      <3>2. i - 1 \in 1..Len(c.args) /\ c.args[i - 1].text = ""
        BY <2>1, <2>2, <2>4, <3>1
      <3>3. ~ (i - 1 < Len(c.args))
        BY <1>0, <2>4, <3>2 DEF HasHole
      <3>4. N = Len(c.args) + 1 /\ i \in 1..N
        BY <2>1
      <3>5. \A n \in Nat : \A m \in 1..n + 1 :
               m - 1 \in 1..n /\ ~ (m - 1 < n) => m = n + 1
        OBVIOUS
      <3> QED BY <1>0, <3>2, <3>3, <3>4, <3>5
    <2> QED BY <1>3, <1>4, <2>3, <2>4 DEF Framed
  <1> QED BY <1>5, <1>6

(* A message that was sent is parsed to the command it came from, if it is *)
(* framed.                                                                 *)
LEMMA RoundTripStep ==
  TypeOK /\ SetSoFar /\ SetGrammar /\ IsSent /\ Began /\ RoundTrip /\ [Next]_vars => RoundTrip'
  <1> SUFFICES ASSUME TypeOK, SetSoFar, SetGrammar, IsSent, Began, RoundTrip, [Next]_vars
               PROVE  RoundTrip'
    OBVIOUS
  <1>1. CASE UNCHANGED vars
    BY <1>1 DEF RoundTrip, vars, Waiting
  <1>2. CASE Next /\ outcome' = outcome
    BY <1>2, MessageStays DEF RoundTrip, Waiting
  <1>3. CASE Next /\ constructed = <<>>
    BY <1>3, MessageStays DEF RoundTrip
  <1>4. CASE Next /\ outcome' # outcome /\ constructed # <<>>
    <2>1. outcome = Waiting /\ message' = message /\ constructed' = constructed
      BY <1>4, MessageStays
    <2>2. PICK c \in Sent : constructed = <<c>> /\ message = construct(c)
      BY <1>4 DEF IsSent
    <2>3. constructed'[1] = c
      BY <2>1, <2>2
    <2>4. c = [type |-> c.type, args |-> c.args]
      BY SentIs
    <2>5. /\ Framed(message) <=> ~ HasHole(c)
          /\ HasHole(c) => c.type = "set"
      BY <2>2, FramedIs
    <2>6. CASE HasHole(c)
      <3>1. data_pos = 0 /\ ~ Arrives
        BY <1>4, <2>5, <2>6, Place DEF Began, Arrives
      <3>2. NeverComplete
        BY <1>4, <3>1, Place DEF Next, Listen, ListenInLoop, ParseKeyOrValue, ParseParam, EndSet,
           ParseBlock, ParseStreams, UnexpectedArg, EndXRead, Turn, End
      <3> QED BY <2>3, <2>5, <2>6, <3>2 DEF NeverComplete, Returns, RoundTrip
    <2>7. CASE ~ HasHole(c) /\ c.type # "set"
      <3>1. /\ ~ HasLoop /\ try_parse(message) = Parsed(c.type, c.args)
            /\ c.type = "replconf" => ReadsConf(c.args)
        BY <2>2, <2>7, SentOther
      <3>2. data_pos = 0 /\ Arrives
        BY <2>5, <2>7, <3>1, Place DEF TypeOK, Arrives
      <3>3. Listen
        BY <1>4, <3>1, <3>2 DEF Next, ListenInLoop, NeverComplete, ParseKeyOrValue, ParseParam,
           EndSet, ParseBlock, ParseStreams, UnexpectedArg, EndXRead, Turn, End
      <3>4. outcome' = Parsed(c.type, c.args)
        BY <3>1, <3>3 DEF Listen, Returns, Parsed
      <3> QED BY <2>3, <2>4, <2>7, <3>4 DEF RoundTrip, Parsed
    <2>8. CASE ~ HasHole(c) /\ c.type = "set"
      <3>1. /\ Names("set") /\ N >= 3 /\ N % 2 = 1 /\ AllBulk(message)
            /\ \A i \in 4..N : IF i % 2 = 0 THEN message[i].text = "px" ELSE IsPositive(message[i])
            /\ SubSeq(message, 2, 3) \o (IF N > 3 THEN <<message[N]>> ELSE <<>>) = c.args
        BY <2>2, <2>8, SentSet
      <3>2. SetGrammar'
        BY SetGrammarStep
      <3>3. ~ NeverComplete
        BY <2>5, <2>8 DEF NeverComplete, Arrives
      <3>4. Names("set")' /\ N' = N /\ outcome' \notin {Waiting, Stuck}
        <4>1. outcome' # Stuck
          BY <1>4, <3>1, <3>3, NotStuck
        <4> QED BY <1>4, <2>1, <3>1, <4>1 DEF Names, N
      <3>5. Accepted' /\ outcome'.command.args = c.args
        <4>1. Is("set")'
          BY <3>4 DEF Is
        <4> QED BY <4>1, <3>1, <3>2, <3>4, <2>1 DEF SetGrammar, AllBulk
      <3>6. EndSet
        <4>1. outcome' # Refused
          BY <3>5 DEF Accepted, Refused
        <4>2. ~ Names("xread") /\ HasLoop
          BY <3>1 DEF Names, HasLoop
        <4> QED BY <1>4, <3>3, <4>1, <4>2 DEF Next, Listen, ListenInLoop, ParseKeyOrValue,
               ParseParam, ParseBlock, ParseStreams, UnexpectedArg, EndXRead, Turn, End, Returns, GoesOn
      <3>7. outcome' = Parsed("set", <<message[2], message[3]>> \o option)
        BY <3>1, <3>6 DEF EndSet, Returns
      <3>8. outcome'.command = [type |-> "set", args |-> outcome'.command.args]
        BY <3>7 DEF Parsed
      <3>9. outcome'.command = c /\ outcome'.kind = "parsed"
        BY <2>4, <2>8, <3>5, <3>8 DEF Accepted
      <3> QED BY <2>3, <2>8, <3>9 DEF RoundTrip
    <2> QED BY <2>6, <2>7, <2>8
  <1> QED BY <1>1, <1>2, <1>3, <1>4

-----------------------------------------------------------------------------
(* Reading within the message.                                             *)

(* What Listen makes of a message.                                         *)
Heard ==
    LET result == try_parse(message)
    IN  IF result.kind = "parsed" /\ result.command.type = "replconf"
           /\ ~ ReadsConf(result.command.args)
        THEN Undefined ELSE result

(* It reads past the end of a message as ReadsPast says.                   *)
LEMMA HeardIs == ASSUME TypeOK, ~ HasLoop PROVE Heard # Waiting /\ (Heard = Undefined <=> ReadsPast)
  <1>0. message \in Seq(WordForm) /\ N = Len(message) /\ N \in Nat /\ (N = 0 <=> message = <<>>)
    BY Place DEF TypeOK
  <1> DEFINE text == message[1].text
             result == try_parse(message)
  <1>1. /\ \A type, args : /\ Parsed(type, args).kind = "parsed"
                           /\ Parsed(type, args).command.type = type
                           /\ Parsed(type, args).command.args = args
                           /\ Parsed(type, args) # Undefined /\ Parsed(type, args) # Waiting
        /\ Refused.kind = "refused" /\ Refused # Undefined /\ Refused # Waiting
        /\ Undefined.kind = "undefined" /\ Undefined # Waiting
    BY DEF Parsed, Refused, Undefined, Waiting
  <1>2. CASE message = <<>> \/ ~ message[1].bulk
    <2>1. result = Refused
      BY <1>2 DEF try_parse
    <2>2. ~ ReadsPast
      BY <1>2 DEF ReadsPast, Names
    <2> HIDE DEF result
    <2>3. Heard = Refused
      BY <1>1, <2>1 DEF Heard, result
    <2> QED BY <1>1, <2>2, <2>3
  <1>3. CASE ~ (message = <<>> \/ ~ message[1].bulk)
    <2>0. N >= 1
      BY <1>0, <1>3
    <2>1. CASE text = "wait"
      <3>1. result = ParseWait(message)
        BY <1>3, <2>1 DEF try_parse
      <3>2. ReadsPast <=> N <= 2 /\ (N = 2 => IsInt(message[2]))
        BY <1>3, <2>1 DEF ReadsPast, Names
      <3>3. \/ ParseWait(message) = Refused /\ ~ ReadsPast
            \/ ParseWait(message) = Undefined /\ ReadsPast
            \/ (\E args : ParseWait(message) = Parsed("wait", args)) /\ ~ ReadsPast
        <4>1. CASE N = 4
          BY <1>0, <3>2, <4>1 DEF ParseWait
        <4>2. CASE N = 1
          BY <1>0, <3>2, <4>2 DEF ParseWait
        <4>3. CASE N = 2
          BY <1>0, <3>2, <4>3 DEF ParseWait
        <4>4. CASE N > 2 /\ N # 4
          BY <1>0, <3>2, <4>4 DEF ParseWait
        <4> QED BY <1>0, <2>0, <4>1, <4>2, <4>3, <4>4
      <3> HIDE DEF result
      <3> QED BY <1>1, <3>1, <3>3 DEF Heard, result
    <2>2. CASE text = "replconf"
      <3>1. result = ParseAll("replconf", message)
        BY <1>3, <2>2 DEF try_parse
      <3>2. ReadsPast <=> N <= 2 /\ (N = 2 => message[2].bulk /\ message[2].text \in {"ack", "getack"})
        BY <1>3, <2>2 DEF ReadsPast, Names
      <3>3. /\ Args(message) \in Seq(WordForm) /\ Len(Args(message)) = N - 1
            /\ \A i \in 1..N - 1 : Args(message)[i] = message[i + 1]
        BY <1>0, <1>3 DEF Args
      <3>4. DOMAIN Args(message) = 1..N - 1
        BY <3>3
      <3>5. CASE ~ AllBulk(Args(message))
        <4>1. result = Refused
          BY <3>1, <3>5 DEF ParseAll
        <4>2. PICK i \in 1..N - 1 : ~ message[i + 1].bulk
          BY <3>3, <3>4, <3>5 DEF AllBulk
        <4>3. N >= 2 /\ (N = 2 => ~ message[2].bulk)
          BY <1>0, <4>2
        <4>4. ~ ReadsPast
          BY <1>0, <3>2, <4>3
        <4> HIDE DEF result
        <4> QED BY <1>1, <4>1, <4>4 DEF Heard, result
      <3>6. CASE AllBulk(Args(message))
        <4>1. result = Parsed("replconf", Args(message))
          BY <3>1, <3>6 DEF ParseAll
        <4>2. N = 2 => message[2].bulk /\ Args(message)[1] = message[2]
          <5>1. N = 2 => 1 \in 1..N - 1 /\ 1 + 1 = 2
            OBVIOUS
          <5> QED BY <3>3, <3>4, <3>6, <5>1 DEF AllBulk
        <4>3. ~ ReadsConf(Args(message)) <=> ReadsPast
          BY <1>0, <2>0, <3>2, <3>3, <4>2 DEF ReadsConf
        <4> HIDE DEF result
        <4> QED BY <1>1, <4>1, <4>3 DEF Heard, result
      <3> QED BY <3>5, <3>6
    <2>3. CASE text \notin {"wait", "replconf"}
      <3>1. ~ ReadsPast
        BY <2>3 DEF ReadsPast, Names
      <3>2. \/ result = Refused
            \/ \E type, args : result = Parsed(type, args) /\ type # "replconf"
        <4>1. CASE text \in {"info", "psync", "config"}
          <5>1. result = ParseAll(text, message)
            BY <1>3, <4>1 DEF try_parse
          <5>2. text # "replconf"
            BY <4>1
          <5> QED BY <5>1, <5>2 DEF ParseAll
        <4>2. CASE text \in {"get", "keys", "type"}
          <5>1. result = ParseOneArg(text, message)
            BY <1>3, <4>2 DEF try_parse
          <5>2. text # "replconf"
            BY <4>2
          <5> QED BY <5>1, <5>2 DEF ParseOneArg
        <4>3. CASE text = "ping" \/ text = "echo"
          <5>1. result = Parsed("ping", <<>>) \/ result = ParseEcho(message)
            BY <1>3, <4>3 DEF try_parse
          <5> QED BY <5>1 DEF ParseEcho
        <4>4. CASE text = "xadd" \/ text = "xrange"
          <5>1. result = ParseXAdd(message) \/ result = ParseXRange(message)
            BY <1>3, <4>4 DEF try_parse
          <5> QED BY <5>1 DEF ParseXAdd, ParseXRange
        <4>5. CASE text \notin {"info", "psync", "config", "get", "keys", "type", "ping", "echo",
                               "xadd", "xrange"}
          BY <1>3, <2>3, <4>5 DEF try_parse
        <4> QED BY <4>1, <4>2, <4>3, <4>4, <4>5
      <3> HIDE DEF result
      <3>3. Heard = result
        BY <1>1, <3>2 DEF Heard, result
      <3> QED BY <1>1, <3>1, <3>2, <3>3
    <2> QED BY <2>1, <2>2, <2>3
  <1> QED BY <1>2, <1>3

(* A message is read past its end where ReadsPast says so.                 *)
LEMMA WithinStep == TypeOK /\ IsSent /\ WithinMessage /\ [Next]_vars => WithinMessage'
  <1> SUFFICES ASSUME TypeOK, IsSent, WithinMessage, [Next]_vars PROVE WithinMessage'
    OBVIOUS
  <1>1. CASE UNCHANGED vars
    BY <1>1 DEF WithinMessage, ReadsPast, vars, N, Names
  <1>2. CASE Next
    <2>1. outcome = Waiting /\ N' = N /\ message' = message /\ (ReadsPast' <=> ReadsPast)
      BY <1>2, MessageStays DEF N, ReadsPast, Names
    <2>2. /\ Waiting # Undefined /\ Refused # Undefined /\ Stuck # Undefined
          /\ \A t, a : Parsed(t, a) # Undefined
      BY DEF Waiting, Refused, Undefined, Parsed, Stuck
    <2>3. CASE Listen
      <3>1. outcome' = Heard /\ ~ HasLoop
        BY <2>3 DEF Listen, Returns, Heard
      <3> QED BY <2>1, <3>1, HeardIs DEF WithinMessage
    <2>4. CASE NeverComplete
      <3>1. PICK c \in Sent : message = construct(c)
        BY <2>4 DEF NeverComplete, Arrives, IsSent
      <3>2. c.type = "set"
        BY <2>4, <3>1, FramedIs DEF NeverComplete, Arrives
      <3>3. Names("set")
        BY <3>1, <3>2, SentSet
      <3>4. ~ ReadsPast
        BY <3>3 DEF ReadsPast, Names
      <3> QED BY <2>1, <2>2, <2>4, <3>4 DEF NeverComplete, Returns, WithinMessage
    <2>5. CASE ListenInLoop
      BY <2>1, <2>5 DEF ListenInLoop, WithinMessage
    <2>6. CASE ~ (Listen \/ NeverComplete \/ ListenInLoop)
      <3>1. Names("set") \/ Names("xread")
        BY <1>2, <2>6 DEF Next, ParseKeyOrValue, ParseParam, EndSet, ParseBlock, ParseStreams,
           UnexpectedArg, EndXRead, Turn, End
      <3>2. ~ ReadsPast
        BY <3>1 DEF ReadsPast, Names
      <3>3. ASSUME ParseStreams PROVE outcome' # Undefined
        BY <2>2, <3>3 DEF ParseStreams, Returns
      <3>4. ASSUME ParseKeyOrValue \/ ParseParam \/ EndSet \/ ParseBlock \/ UnexpectedArg \/ EndXRead
            PROVE  outcome' # Undefined
        BY <2>1, <2>2, <3>4 DEF ParseKeyOrValue, ParseParam, EndSet, ParseBlock, UnexpectedArg,
           EndXRead, Returns, GoesOn
      <3>5. outcome' # Undefined
        BY <1>2, <2>6, <3>3, <3>4 DEF Next
      <3> QED BY <2>1, <3>2, <3>5 DEF WithinMessage
    <2> QED BY <2>3, <2>4, <2>5, <2>6
  <1> QED BY <1>1, <1>2

-----------------------------------------------------------------------------
(* The theorems.                                                           *)

(* What a loop has read is always of the grammar of its command.           *)
THEOREM LoopsCorrect == Spec => [](TypeOK /\ SetSoFar /\ XReadSoFar)
  BY TypeInit, TypeStep, SetStep, XReadStep, PTL DEF Spec

(* SET takes a key, a value and any number of PX with a positive number,   *)
(* of which the last one counts, and nothing else.                         *)
THEOREM SetCorrect == Spec => []SetGrammar
  <1>1. Init => SetGrammar
    BY DEF Init, SetGrammar, Is, Waiting
  <1> QED BY <1>1, LoopsCorrect, SetGrammarStep, PTL DEF Spec

(* XREAD takes any number of BLOCK, of which the last one counts, and then *)
(* STREAMS with as many ids as keys; or at least two BLOCK and no STREAMS. *)
THEOREM XReadCorrect == Spec => []XReadGrammar
  <1>1. Init => XReadGrammar
    BY DEF Init, XReadGrammar, Is, Waiting
  <1> QED BY <1>1, LoopsCorrect, XReadGrammarStep, PTL DEF Spec

(* Whatever command this program constructs, of whatever keys and values,  *)
(* try_parse gives it back at the other end of the wire, but for a SET     *)
(* with an empty word before its last one: that one is never complete.     *)
THEOREM RoundTripCorrect == Spec => []RoundTrip
  <1>1. Init => RoundTrip /\ Began
    BY DEF Init, RoundTrip, Waiting, Began
  <1> QED BY <1>1, TypeInit, SentStep, BeganStep, LoopsCorrect, SetCorrect, RoundTripStep,
             PTL DEF Spec

(* A message of any words and any length is read past its end where WAIT   *)
(* or REPLCONF has less than the two arguments it uses, and nowhere else.  *)
THEOREM WithinCorrect == Spec => []WithinMessage
  <1>1. Init => WithinMessage
    BY DEF Init, WithinMessage, Waiting, Undefined
  <1> QED BY <1>1, TypeInit, SentStep, LoopsCorrect, WithinStep, PTL DEF Spec
=============================================================================
