------------------------------ MODULE Session ------------------------------
(***************************************************************************)
(* What the server promises each of its clients: it executes the client's  *)
(* commands once and in the order they were sent, answers a command at     *)
(* most once and not before it was executed, and the client receives its   *)
(* own replies, in the order they were given and none skipped.  The answer *)
(* to a WAIT is left out of the promise that replies are one's own.        *)
(*                                                                         *)
(* A command is known by its number among those its client sent, and a     *)
(* reply by the command it answers.                                        *)
(***************************************************************************)
EXTENDS Naturals, Sequences

CONSTANTS Conn, Kind

VARIABLES
    sent,         \* the kinds of the commands a client sent
    executed,     \* how many of them were executed
    said,         \* the replies given to them
    got           \* the replies the client received

sessionVars == <<sent, executed, said, got>>

Reply(c, n) == [conn |-> c, command |-> n]

SessionInit ==
    /\ sent = [c \in Conn |-> <<>>]
    /\ executed = [c \in Conn |-> 0]
    /\ said = [c \in Conn |-> <<>>]
    /\ got = [c \in Conn |-> <<>>]

SendCommand(c, kind) ==
    /\ sent' = [sent EXCEPT ![c] = Append(@, kind)]
    /\ UNCHANGED <<executed, said, got>>

(* A command is answered when it is executed, or later, or never.          *)
Execute(c) ==
    /\ executed[c] < Len(sent[c])
    /\ executed' = [executed EXCEPT ![c] = @ + 1]
    /\ \/ said' = [said EXCEPT ![c] = Append(@, Reply(c, executed[c] + 1))]
       \/ UNCHANGED said
    /\ UNCHANGED <<sent, got>>

AnswerLater(c, d, n) ==
    /\ n \in 1..executed[d] /\ (d = c \/ sent[d][n] = "waits")
    /\ \A i \in DOMAIN said[c] : said[c][i] # Reply(d, n)
    /\ said' = [said EXCEPT ![c] = Append(@, Reply(d, n))]
    /\ UNCHANGED <<sent, executed, got>>

ReceiveNext(c) ==
    /\ Len(got[c]) < Len(said[c])
    /\ got' = [got EXCEPT ![c] = Append(@, said[c][Len(@) + 1])]
    /\ UNCHANGED <<sent, executed, said>>

SessionNext ==
    \E c \in Conn :
        \/ \E kind \in Kind : SendCommand(c, kind)
        \/ Execute(c)
        \/ \E d \in Conn : \E n \in 1..executed[d] : AnswerLater(c, d, n)
        \/ ReceiveNext(c)

SessionSpec == SessionInit /\ [][SessionNext]_sessionVars
=============================================================================
