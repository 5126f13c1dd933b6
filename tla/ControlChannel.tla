--------------------------- MODULE ControlChannel ---------------------------
(***************************************************************************)
(* What a request/response channel promises its clients: a message is      *)
(* answered at most once, by a whole answer, and never after a later one.  *)
(* A message may stay unanswered: a connection may break.  GattServer      *)
(* implements this specification.  TcpServer does not: TCP may cut a       *)
(* message into pieces, and do_retransmit answers each of them.            *)
(***************************************************************************)
EXTENDS Naturals, Sequences

CONSTANT Clients

VARIABLES
  sent,      \* how many messages each client has sent
  answered   \* the messages of each client that were answered, in that order

Newest(s) == IF s = << >> THEN 0 ELSE s[Len(s)]

Init == sent = [c \in Clients |-> 0] /\ answered = [c \in Clients |-> << >>]

Send(c) == sent' = [sent EXCEPT ![c] = @ + 1] /\ UNCHANGED answered

\* The answer is for a message newer than all that were answered before it.
Answer(c) ==
  /\ \E m \in Newest(answered[c]) + 1 .. sent[c] :
       answered' = [answered EXCEPT ![c] = Append(@, m)]
  /\ UNCHANGED sent

Next == \E c \in Clients : Send(c) \/ Answer(c)

Spec == Init /\ [][Next]_<<sent, answered>>

=============================================================================
