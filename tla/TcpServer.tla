------------------------------ MODULE TcpServer ------------------------------
(***************************************************************************)
(* The local control channel (Task/tcp_server.c): one task accepts a       *)
(* client, answers its messages until the client leaves, and accepts the   *)
(* next one.  The receive task of the IR driver writes to the same client  *)
(* through the file-scope _sock.  The socket layer (lwIP) is external: its *)
(* sockets are a table of MaxSockets entries, and a connection that waits  *)
(* to be accepted has none yet.                                            *)
(*                                                                         *)
(* TCP keeps no message boundaries: what a client sends is a stream of     *)
(* numbered units, MsgLen to a message, of which recv takes any number     *)
(* that has arrived and fits in rx_buffer.                                 *)
(***************************************************************************)
EXTENDS Integers, Sequences, FiniteSets

CONSTANTS
  Clients,      \* connections made over time, each of them once
  MaxSockets,   \* CONFIG_LWIP_MAX_SOCKETS
  Backlog,      \* connections that may wait: the second argument of listen
  ReplyLen,     \* length of a reply, in units send may deliver one by one
  MsgLen,       \* units of a message
  RxLen,        \* units that fit in rx_buffer
  MaxUnits,     \* bound: units one client sends
  MaxPushes,    \* bound: writes of the IR driver's receive task
  Pipelining,   \* a client sends without waiting for the answer
  ShortSends,   \* send may deliver less than it was given
  Resets,       \* a connection may be reset
  SetUpFails    \* socket, bind or listen may fail

ASSUME TcpAssumption ==
  /\ IsFiniteSet(Clients)
  /\ MaxSockets \in Nat \ {0} /\ Backlog \in Nat \ {0} /\ ReplyLen \in Nat \ {0}
  /\ MsgLen \in Nat \ {0} /\ RxLen \in Nat \ {0}
  /\ MaxUnits \in Nat /\ MaxPushes \in Nat
  /\ {Pipelining, ShortSends, Resets, SetUpFails} \subseteq BOOLEAN

Fds == 0 .. MaxSockets - 1
NoFd == -1
Nobody == "nobody"

VARIABLES
  conn,     \* the connections, seen from their clients
  queue,    \* connections waiting to be accepted
  table,    \* lwIP's sockets: whose connection each of them holds
  listenSock, _sock,
  srv,      \* tcp_server_task
  push,     \* tcp_server_transmit, called by the IR receive task
  pushes    \* pushes so far: bound of the model

vars == <<conn, queue, table, listenSock, _sock, srv, push, pushes>>
clientUnchanged == <<table, listenSock, _sock, srv, push, pushes>>
pushUnchanged == <<queue, table, listenSock, _sock, srv>>

SrvPcs == {"socket", "bind", "accept", "store", "recv", "parse", "send", "cleanup", "dead"}
ConnStates == {"new", "waiting", "open", "closed", "reset"}

\* What one send delivers: the units after "from" up to "upto" of the reply to
\* what recv returned from the client's unit "at" on, "whole" if the parser
\* found a message there.
Chunk == [at : 1 .. MaxUnits, whole : BOOLEAN, from : 0 .. ReplyLen, upto : 1 .. ReplyLen]

TypeOK ==
  /\ conn \in [Clients -> [state : ConnStates, sent : 0 .. MaxUnits, stream : Seq(1 .. MaxUnits),
                           got : Seq(Chunk), pushed : 0 .. MaxPushes]]
  /\ queue \in Seq(Clients)
  /\ table \in [Fds -> Clients \union {"free", "listen"}]
  /\ listenSock \in Fds \union {NoFd} /\ _sock \in Fds \union {NoFd}
  /\ srv \in [pc : SrvPcs, fd : Fds \union {NoFd}, at : 0 .. MaxUnits, whole : BOOLEAN,
             left : 0 .. ReplyLen + 1]
  /\ srv.pc \in {"recv", "parse", "send"} => srv.fd \in Fds /\ table[srv.fd] \in Clients
  /\ push \in {"idle", "send"} /\ pushes \in 0 .. MaxPushes

\* tcp_server_create_task: nothing open yet; listen_sock is 0, _sock is -1.
Init ==
  /\ conn = [c \in Clients |-> [state |-> "new", sent |-> 0, stream |-> << >>,
                               got |-> << >>, pushed |-> 0]]
  /\ queue = << >>
  /\ table = [s \in Fds |-> "free"]
  /\ listenSock = 0 /\ _sock = NoFd
  /\ srv = [pc |-> "socket", fd |-> NoFd, at |-> 0, whole |-> FALSE, left |-> 0]
  /\ push = "idle" /\ pushes = 0

Free == {s \in Fds : table[s] = "free"}
Listening == srv.pc \notin {"socket", "bind", "cleanup", "dead"}
Current == IF srv.fd \in Fds THEN table[srv.fd] ELSE Nobody
\* A message begins with every MsgLen-th unit.
Begins(unit) == (unit - 1) % MsgLen = 0
\* The client has the end of a reply to the last message it sent.
Answered(c) ==
  conn[c].sent = 0
  \/ \E i \in DOMAIN conn[c].got :
       conn[c].got[i].at > conn[c].sent - MsgLen /\ conn[c].got[i].upto = ReplyLen

\* What is sent reaches the client, if it still listens.
Deliver(c, upto) ==
  conn' = IF conn[c].state = "open"
          THEN [conn EXCEPT ![c].got = Append(@, [at |-> srv.at, whole |-> srv.whole,
                                                   from |-> 0, upto |-> upto])]
          ELSE conn

----------------------------------------------------------------------------
(* The clients.                                                            *)

\* A client connects when nobody is refused: it waits in the backlog.
Connect(c) ==
  /\ Listening /\ Len(queue) < Backlog
  /\ conn[c].state = "new"
  /\ conn' = [conn EXCEPT ![c].state = "waiting"]
  /\ queue' = Append(queue, c)
  /\ UNCHANGED clientUnchanged

\* The next unit arrives; what arrives before the client is accepted is
\* received as if it arrived just after.  A client that waits for answers does
\* so before it begins a message.
ClientSend(c) ==
  /\ conn[c].state = "open" /\ conn[c].sent < MaxUnits
  /\ Begins(conn[c].sent + 1) => Pipelining \/ Answered(c)
  /\ conn' = [conn EXCEPT ![c].sent = @ + 1, ![c].stream = Append(@, conn[c].sent + 1)]
  /\ UNCHANGED <<queue, clientUnchanged>>

\* The client ends the connection; what it sent before can still be received.
Leave(c) ==
  /\ conn[c].state = "open"
  /\ conn' = [conn EXCEPT ![c].state = "closed"]
  /\ UNCHANGED <<queue, clientUnchanged>>

\* The connection breaks: what was under way is lost.
Break(c) ==
  /\ Resets /\ conn[c].state = "open"
  /\ conn' = [conn EXCEPT ![c].state = "reset", ![c].stream = << >>]
  /\ UNCHANGED <<queue, clientUnchanged>>

----------------------------------------------------------------------------
(* tcp_server_task.                                                        *)

srvUnchanged == <<push, pushes>>

SrvSocket ==
  /\ srv.pc = "socket"
  /\ \/ /\ Free # {}
        /\ LET s == CHOOSE s \in Free : TRUE
           IN  /\ listenSock' = s
               /\ table' = [table EXCEPT ![s] = "listen"]
        /\ srv' = [srv EXCEPT !.pc = "bind"]
     \/ /\ SetUpFails
        /\ listenSock' = NoFd
        /\ srv' = [srv EXCEPT !.pc = "dead"]
        /\ UNCHANGED table
  /\ UNCHANGED <<srvUnchanged, conn, queue, _sock>>

\* bind and listen, each of which may fail.
SrvBind ==
  /\ srv.pc = "bind"
  /\ \/ srv' = [srv EXCEPT !.pc = "accept"]
     \/ SetUpFails /\ srv' = [srv EXCEPT !.pc = "cleanup"]
  /\ UNCHANGED <<srvUnchanged, conn, queue, table, listenSock, _sock>>

SrvAccept ==
  /\ srv.pc = "accept" /\ queue # << >> /\ Free # {}
  /\ LET c == Head(queue)
         s == CHOOSE s \in Free : TRUE
     IN  /\ conn' = [conn EXCEPT ![c].state = "open"]
         /\ table' = [table EXCEPT ![s] = c]
         /\ srv' = [srv EXCEPT !.pc = "store", !.fd = s]
  /\ queue' = Tail(queue)
  /\ UNCHANGED <<srvUnchanged, listenSock, _sock>>

\* No socket is left: the connection is dropped and accept returns -1.
SrvAcceptFails ==
  /\ srv.pc = "accept" /\ queue # << >> /\ Free = {}
  /\ conn' = [conn EXCEPT ![Head(queue)].state = "reset", ![Head(queue)].stream = << >>]
  /\ queue' = Tail(queue)
  /\ srv' = [srv EXCEPT !.pc = "store", !.fd = NoFd]
  /\ UNCHANGED <<srvUnchanged, table, listenSock, _sock>>

\* Mutant: the result of accept is not looked at.
SrvStoreUnchecked ==
  /\ srv.pc = "store"
  /\ _sock' = srv.fd
  /\ srv' = [srv EXCEPT !.pc = "recv"]
  /\ UNCHANGED <<srvUnchanged, conn, queue, table, listenSock>>

\* _sock = sock; a negative one ends the loop.
SrvStore ==
  /\ srv.pc = "store"
  /\ _sock' = srv.fd
  /\ srv' = [srv EXCEPT !.pc = IF srv.fd = NoFd THEN "cleanup" ELSE "recv"]
  /\ UNCHANGED <<srvUnchanged, conn, queue, table, listenSock>>

\* How many units recv may return.
Received(stream) == {k \in DOMAIN stream : k <= RxLen}

\* Mutant: the last unit received stays in the stream.
SrvRecvKeeps ==
  /\ srv.pc = "recv" /\ conn[Current].stream # << >>
  /\ \E k \in Received(conn[Current].stream) :
       /\ srv' = [srv EXCEPT !.pc = "parse", !.at = Head(conn[Current].stream),
                             !.whole = Begins(Head(conn[Current].stream)) /\ k >= MsgLen]
       /\ conn' = [conn EXCEPT ![Current].stream = SubSeq(@, k, Len(@))]
  /\ UNCHANGED <<srvUnchanged, queue, table, listenSock, _sock>>

\* recv returns a part of what has arrived: a piece of a message, one message,
\* several perhaps.  The parser reads the message the part begins with, if it
\* begins with one and holds it whole; nobody looks at the rest.
SrvRecv ==
  /\ srv.pc = "recv" /\ conn[Current].stream # << >>
  /\ \E k \in Received(conn[Current].stream) :
       /\ srv' = [srv EXCEPT !.pc = "parse", !.at = Head(conn[Current].stream),
                             !.whole = Begins(Head(conn[Current].stream)) /\ k >= MsgLen]
       /\ conn' = [conn EXCEPT ![Current].stream = SubSeq(@, k + 1, Len(@))]
  /\ UNCHANGED <<srvUnchanged, queue, table, listenSock, _sock>>

\* Mutant: a client that left ends the accept loop.
SrvEndBreak ==
  /\ srv.pc = "recv"
  /\ conn[Current].stream = << >> /\ conn[Current].state \in {"closed", "reset"}
  /\ srv' = [srv EXCEPT !.pc = "cleanup"]
  /\ UNCHANGED <<srvUnchanged, conn, queue, table, listenSock, _sock>>

\* recv returns 0 or -1: the next client is accepted.  The socket is not
\* closed, and _sock keeps it.
SrvEnd ==
  /\ srv.pc = "recv"
  /\ conn[Current].stream = << >> /\ conn[Current].state \in {"closed", "reset"}
  /\ srv' = [srv EXCEPT !.pc = "accept"]
  /\ UNCHANGED <<srvUnchanged, conn, queue, table, listenSock, _sock>>

\* Every recv is answered, whatever the parser made of it.
SrvParse ==
  /\ srv.pc = "parse"
  /\ srv' = [srv EXCEPT !.pc = "send", !.left = ReplyLen]
  /\ UNCHANGED <<srvUnchanged, conn, queue, table, listenSock, _sock>>

\* send delivers the first units of the buffer; a short one is followed by
\* another one, from the start of the buffer again.
SrvSend ==
  /\ srv.pc = "send" /\ conn[Current].state # "reset"
  /\ \E written \in (IF ShortSends THEN 1 .. srv.left ELSE {srv.left}) :
       /\ Deliver(Current, written)
       /\ srv' = [srv EXCEPT !.left = @ - written,
                             !.pc = IF written = srv.left THEN "recv" ELSE "send"]
  /\ UNCHANGED <<srvUnchanged, queue, table, listenSock, _sock>>

\* A send that fails returns -1: to_write -= -1.  (What is left stays at the
\* bound ReplyLen + 1; any positive value does the same.)
SrvSendFails ==
  /\ srv.pc = "send"
  /\ conn[Current].state = "reset" \/ (Resets /\ conn[Current].state = "closed")
  /\ srv' = [srv EXCEPT !.left = IF @ > ReplyLen THEN @ ELSE @ + 1]
  /\ UNCHANGED <<srvUnchanged, conn, queue, table, listenSock, _sock>>

\* CLEAN_UP: the listening socket is closed and the task deletes itself;
\* whoever waits is refused.
SrvCleanUp ==
  /\ srv.pc = "cleanup"
  /\ table' = [table EXCEPT ![listenSock] = "free"]
  /\ conn' = [c \in Clients |-> IF conn[c].state = "waiting"
                                THEN [conn[c] EXCEPT !.state = "reset", !.stream = << >>]
                                ELSE conn[c]]
  /\ queue' = << >>
  /\ srv' = [srv EXCEPT !.pc = "dead"]
  /\ UNCHANGED <<srvUnchanged, listenSock, _sock>>

----------------------------------------------------------------------------
(* tcp_server_transmit, in the IR driver's receive task.                   *)

PushLook ==
  /\ push = "idle" /\ pushes < MaxPushes
  /\ pushes' = pushes + 1
  /\ push' = IF _sock # NoFd THEN "send" ELSE "idle"
  /\ UNCHANGED <<pushUnchanged, conn>>

\* _sock is read again; nobody looks at what send returns.
PushSend ==
  /\ push = "send"
  /\ push' = "idle"
  /\ \/ /\ _sock # NoFd /\ table[_sock] \in Clients
        /\ conn' = IF conn[table[_sock]].state = "open"
                   THEN [conn EXCEPT ![table[_sock]].pushed = @ + 1]
                   ELSE conn
     \/ /\ _sock = NoFd
        /\ UNCHANGED conn
  /\ UNCHANGED <<pushUnchanged, pushes>>

Srv ==
  \/ SrvSocket \/ SrvBind \/ SrvAccept \/ SrvAcceptFails \/ SrvStore \/ SrvRecv \/ SrvEnd
  \/ SrvParse \/ SrvSend \/ SrvSendFails \/ SrvCleanUp

Next ==
  \/ \E c \in Clients : Connect(c) \/ ClientSend(c) \/ Leave(c) \/ Break(c)
  \/ Srv
  \/ PushLook \/ PushSend

Spec == Init /\ [][Next]_vars

\* The tasks are scheduled, and a client that is served leaves in the end:
\* the server has one task for all of them.
FairSpec ==
  /\ Spec
  /\ WF_vars(Srv) /\ WF_vars(PushSend)
  /\ \A c \in Clients : WF_vars(Leave(c))

----------------------------------------------------------------------------
(* Properties.                                                             *)

\* What a client receives is whole replies, except that the last one may be cut
\* off, each to a later part of what it sent than the one before (do_retransmit).
\* A message that was read whole gets no other reply, neither another success
\* nor a refusal; one that came in pieces gets a refusal for each piece.  What
\* is sent ahead may go unanswered.
Covered(reply) == IF reply.whole THEN MsgLen ELSE 1
Follows(got, i) ==
  /\ got[i].from = 0
  /\ got[i].whole => Begins(got[i].at)
  /\ i > 1 => /\ got[i - 1].upto = ReplyLen
              /\ got[i - 1].at + Covered(got[i - 1]) <= got[i].at
GoesOn(got, i) ==
  i > 1 /\ got[i - 1].at = got[i].at /\ got[i - 1].upto = got[i].from
RepliesInOrder ==
  \A c \in Clients : \A i \in DOMAIN conn[c].got :
    Follows(conn[c].got, i) \/ GoesOn(conn[c].got, i)

\* What may keep the server from a client that waits: no socket is left for
\* it, or a reply that cannot be delivered.
Excused ==
  \/ \A s \in Fds \ {listenSock} : table[s] \in Clients
  \/ srv.pc = "send" /\ conn[Current].state # "open"

Served(c) == conn[c].state \in {"open", "closed"}

\* A client that waits is accepted in the end, after whatever clients before
\* it, unless one of the two excuses lasts for ever (tcp_server_task).
ServedUnlessStuck ==
  \A c \in Clients : <>[]Excused \/ (conn[c].state = "waiting" ~> Served(c))

=============================================================================
