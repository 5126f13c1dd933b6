------------------------------ MODULE TcpProofs ------------------------------
(***************************************************************************)
(* TcpServer for any clients, sockets, messages and pieces of them: its    *)
(* type invariant, and, while send delivers what it was given,             *)
(* RepliesInOrder.                                                         *)
(***************************************************************************)
EXTENDS TcpServer, SequenceTheorems, TLAPS

----------------------------------------------------------------------------
(* Types.                                                                  *)

Connection == [state : ConnStates, sent : 0 .. MaxUnits, stream : Seq(1 .. MaxUnits),
               got : Seq(Chunk), pushed : 0 .. MaxPushes]
Server == [pc : SrvPcs, fd : Fds \union {NoFd}, at : 0 .. MaxUnits, whole : BOOLEAN,
           left : 0 .. ReplyLen + 1]

\* What the server holds between two calls: a message in hand, a socket that
\* accept returned, and a reply that never ends only when its client has left.
InHand ==
  /\ srv.pc = "store" /\ srv.fd # NoFd => table[srv.fd] \in Clients
  /\ srv.pc \in {"parse", "send"} => srv.at \in 1 .. MaxUnits
  /\ srv.pc = "send" => srv.left # 0
  /\ srv.pc = "send" /\ srv.left > ReplyLen => conn[table[srv.fd]].state # "open"

\* A push that is due has been counted.
Counted == \A c \in Clients : conn[c].pushed + (IF push = "send" THEN 1 ELSE 0) <= pushes

Types == TypeOK /\ InHand /\ Counted

LEMMA ConnType == TypeOK => conn \in [Clients -> Connection] /\ srv \in Server
BY DEF TypeOK, Connection, Server

\* One connection changes.
LEMMA Update ==
  ASSUME NEW f \in [Clients -> Connection], NEW c \in Clients, NEW d \in Connection,
         conn' = [f EXCEPT ![c] = d]
  PROVE  /\ conn' \in [Clients -> Connection] /\ conn'[c] = d
         /\ \A other \in Clients \ {c} : conn'[other] = f[other]
OBVIOUS

LEMMA Chosen == Free # {} => (CHOOSE s \in Free : TRUE) \in Free
OBVIOUS

LEMMA Served1 ==
  ASSUME TypeOK, srv.pc \in {"recv", "parse", "send"}
  PROVE  Current \in Clients /\ Current = table[srv.fd]
BY DEF TypeOK, Current

\* What each action does to the connections, and that it keeps their types.
Same(c) == conn'[c] = conn[c]
Others(c) == \A other \in Clients \ {c} : Same(other)

LEMMA ConnectConn ==
  ASSUME TcpAssumption, Types, NEW c \in Clients, Connect(c)
  PROVE  /\ conn' \in [Clients -> Connection] /\ Others(c)
         /\ conn'[c] = [conn[c] EXCEPT !.state = "waiting"]
<1>1. conn \in [Clients -> Connection] /\ conn[c] \in Connection
  BY ConnType DEF Types
<1>2. [conn[c] EXCEPT !.state = "waiting"] \in Connection
  BY <1>1 DEF Connection, ConnStates
<1>3. conn' = [conn EXCEPT ![c] = [conn[c] EXCEPT !.state = "waiting"]]
  BY DEF Connect
<1> QED BY <1>1, <1>2, <1>3, Update DEF Others, Same

LEMMA SendConn ==
  ASSUME TcpAssumption, Types, NEW c \in Clients, ClientSend(c)
  PROVE  /\ conn' \in [Clients -> Connection] /\ Others(c)
         /\ conn[c].sent + 1 \in 1 .. MaxUnits
         /\ conn'[c] = [conn[c] EXCEPT !.sent = @ + 1, !.stream = Append(@, conn[c].sent + 1)]
<1>1. conn \in [Clients -> Connection] /\ conn[c] \in Connection
  BY ConnType DEF Types
<1>2. conn[c].sent + 1 \in 1 .. MaxUnits
  <2>1. conn[c].sent \in 0 .. MaxUnits /\ MaxUnits \in Nat
    BY <1>1, TcpAssumption DEF Connection, TcpAssumption
  <2>2. conn[c].sent < MaxUnits
    BY DEF ClientSend
  <2> QED BY <2>1, <2>2
<1>3. Append(conn[c].stream, conn[c].sent + 1) \in Seq(1 .. MaxUnits)
  BY <1>1, <1>2, AppendProperties DEF Connection
<1> DEFINE d == [conn[c] EXCEPT !.sent = @ + 1, !.stream = Append(@, conn[c].sent + 1)]
<1>4. d \in Connection
  <2>1. conn[c].sent + 1 \in 0 .. MaxUnits
    BY <1>2
  <2> QED BY <1>1, <1>3, <2>1 DEF Connection
<1>5. conn' = [conn EXCEPT ![c] = d]
  BY DEF ClientSend
<1> HIDE DEF d
<1>6. conn' \in [Clients -> Connection] /\ conn'[c] = d /\ Others(c)
  BY <1>1, <1>4, <1>5, Update DEF Others, Same
<1> QED BY <1>2, <1>6 DEF d

LEMMA EndsConn ==
  ASSUME TcpAssumption, Types, NEW c \in Clients, Leave(c) \/ Break(c)
  PROVE  /\ conn' \in [Clients -> Connection] /\ Others(c)
         /\ \E state \in ConnStates \ {"open"}, stream \in {<< >>, conn[c].stream} :
              conn'[c] = [conn[c] EXCEPT !.state = state, !.stream = stream]
<1>1. conn \in [Clients -> Connection] /\ conn[c] \in Connection
  BY ConnType DEF Types
<1>2. << >> \in Seq(1 .. MaxUnits)
  BY EmptySeq
<1>3. CASE Leave(c)
  <2> DEFINE d == [conn[c] EXCEPT !.state = "closed", !.stream = conn[c].stream]
  <2>1. d \in Connection
    BY <1>1 DEF Connection, ConnStates
  <2>2. conn' = [conn EXCEPT ![c] = d]
    <3>1. d = [conn[c] EXCEPT !.state = "closed"]
      BY <1>1 DEF Connection
    <3> QED BY <1>3, <3>1 DEF Leave
  <2>3. "closed" \in ConnStates \ {"open"}
    BY DEF ConnStates
  <2> HIDE DEF d
  <2>4. conn' \in [Clients -> Connection] /\ conn'[c] = d /\ Others(c)
    BY <1>1, <2>1, <2>2, Update DEF Others, Same
  <2> QED BY <2>3, <2>4 DEF d
<1>4. CASE Break(c)
  <2> DEFINE d == [conn[c] EXCEPT !.state = "reset", !.stream = << >>]
  <2>1. d \in Connection
    BY <1>1, <1>2 DEF Connection, ConnStates
  <2>2. conn' = [conn EXCEPT ![c] = d]
    BY <1>4 DEF Break
  <2>3. "reset" \in ConnStates \ {"open"}
    BY DEF ConnStates
  <2> HIDE DEF d
  <2>4. conn' \in [Clients -> Connection] /\ conn'[c] = d /\ Others(c)
    BY <1>1, <2>1, <2>2, Update DEF Others, Same
  <2> QED BY <2>3, <2>4 DEF d
<1> QED BY <1>3, <1>4

LEMMA AcceptConn ==
  ASSUME TcpAssumption, Types, SrvAccept \/ SrvAcceptFails
  PROVE  /\ conn' \in [Clients -> Connection]
         /\ \E c \in Clients : \E state \in ConnStates, stream \in {<< >>, conn[c].stream} :
              /\ Others(c)
              /\ conn'[c] = [conn[c] EXCEPT !.state = state, !.stream = stream]
<1> DEFINE c == Head(queue)
<1>1. conn \in [Clients -> Connection] /\ c \in Clients /\ conn[c] \in Connection
  <2>1. queue \in Seq(Clients) /\ queue # << >>
    BY DEF Types, TypeOK, SrvAccept, SrvAcceptFails
  <2> QED BY <2>1, ConnType, HeadTailProperties DEF Types
<1>2. << >> \in Seq(1 .. MaxUnits)
  BY EmptySeq
<1> DEFINE opened == [conn[c] EXCEPT !.state = "open", !.stream = conn[c].stream]
           dropped == [conn[c] EXCEPT !.state = "reset", !.stream = << >>]
<1>3. opened \in Connection /\ dropped \in Connection
  BY <1>1, <1>2 DEF Connection, ConnStates
<1>4. conn' = [conn EXCEPT ![c] = opened] \/ conn' = [conn EXCEPT ![c] = dropped]
  <2>1. opened = [conn[c] EXCEPT !.state = "open"]
    BY <1>1 DEF Connection
  <2> QED BY <2>1 DEF SrvAccept, SrvAcceptFails
<1>5. "open" \in ConnStates /\ "reset" \in ConnStates
  BY DEF ConnStates
<1>6. ASSUME NEW d \in {opened, dropped}, conn' = [conn EXCEPT ![c] = d]
      PROVE  conn' \in [Clients -> Connection] /\ Others(c) /\ conn'[c] = d
  <2>1. d \in Connection
    BY <1>3
  <2> HIDE DEF c, opened, dropped
  <2> QED BY <1>1, <1>6, <2>1, Update DEF Others, Same
<1> HIDE DEF c
<1> QED BY <1>1, <1>4, <1>5, <1>6

LEMMA RecvConn ==
  ASSUME TcpAssumption, Types, SrvRecv
  PROVE  /\ conn' \in [Clients -> Connection] /\ Others(Current) /\ Current \in Clients
         /\ conn[Current].stream # << >> /\ srv'.at = conn[Current].stream[1] /\ srv'.pc = "parse"
         /\ srv'.fd = srv.fd /\ srv'.left = srv.left /\ srv'.at \in 1 .. MaxUnits
         /\ srv' \in Server
         /\ \E k \in 1 .. Len(conn[Current].stream) :
              /\ conn'[Current] = [conn[Current] EXCEPT !.stream = SubSeq(@, k + 1, Len(@))]
              /\ srv'.whole => Begins(srv'.at) /\ k >= MsgLen
<1> DEFINE c == Current
<1>1. c \in Clients /\ conn \in [Clients -> Connection] /\ conn[c] \in Connection /\ srv \in Server
  BY Served1, ConnType DEF Types, SrvRecv
<1>2. conn[c].stream \in Seq(1 .. MaxUnits) /\ conn[c].stream # << >>
      /\ DOMAIN conn[c].stream = 1 .. Len(conn[c].stream) /\ Len(conn[c].stream) \in Nat
  BY <1>1, LenProperties DEF SrvRecv, Connection
<1>3. PICK k \in 1 .. Len(conn[c].stream) :
        /\ srv' = [srv EXCEPT !.pc = "parse", !.at = Head(conn[c].stream),
                             !.whole = Begins(Head(conn[c].stream)) /\ k >= MsgLen]
        /\ conn' = [conn EXCEPT ![c].stream = SubSeq(@, k + 1, Len(@))]
  BY <1>2 DEF SrvRecv, Received
<1>4. SubSeq(conn[c].stream, k + 1, Len(conn[c].stream)) \in Seq(1 .. MaxUnits)
  <2>1. \A i \in k + 1 .. Len(conn[c].stream) : conn[c].stream[i] \in 1 .. MaxUnits
    <3>1. k \in 1 .. Len(conn[c].stream)
      BY <1>3
    <3>2. \A i \in k + 1 .. Len(conn[c].stream) : i \in 1 .. Len(conn[c].stream)
      BY <1>2, <3>1
    <3> HIDE DEF c
    <3> QED BY <1>2, <3>2, ElementOfSeq
  <2>2. k + 1 \in Int /\ Len(conn[c].stream) \in Int
    BY <1>2, <1>3
  <2> HIDE DEF c
  <2> QED BY <2>1, <2>2, SubSeqProperties
<1> DEFINE d == [conn[c] EXCEPT !.stream = SubSeq(@, k + 1, Len(@))]
<1>5. d \in Connection
  BY <1>1, <1>4 DEF Connection
<1>6. conn' = [conn EXCEPT ![c] = d]
  BY <1>3
<1>7. Head(conn[c].stream) = conn[c].stream[1] /\ Head(conn[c].stream) \in 1 .. MaxUnits
  BY <1>2, HeadTailProperties
<1> DEFINE first == Head(conn[c].stream)
           whole == Begins(first) /\ k >= MsgLen
<1>a. whole \in BOOLEAN /\ srv' = [srv EXCEPT !.pc = "parse", !.at = first, !.whole = whole]
  BY <1>3
<1> HIDE DEF c, d, first, whole
<1>8. conn' \in [Clients -> Connection] /\ conn'[c] = d /\ Others(c)
  BY <1>1, <1>5, <1>6, Update DEF Others, Same
<1>9. srv'.at = first /\ srv'.pc = "parse" /\ srv'.fd = srv.fd /\ srv'.left = srv.left
      /\ srv'.whole = whole
  BY <1>1, <1>a DEF Server
<1>10. srv' \in Server
  <2>1. first \in 0 .. MaxUnits
    BY <1>7 DEF first
  <2> QED BY <1>1, <1>a, <2>1 DEF Server, SrvPcs
<1>11. srv'.whole => Begins(srv'.at) /\ k >= MsgLen
  BY <1>9 DEF whole
<1> QED BY <1>1, <1>2, <1>3, <1>7, <1>8, <1>9, <1>10, <1>11 DEF c, d, first

\* A send delivers the whole rest, or one that is short; none to a client that left.
LEMMA SrvSendConn ==
  ASSUME TcpAssumption, Types, SrvSend
  PROVE  /\ conn' \in [Clients -> Connection] /\ Others(Current) /\ Current \in Clients
         /\ \/ conn' = conn
            \/ \E n \in 1 .. ReplyLen :
                 /\ conn'[Current] = [conn[Current] EXCEPT
                       !.got = Append(@, [at |-> srv.at, whole |-> srv.whole, from |-> 0, upto |-> n])]
                 /\ ~ShortSends => n = srv.left
                 /\ srv.left <= ReplyLen
<1> DEFINE c == Current
<1>1. c \in Clients /\ c = table[srv.fd] /\ conn \in [Clients -> Connection] /\ conn[c] \in Connection
      /\ srv \in Server
  BY Served1, ConnType DEF Types, SrvSend
<1>2. srv.left \in 1 .. ReplyLen + 1 /\ srv.at \in 1 .. MaxUnits /\ ReplyLen \in Nat
      /\ srv.whole \in BOOLEAN
  BY <1>1, TcpAssumption DEF Types, InHand, SrvSend, Server, TcpAssumption
<1>3. PICK n \in 1 .. srv.left : Deliver(c, n) /\ (~ShortSends => n = srv.left)
  BY <1>2 DEF SrvSend
<1>4. CASE conn[c].state # "open"
  <2>1. conn' = conn
    BY <1>3, <1>4 DEF Deliver
  <2> QED BY <1>1, <2>1 DEF Others, Same
<1>5. CASE conn[c].state = "open"
  <2>1. srv.left <= ReplyLen
    BY <1>1, <1>2, <1>5 DEF Types, InHand, SrvSend
  <2>2. n \in 1 .. ReplyLen
    BY <1>2, <1>3, <2>1
  <2> DEFINE u == [at |-> srv.at, whole |-> srv.whole, from |-> 0, upto |-> n]
             d == [conn[c] EXCEPT !.got = Append(@, u)]
  <2>3. u \in Chunk
    BY <1>2, <2>2 DEF Chunk
  <2>4. d \in Connection
    <3>1. Append(conn[c].got, u) \in Seq(Chunk)
      BY <1>1, <2>3, AppendProperties DEF Connection
    <3> HIDE DEF u
    <3> QED BY <1>1, <3>1 DEF Connection
  <2>5. conn' = [conn EXCEPT ![c] = d]
    BY <1>3, <1>5 DEF Deliver
  <2> HIDE DEF c, d
  <2>6. conn' \in [Clients -> Connection] /\ conn'[c] = d /\ Others(c)
    BY <1>1, <2>4, <2>5, Update DEF Others, Same
  <2> QED BY <1>1, <1>3, <2>1, <2>2, <2>6 DEF c, d
<1> QED BY <1>4, <1>5

LEMMA PushConn ==
  ASSUME TcpAssumption, Types, PushSend
  PROVE  /\ conn' \in [Clients -> Connection] /\ pushes' = pushes /\ push' = "idle"
         /\ \/ conn' = conn
            \/ \E c \in Clients :
                 Others(c) /\ conn'[c] = [conn[c] EXCEPT !.pushed = @ + 1]
<1>0. pushes' = pushes /\ push' = "idle" /\ push = "send"
  BY DEF PushSend
<1>1. conn \in [Clients -> Connection]
  BY ConnType DEF Types
<1>2. CASE conn' = conn
  BY <1>0, <1>1, <1>2
<1>3. CASE \E c \in Clients : conn' = [conn EXCEPT ![c].pushed = @ + 1]
  <2>1. PICK c \in Clients : conn' = [conn EXCEPT ![c].pushed = @ + 1]
    BY <1>3
  <2> DEFINE d == [conn[c] EXCEPT !.pushed = @ + 1]
  <2>2. conn[c].pushed + 1 \in 0 .. MaxPushes
    <3>1. conn[c].pushed \in 0 .. MaxPushes /\ pushes \in 0 .. MaxPushes /\ MaxPushes \in Nat
      BY <1>1, TcpAssumption DEF Connection, Types, TypeOK, TcpAssumption
    <3>2. conn[c].pushed + 1 <= pushes
      BY <1>0 DEF Types, Counted
    <3> QED BY <3>1, <3>2
  <2>3. d \in Connection
    BY <1>1, <2>2 DEF Connection
  <2>4. conn' = [conn EXCEPT ![c] = d]
    BY <2>1
  <2> HIDE DEF d
  <2>5. conn' \in [Clients -> Connection] /\ conn'[c] = d /\ Others(c)
    BY <1>1, <2>3, <2>4, Update DEF Others, Same
  <2> QED BY <1>0, <2>5 DEF d
<1> QED BY <1>2, <1>3 DEF PushSend

LEMMA CleanConn ==
  ASSUME TcpAssumption, Types, SrvCleanUp
  PROVE  /\ conn' \in [Clients -> Connection]
         /\ \A c \in Clients :
              \/ Same(c)
              \/ conn'[c] = [conn[c] EXCEPT !.state = "reset", !.stream = << >>]
<1>1. conn \in [Clients -> Connection]
  BY ConnType DEF Types
<1>2. << >> \in Seq(1 .. MaxUnits) /\ "reset" \in ConnStates
  BY EmptySeq DEF ConnStates
<1>3. \A c \in Clients : [conn[c] EXCEPT !.state = "reset", !.stream = << >>] \in Connection
  BY <1>1, <1>2 DEF Connection
<1> QED BY <1>1, <1>3 DEF SrvCleanUp, Same

\* One action either changes the connections as above, or not at all.
LEMMA QuietConn ==
  ASSUME TypeOK,
         \/ SrvSocket \/ SrvBind \/ SrvStore \/ SrvEnd \/ SrvParse \/ SrvSendFails \/ PushLook
         \/ UNCHANGED vars
  PROVE  conn' = conn
BY DEF SrvSocket, SrvBind, SrvStore, SrvEnd, SrvParse, SrvSendFails, PushLook, vars

\* Only the actions of the server and the push change what they hold.
ClientStep == \E c \in Clients : Connect(c) \/ ClientSend(c) \/ Leave(c) \/ Break(c)

LEMMA TypeStep ==
  ASSUME TcpAssumption, Types, [Next]_vars
  PROVE  TypeOK'
<1>0. conn \in [Clients -> Connection] /\ srv \in Server /\ queue \in Seq(Clients)
      /\ table \in [Fds -> Clients \union {"free", "listen"}]
      /\ listenSock \in Fds \union {NoFd} /\ _sock \in Fds \union {NoFd}
      /\ push \in {"idle", "send"} /\ pushes \in 0 .. MaxPushes
  BY ConnType DEF Types, TypeOK
<1> DEFINE Holds == srv.pc \in {"recv", "parse", "send"} => srv.fd \in Fds /\ table[srv.fd] \in Clients
<1>a. Holds
  BY DEF Types, TypeOK
<1>b. SUFFICES /\ conn' \in [Clients -> Connection] /\ queue' \in Seq(Clients)
               /\ table' \in [Fds -> Clients \union {"free", "listen"}] /\ srv' \in Server
               /\ listenSock' \in Fds \union {NoFd} /\ _sock' \in Fds \union {NoFd}
               /\ push' \in {"idle", "send"} /\ pushes' \in 0 .. MaxPushes
               /\ Holds'
  BY DEF TypeOK, Connection, Server
<1>1. CASE UNCHANGED vars
  BY <1>0, <1>a, <1>1 DEF vars
<1>2. CASE ClientStep
  <2>1. PICK c \in Clients : Connect(c) \/ ClientSend(c) \/ Leave(c) \/ Break(c)
    BY <1>2 DEF ClientStep
  <2>2. conn' \in [Clients -> Connection]
    BY <2>1, ConnectConn, SendConn, EndsConn
  <2>3. queue' \in Seq(Clients)
    <3>1. queue' = queue \/ queue' = Append(queue, c)
      BY <2>1 DEF Connect, ClientSend, Leave, Break
    <3> QED BY <1>0, <3>1, AppendProperties
  <2>4. UNCHANGED clientUnchanged
    BY <2>1 DEF Connect, ClientSend, Leave, Break
  <2> QED BY <1>0, <1>a, <2>2, <2>3, <2>4 DEF clientUnchanged
<1>3. CASE SrvSocket
  <2>1. conn' = conn /\ queue' = queue /\ _sock' = _sock /\ push' = push /\ pushes' = pushes
    BY <1>3 DEF SrvSocket, srvUnchanged
  <2>2. \/ /\ Free # {}
           /\ listenSock' = (CHOOSE s \in Free : TRUE)
           /\ table' = [table EXCEPT ![CHOOSE s \in Free : TRUE] = "listen"]
           /\ srv' = [srv EXCEPT !.pc = "bind"]
        \/ listenSock' = NoFd /\ table' = table /\ srv' = [srv EXCEPT !.pc = "dead"]
    BY <1>3 DEF SrvSocket
  <2>3. Free # {} => (CHOOSE s \in Free : TRUE) \in Fds
    BY Chosen DEF Free
  <2>4. listenSock' \in Fds \union {NoFd}
    BY <2>2, <2>3
  <2>5. table' \in [Fds -> Clients \union {"free", "listen"}]
    BY <1>0, <2>2, <2>3
  <2>6. srv' \in Server /\ srv'.pc \in {"bind", "dead"}
    BY <1>0, <2>2 DEF Server, SrvPcs
  <2> QED BY <1>0, <2>1, <2>4, <2>5, <2>6
<1>4. CASE SrvBind
  <2>1. UNCHANGED <<conn, queue, table, listenSock, _sock, push, pushes>>
    BY <1>4 DEF SrvBind, srvUnchanged
  <2>2. srv' \in Server /\ srv'.pc \in {"accept", "cleanup"}
    BY <1>0, <1>4 DEF SrvBind, Server, SrvPcs
  <2> QED BY <1>0, <2>1, <2>2
<1>5. CASE SrvAccept
  <2>1. conn' \in [Clients -> Connection]
    BY <1>5, AcceptConn
  <2>2. queue' \in Seq(Clients) /\ Head(queue) \in Clients
    BY <1>0, <1>5, HeadTailProperties DEF SrvAccept
  <2>3. (CHOOSE s \in Free : TRUE) \in Fds
    BY <1>5, Chosen DEF SrvAccept, Free
  <2>4. table' \in [Fds -> Clients \union {"free", "listen"}]
    BY <1>0, <1>5, <2>2, <2>3 DEF SrvAccept
  <2>5. srv' \in Server /\ srv'.pc = "store"
    BY <1>0, <1>5, <2>3 DEF SrvAccept, Server, SrvPcs
  <2>6. UNCHANGED <<listenSock, _sock, push, pushes>>
    BY <1>5 DEF SrvAccept, srvUnchanged
  <2> QED BY <1>0, <2>1, <2>2, <2>4, <2>5, <2>6
<1>6. CASE SrvAcceptFails
  <2>1. conn' \in [Clients -> Connection]
    BY <1>6, AcceptConn
  <2>2. queue' \in Seq(Clients)
    BY <1>0, <1>6, HeadTailProperties DEF SrvAcceptFails
  <2>3. srv' \in Server /\ srv'.pc = "store"
    BY <1>0, <1>6 DEF SrvAcceptFails, Server, SrvPcs
  <2>4. UNCHANGED <<table, listenSock, _sock, push, pushes>>
    BY <1>6 DEF SrvAcceptFails, srvUnchanged
  <2> QED BY <1>0, <2>1, <2>2, <2>3, <2>4
<1>7. CASE SrvStore
  <2>1. UNCHANGED <<conn, queue, table, listenSock, push, pushes>>
    BY <1>7 DEF SrvStore, srvUnchanged
  <2>2. srv.fd \in Fds \union {NoFd} /\ _sock' = srv.fd
    BY <1>0, <1>7 DEF SrvStore, Server
  <2>3. srv' \in Server /\ srv'.fd = srv.fd /\ (srv'.pc = "cleanup" \/ srv.fd # NoFd)
    BY <1>0, <1>7 DEF SrvStore, Server, SrvPcs
  <2>4. srv.fd # NoFd => table[srv.fd] \in Clients
    BY <1>7 DEF SrvStore, Types, InHand
  <2> QED BY <1>0, <2>1, <2>2, <2>3, <2>4
<1>8. CASE SrvRecv
  <2>1. conn' \in [Clients -> Connection] /\ srv'.fd = srv.fd
    BY <1>8, RecvConn
  <2>2. UNCHANGED <<queue, table, listenSock, _sock, push, pushes>>
    BY <1>8 DEF SrvRecv, srvUnchanged
  <2>3. srv' \in Server
    BY <1>8, RecvConn
  <2> QED BY <1>0, <1>8, <1>a, <2>1, <2>2, <2>3 DEF SrvRecv
<1>9. CASE SrvEnd
  <2>1. UNCHANGED <<conn, queue, table, listenSock, _sock, push, pushes>>
    BY <1>9 DEF SrvEnd, srvUnchanged
  <2>2. srv' \in Server /\ srv'.pc = "accept"
    BY <1>0, <1>9 DEF SrvEnd, Server, SrvPcs
  <2> QED BY <1>0, <2>1, <2>2
<1>10. CASE SrvParse
  <2>1. UNCHANGED <<conn, queue, table, listenSock, _sock, push, pushes>>
    BY <1>10 DEF SrvParse, srvUnchanged
  <2>2. ReplyLen \in 0 .. ReplyLen + 1
    BY TcpAssumption DEF TcpAssumption
  <2>3. srv' \in Server /\ srv'.fd = srv.fd
    BY <1>0, <1>10, <2>2 DEF SrvParse, Server, SrvPcs
  <2> QED BY <1>0, <1>10, <1>a, <2>1, <2>3 DEF SrvParse
<1>11. CASE SrvSend
  <2>1. conn' \in [Clients -> Connection]
    BY <1>11, SrvSendConn
  <2>2. UNCHANGED <<queue, table, listenSock, _sock, push, pushes>>
    BY <1>11 DEF SrvSend, srvUnchanged
  <2>3. srv' \in Server /\ srv'.fd = srv.fd
    <3>1. srv.left \in 1 .. ReplyLen + 1 /\ ReplyLen \in Nat
      BY <1>0, <1>11, TcpAssumption DEF Types, InHand, SrvSend, Server, TcpAssumption
    <3>2. PICK w \in (IF ShortSends THEN 1 .. srv.left ELSE {srv.left}) :
            srv' = [srv EXCEPT !.left = @ - w, !.pc = IF w = srv.left THEN "recv" ELSE "send"]
      BY <1>11 DEF SrvSend
    <3>3. w \in 1 .. srv.left
      BY <3>1, <3>2
    <3>4. srv.left - w \in 0 .. ReplyLen + 1
      BY <3>1, <3>3
    <3> QED BY <1>0, <3>2, <3>4 DEF Server, SrvPcs
  <2> QED BY <1>0, <1>11, <1>a, <2>1, <2>2, <2>3 DEF SrvSend
<1>12. CASE SrvSendFails
  <2>1. UNCHANGED <<conn, queue, table, listenSock, _sock, push, pushes>>
    BY <1>12 DEF SrvSendFails, srvUnchanged
  <2>2. PICK n : srv' = [srv EXCEPT !.left = n] /\ n = IF srv.left > ReplyLen THEN srv.left ELSE srv.left + 1
    BY <1>12 DEF SrvSendFails
  <2>3. n \in 0 .. ReplyLen + 1
    <3>1. srv.left \in 0 .. ReplyLen + 1 /\ ReplyLen \in Nat
      BY <1>0, TcpAssumption DEF Server, TcpAssumption
    <3> QED BY <2>2, <3>1
  <2>4. srv' \in Server /\ srv'.fd = srv.fd /\ srv'.pc = srv.pc
    BY <1>0, <2>2, <2>3 DEF Server
  <2> QED BY <1>0, <1>a, <2>1, <2>4
<1>13. CASE SrvCleanUp
  <2>1. conn' \in [Clients -> Connection]
    BY <1>13, CleanConn
  <2>2. queue' \in Seq(Clients)
    BY <1>13, EmptySeq DEF SrvCleanUp
  <2>3. table' \in [Fds -> Clients \union {"free", "listen"}]
    BY <1>0, <1>13 DEF SrvCleanUp
  <2>4. srv' \in Server /\ srv'.pc = "dead"
    BY <1>0, <1>13 DEF SrvCleanUp, Server, SrvPcs
  <2>5. UNCHANGED <<listenSock, _sock, push, pushes>>
    BY <1>13 DEF SrvCleanUp, srvUnchanged
  <2> QED BY <1>0, <2>1, <2>2, <2>3, <2>4, <2>5
<1>14. CASE PushLook
  <2>1. UNCHANGED <<conn, queue, table, listenSock, _sock, srv>>
    BY <1>14 DEF PushLook, pushUnchanged
  <2>2. push' \in {"idle", "send"}
    BY <1>14 DEF PushLook
  <2>3. pushes' \in 0 .. MaxPushes
    <3>1. MaxPushes \in Nat /\ pushes < MaxPushes /\ pushes' = pushes + 1
      BY <1>14, TcpAssumption DEF PushLook, TcpAssumption
    <3> QED BY <1>0, <3>1
  <2> QED BY <1>0, <1>a, <2>1, <2>2, <2>3
<1>15. CASE PushSend
  <2>1. UNCHANGED pushUnchanged
    BY <1>15 DEF PushSend
  <2> QED BY <1>0, <1>15, <1>a, <2>1, PushConn DEF pushUnchanged
<1> QED
  BY <1>1, <1>2, <1>3, <1>4, <1>5, <1>6, <1>7, <1>8, <1>9, <1>10, <1>11, <1>12, <1>13, <1>14, <1>15
  DEF Next, Srv, ClientStep

LEMMA ClientConn ==
  ASSUME TcpAssumption, Types, NEW c \in Clients, Connect(c) \/ ClientSend(c) \/ Leave(c) \/ Break(c)
  PROVE  /\ Others(c) /\ conn'[c].got = conn[c].got /\ conn'[c].pushed = conn[c].pushed
         /\ conn[c].state # "open" => conn'[c].state # "open"
<1>0. conn[c] \in Connection
  BY ConnType DEF Types
<1>1. CASE Connect(c)
  BY <1>0, <1>1, ConnectConn DEF Connection
<1>2. CASE ClientSend(c)
  BY <1>0, <1>2, SendConn DEF Connection
<1>3. CASE Leave(c) \/ Break(c)
  <2>1. PICK state \in ConnStates \ {"open"}, stream \in {<< >>, conn[c].stream} :
          conn'[c] = [conn[c] EXCEPT !.state = state, !.stream = stream]
    BY <1>3, EndsConn
  <2> QED BY <1>0, <1>3, <2>1, EndsConn DEF Connection
<1> QED BY <1>1, <1>2, <1>3

LEMMA CountedStep ==
  ASSUME TcpAssumption, Types, TypeOK', [Next]_vars
  PROVE  Counted'
<1>0. /\ conn \in [Clients -> Connection] /\ pushes \in Int
      /\ \A c \in Clients : conn[c].pushed \in Int /\ conn'[c].pushed \in Int
  <2>1. conn \in [Clients -> Connection] /\ conn' \in [Clients -> Connection] /\ pushes \in Int
    <3>1. conn \in [Clients -> Connection]
      BY ConnType DEF Types
    <3>2. conn' \in [Clients -> Connection]
      BY DEF TypeOK, Connection
    <3>3. pushes \in 0 .. MaxPushes
      BY DEF Types, TypeOK
    <3> QED BY <3>1, <3>2, <3>3
  <2>2. \A c \in Clients : conn[c].pushed \in 0 .. MaxPushes /\ conn'[c].pushed \in 0 .. MaxPushes
    BY <2>1 DEF Connection
  <2> QED BY <2>1, <2>2
<1>1. ASSUME \A c \in Clients : conn'[c].pushed = conn[c].pushed, push' = push, pushes' = pushes
      PROVE  Counted'
  BY <1>1 DEF Types, Counted
<1>2. CASE ClientStep
  <2>1. PICK c \in Clients : Connect(c) \/ ClientSend(c) \/ Leave(c) \/ Break(c)
    BY <1>2 DEF ClientStep
  <2>2. Others(c) /\ conn'[c].pushed = conn[c].pushed
    BY <2>1, ClientConn
  <2>3. push' = push /\ pushes' = pushes
    BY <2>1 DEF Connect, ClientSend, Leave, Break, clientUnchanged
  <2> QED BY <1>1, <2>2, <2>3 DEF Others, Same
<1>3. CASE SrvAccept \/ SrvAcceptFails
  <2>1. PICK c \in Clients : Others(c) /\ conn'[c].pushed = conn[c].pushed
    BY <1>0, <1>3, AcceptConn DEF Connection
  <2>2. push' = push /\ pushes' = pushes
    BY <1>3 DEF SrvAccept, SrvAcceptFails, srvUnchanged
  <2> QED BY <1>1, <2>1, <2>2 DEF Others, Same
<1>4. CASE SrvRecv
  <2>1. Others(Current) /\ conn'[Current].pushed = conn[Current].pushed
    BY <1>0, <1>4, RecvConn DEF Connection
  <2>2. push' = push /\ pushes' = pushes
    BY <1>4 DEF SrvRecv, srvUnchanged
  <2> QED BY <1>1, <2>1, <2>2 DEF Others, Same
<1>5. CASE SrvSend
  <2>1. Others(Current) /\ conn'[Current].pushed = conn[Current].pushed
    BY <1>0, <1>5, SrvSendConn DEF Connection
  <2>2. push' = push /\ pushes' = pushes
    BY <1>5 DEF SrvSend, srvUnchanged
  <2> QED BY <1>1, <2>1, <2>2 DEF Others, Same
<1>6. CASE SrvCleanUp
  <2>1. \A c \in Clients : conn'[c].pushed = conn[c].pushed
    BY <1>0, <1>6, CleanConn DEF Connection, Same
  <2>2. push' = push /\ pushes' = pushes
    BY <1>6 DEF SrvCleanUp, srvUnchanged
  <2> QED BY <1>1, <2>1, <2>2
<1>7. CASE \/ SrvSocket \/ SrvBind \/ SrvStore \/ SrvEnd \/ SrvParse \/ SrvSendFails
           \/ UNCHANGED vars
  <2>1. conn' = conn
    BY <1>7, QuietConn DEF Types
  <2>2. push' = push /\ pushes' = pushes
    BY <1>7 DEF SrvSocket, SrvBind, SrvStore, SrvEnd, SrvParse, SrvSendFails, srvUnchanged, vars
  <2> QED BY <1>1, <2>1, <2>2
<1>8. CASE PushLook
  <2>1. conn' = conn /\ pushes' = pushes + 1 /\ push = "idle"
    BY <1>8 DEF PushLook
  <2> QED BY <1>0, <2>1 DEF Types, Counted
<1>9. CASE PushSend
  <2>1. push = "send" /\ push' = "idle" /\ pushes' = pushes
    BY <1>9, PushConn DEF PushSend
  <2>2. \A c \in Clients : conn'[c].pushed <= conn[c].pushed + 1
    <3>1. CASE conn' = conn
      <4>1. \A c \in Clients : conn'[c].pushed = conn[c].pushed
        BY <3>1
      <4> QED BY <1>0, <4>1
    <3>2. ASSUME NEW c \in Clients, Others(c), conn'[c] = [conn[c] EXCEPT !.pushed = @ + 1]
          PROVE  \A d \in Clients : conn'[d].pushed <= conn[d].pushed + 1
      <4>1. conn[c] \in Connection
        BY <1>0
      <4>2. conn'[c].pushed = conn[c].pushed + 1
        BY <3>2, <4>1 DEF Connection
      <4>3. \A d \in Clients \ {c} : conn'[d].pushed = conn[d].pushed
        BY <3>2 DEF Others, Same
      <4> QED BY <1>0, <4>2, <4>3
    <3> QED BY <1>9, <3>1, <3>2, PushConn
  <2> QED BY <1>0, <2>1, <2>2 DEF Types, Counted
<1> QED
  BY <1>2, <1>3, <1>4, <1>5, <1>6, <1>7, <1>8, <1>9 DEF Next, Srv, ClientStep

LEMMA InHandStep ==
  ASSUME TcpAssumption, Types, TypeOK', [Next]_vars
  PROVE  InHand'
<1>0. conn \in [Clients -> Connection] /\ srv \in Server /\ srv' \in Server /\ ReplyLen \in Nat \ {0}
      /\ table \in [Fds -> Clients \union {"free", "listen"}] /\ InHand
      /\ (srv.pc \in {"recv", "parse", "send"} => srv.fd \in Fds /\ table[srv.fd] \in Clients)
  BY TcpAssumption, ConnType DEF Types, TypeOK, Server, TcpAssumption
<1>1. ASSUME srv' = srv, table' = table,
             \A c \in Clients : conn[c].state # "open" => conn'[c].state # "open" \/ srv.pc # "send"
      PROVE  InHand'
  BY <1>0, <1>1 DEF InHand
<1>2. CASE ClientStep
  <2>1. PICK c \in Clients : Connect(c) \/ ClientSend(c) \/ Leave(c) \/ Break(c)
    BY <1>2 DEF ClientStep
  <2>2. Others(c) /\ (conn[c].state # "open" => conn'[c].state # "open")
    BY <2>1, ClientConn
  <2>3. srv' = srv /\ table' = table
    BY <2>1 DEF Connect, ClientSend, Leave, Break, clientUnchanged
  <2> QED BY <1>1, <2>2, <2>3 DEF Others, Same
<1>3. ASSUME srv'.pc \in SrvPcs \ {"store", "parse", "send"}
      PROVE  InHand'
  BY <1>3 DEF InHand
<1>4. CASE SrvSocket \/ SrvBind \/ SrvStore \/ SrvEnd \/ SrvCleanUp
  <2>1. srv'.pc \in SrvPcs \ {"store", "parse", "send"}
    BY <1>0, <1>4 DEF SrvSocket, SrvBind, SrvStore, SrvEnd, SrvCleanUp, Server, SrvPcs
  <2> QED BY <1>3, <2>1
<1>5. CASE SrvAccept
  <2>1. srv'.pc = "store" /\ srv'.fd = (CHOOSE s \in Free : TRUE)
        /\ table' = [table EXCEPT ![CHOOSE s \in Free : TRUE] = Head(queue)]
    BY <1>0, <1>5 DEF SrvAccept, Server
  <2>2. (CHOOSE s \in Free : TRUE) \in Fds
    BY <1>5, Chosen DEF SrvAccept, Free
  <2>3. Head(queue) \in Clients
    BY <1>5, HeadTailProperties DEF SrvAccept, Types, TypeOK
  <2> QED BY <1>0, <2>1, <2>2, <2>3 DEF InHand
<1>6. CASE SrvAcceptFails
  <2>1. srv'.pc = "store" /\ srv'.fd = NoFd
    BY <1>0, <1>6 DEF SrvAcceptFails, Server
  <2> QED BY <2>1 DEF InHand
<1>7. CASE SrvRecv
  BY <1>7, RecvConn DEF InHand
<1>8. CASE SrvParse
  <2>1. srv'.pc = "send" /\ srv'.left = ReplyLen /\ srv'.at = srv.at /\ srv.pc = "parse"
    BY <1>0, <1>8 DEF SrvParse, Server
  <2>2. ~(ReplyLen > ReplyLen)
    BY <1>0
  <2> QED BY <1>0, <2>1, <2>2 DEF InHand
<1>9. CASE SrvSend
  <2>1. srv.left \in 1 .. ReplyLen + 1 /\ srv.at \in 1 .. MaxUnits
    BY <1>0, <1>9 DEF InHand, SrvSend, Server
  <2>2. PICK w \in (IF ShortSends THEN 1 .. srv.left ELSE {srv.left}) :
          srv' = [srv EXCEPT !.left = @ - w, !.pc = IF w = srv.left THEN "recv" ELSE "send"]
    BY <1>9 DEF SrvSend
  <2>3. w \in 1 .. srv.left
    BY <2>1, <2>2
  <2>4. w # srv.left => srv.left - w # 0 /\ ~(srv.left - w > ReplyLen)
    BY <1>0, <2>1, <2>3
  <2>5. srv'.at = srv.at /\ srv'.left = srv.left - w /\ (srv'.pc = "recv" \/ (srv'.pc = "send" /\ w # srv.left))
    BY <1>0, <2>2 DEF Server
  <2> QED BY <2>1, <2>4, <2>5 DEF InHand
<1>10. CASE SrvSendFails
  <2>1. conn' = conn /\ table' = table /\ conn[table[srv.fd]].state # "open"
    BY <1>0, <1>10, Served1 DEF SrvSendFails, srvUnchanged, Types
  <2>2. PICK n : srv' = [srv EXCEPT !.left = n] /\ n = IF srv.left > ReplyLen THEN srv.left ELSE srv.left + 1
    BY <1>10 DEF SrvSendFails
  <2>3. n # 0
    <3>1. srv.left \in 0 .. ReplyLen + 1
      BY <1>0 DEF Server
    <3> QED BY <1>0, <2>2, <3>1
  <2>4. srv'.pc = srv.pc /\ srv'.at = srv.at /\ srv'.whole = srv.whole /\ srv'.fd = srv.fd
        /\ srv'.left = n /\ srv.pc = "send"
    BY <1>0, <1>10, <2>2 DEF Server, SrvSendFails
  <2> QED BY <1>0, <2>1, <2>3, <2>4 DEF InHand
<1>11. CASE PushLook \/ UNCHANGED vars
  BY <1>1, <1>11, QuietConn DEF PushLook, pushUnchanged, vars, Types
<1>12. CASE PushSend
  <2>1. srv' = srv /\ table' = table
    BY <1>12 DEF PushSend, pushUnchanged
  <2>2. \A c \in Clients : conn'[c].state = conn[c].state
    <3>1. CASE \E c \in Clients : Others(c) /\ conn'[c] = [conn[c] EXCEPT !.pushed = @ + 1]
      BY ZenonT(30), <1>0, <3>1 DEF Others, Same, Connection
    <3> QED BY <1>12, <3>1, PushConn
  <2> QED BY <1>1, <2>1, <2>2
<1> QED
  BY <1>2, <1>4, <1>5, <1>6, <1>7, <1>8, <1>9, <1>10, <1>11, <1>12 DEF Next, Srv, ClientStep

----------------------------------------------------------------------------
(* The order of messages and replies, connection by connection: those      *)
(* answered, the one in hand, those under way.                             *)

Ordered(d) ==
  /\ \A i, j \in 1 .. Len(d.stream) : i < j => d.stream[i] + (j - i) <= d.stream[j]
  /\ \A k \in 1 .. Len(d.stream) : d.stream[k] <= d.sent
  /\ \A i \in 1 .. Len(d.got) : 
       d.got[i].at + Covered(d.got[i]) <= d.sent + 1 /\ (d.got[i].whole => Begins(d.got[i].at))
  /\ \A i, j \in 1 .. Len(d.got) : i < j => d.got[i].at + Covered(d.got[i]) <= d.got[j].at
  /\ \A i \in 1 .. Len(d.got), k \in 1 .. Len(d.stream) :
       d.got[i].at + Covered(d.got[i]) <= d.stream[k]

\* The part u begins with is the next one to answer.
Due(d, u) ==
  /\ u.at + Covered(u) <= d.sent + 1 /\ (u.whole => Begins(u.at))
  /\ \A i \in 1 .. Len(d.got) : d.got[i].at + Covered(d.got[i]) <= u.at
  /\ \A k \in 1 .. Len(d.stream) : u.at + Covered(u) <= d.stream[k]

WholeReplies(d) == \A i \in 1 .. Len(d.got) : d.got[i].from = 0 /\ d.got[i].upto = ReplyLen

Order ==
  /\ \A c \in Clients : Ordered(conn[c]) /\ WholeReplies(conn[c])
  /\ srv.pc \in {"parse", "send"} => Due(conn[table[srv.fd]], srv)
  /\ srv.pc = "send" => srv.left >= ReplyLen

LEMMA CoveredType ==
  ASSUME TcpAssumption
  PROVE  \A u : Covered(u) \in Nat \ {0}
BY DEF TcpAssumption, Covered

\* What is due depends on the part and on whether it is whole.
LEMMA DueSame ==
  ASSUME NEW d, NEW u, NEW v, v.at = u.at, v.whole = u.whole, Due(d, u)
  PROVE  Due(d, v)
<1>1. Covered(v) = Covered(u)
  BY DEF Covered
<1> QED BY <1>1 DEF Due

\* Numbers of a connection's units and replies.
LEMMA Numbers ==
  ASSUME TcpAssumption, NEW d \in Connection
  PROVE  /\ d.sent \in Nat
         /\ d.stream \in Seq(1 .. MaxUnits) /\ Len(d.stream) \in Nat
         /\ \A k \in 1 .. Len(d.stream) : d.stream[k] \in Nat
         /\ d.got \in Seq(Chunk) /\ Len(d.got) \in Nat
         /\ \A i \in 1 .. Len(d.got) : d.got[i].at \in Nat /\ Covered(d.got[i]) \in Nat \ {0}
<1>1. d.sent \in 0 .. MaxUnits /\ d.stream \in Seq(1 .. MaxUnits) /\ d.got \in Seq(Chunk)
  BY DEF Connection
<1>2. Len(d.stream) \in Nat /\ Len(d.got) \in Nat
  BY <1>1, LenProperties
<1>3. \A k \in 1 .. Len(d.stream) : d.stream[k] \in 1 .. MaxUnits
  BY <1>1, ElementOfSeq
<1>4. \A i \in 1 .. Len(d.got) : d.got[i] \in Chunk
  BY <1>1, ElementOfSeq
<1>5. \A i \in 1 .. Len(d.got) : d.got[i].at \in 1 .. MaxUnits
  BY <1>4 DEF Chunk
<1>6. \A n \in 1 .. MaxUnits : n \in Nat
  OBVIOUS
<1> QED BY <1>1, <1>2, <1>3, <1>5, <1>6, CoveredType

\* What else happens to a connection: its state, its pushes, units lost.
LEMMA KeepsOrder ==
  ASSUME NEW d \in Connection, NEW e \in Connection,
         e.sent = d.sent, e.got = d.got, e.stream = d.stream \/ e.stream = << >>
  PROVE  /\ Ordered(d) /\ WholeReplies(d) => Ordered(e) /\ WholeReplies(e)
         /\ \A u : Due(d, u) => Due(e, u)
<1>1. e.stream = << >> => 1 .. Len(e.stream) = {}
  BY EmptySeq
<1> QED BY <1>1 DEF Ordered, WholeReplies, Due

\* Sums about positions in a stream.
LEMMA LastOf ==
  ASSUME NEW x \in Int, NEW last \in Int, NEW sent \in Int, NEW i \in Int, NEW n \in Int,
         i <= n, x <= sent, last <= sent, i < n => x + (n - i) <= last
  PROVE  x + (n + 1 - i) <= sent + 1
OBVIOUS

LEMMA PastCovered ==
  ASSUME NEW x \in Int, NEW y \in Int, NEW n \in Int, NEW k \in Int, NEW covered \in Int,
         covered <= n, k >= 1, x + (n + k - 1) <= y
  PROVE  x + covered <= y
OBVIOUS

LEMMA SendKeepsOrder ==
  ASSUME TcpAssumption, NEW d \in Connection, NEW e \in Connection, Ordered(d), WholeReplies(d),
         d.sent + 1 \in 1 .. MaxUnits,
         e.sent = d.sent + 1, e.got = d.got, e.stream = Append(d.stream, d.sent + 1)
  PROVE  /\ Ordered(e) /\ WholeReplies(e)
         /\ \A u : u.at \in Nat /\ Due(d, u) => Due(e, u)
<1>1. /\ Len(e.stream) = Len(d.stream) + 1 /\ e.stream[Len(d.stream) + 1] = d.sent + 1
      /\ \A k \in 1 .. Len(d.stream) : e.stream[k] = d.stream[k]
      /\ Len(d.stream) \in Nat
  <2>1. d.sent + 1 \in 1 .. MaxUnits /\ d.stream \in Seq(1 .. MaxUnits)
    BY Numbers
  <2> QED BY <2>1, AppendProperties, LenProperties
<1>2. \A k \in 1 .. Len(e.stream) : k \in 1 .. Len(d.stream) \/ k = Len(d.stream) + 1
  BY <1>1
<1>3. /\ d.sent \in Nat /\ \A k \in 1 .. Len(d.stream) : d.stream[k] \in Nat
      /\ \A i \in 1 .. Len(d.got) : d.got[i].at \in Nat /\ Covered(d.got[i]) \in Nat \ {0}
  BY Numbers
<1>5. \A i, j \in 1 .. Len(e.stream) : i < j => e.stream[i] + (j - i) <= e.stream[j]
  <2>1. \A i, j \in 1 .. Len(e.stream) : i < j => i \in 1 .. Len(d.stream)
    BY <1>1
  <2>2. \A i \in 1 .. Len(d.stream) : d.stream[i] + (Len(d.stream) + 1 - i) <= d.sent + 1
    <3> TAKE i \in 1 .. Len(d.stream)
    <3>1. Len(d.stream) \in 1 .. Len(d.stream)
      BY <1>1
    <3>2. d.stream[Len(d.stream)] <= d.sent /\ d.stream[i] <= d.sent
      BY <3>1 DEF Ordered
    <3>3. i < Len(d.stream) => d.stream[i] + (Len(d.stream) - i) <= d.stream[Len(d.stream)]
      BY <3>1 DEF Ordered
    <3>4. i \in Int /\ Len(d.stream) \in Int /\ i <= Len(d.stream) /\ d.sent \in Int
          /\ d.stream[i] \in Int /\ d.stream[Len(d.stream)] \in Int
      <4>1. d.stream[i] \in Nat /\ d.stream[Len(d.stream)] \in Nat
        BY <1>3, <3>1
      <4> QED BY <1>1, <1>3, <4>1
    <3> QED BY <3>2, <3>3, <3>4, LastOf
  <2> SUFFICES ASSUME NEW i \in 1 .. Len(e.stream), NEW j \in 1 .. Len(e.stream), i < j
               PROVE  e.stream[i] + (j - i) <= e.stream[j]
    OBVIOUS
  <2>3. i \in 1 .. Len(d.stream) /\ e.stream[i] = d.stream[i]
    BY <1>1, <2>1
  <2>4. CASE j \in 1 .. Len(d.stream)
    BY <1>1, <2>3, <2>4 DEF Ordered
  <2>5. CASE j = Len(d.stream) + 1
    BY <1>1, <2>2, <2>3, <2>5
  <2> QED BY <1>2, <2>4, <2>5
<1>6. \A k \in 1 .. Len(e.stream) : e.stream[k] <= e.sent
  BY <1>1, <1>2, <1>3 DEF Ordered
<1>7. \A i \in 1 .. Len(d.got) :
        /\ d.got[i].at + Covered(d.got[i]) <= d.sent + 1
        /\ d.got[i].at + Covered(d.got[i]) <= e.sent + 1
        /\ d.got[i].whole => Begins(d.got[i].at)
  <2>1. \A i \in 1 .. Len(d.got) : d.got[i].at + Covered(d.got[i]) <= d.sent + 1
    BY DEF Ordered
  <2>2. \A i \in 1 .. Len(d.got) : d.got[i].at + Covered(d.got[i]) <= e.sent + 1
    BY <1>3, <2>1
  <2> QED BY <2>1, <2>2 DEF Ordered
<1>8. \A i \in 1 .. Len(e.got), k \in 1 .. Len(e.stream) :
        e.got[i].at + Covered(e.got[i]) <= e.stream[k]
  BY <1>1, <1>2, <1>7 DEF Ordered
<1>9. Ordered(e) /\ WholeReplies(e)
  BY <1>5, <1>6, <1>7, <1>8 DEF Ordered, WholeReplies
<1>10. ASSUME NEW u, u.at \in Nat, Due(d, u)
       PROVE  Due(e, u)
  <2>0. Covered(u) \in Nat
    BY CoveredType
  <2>1. u.at + Covered(u) <= d.sent + 1 /\ u.at + Covered(u) <= e.sent + 1
    BY <1>3, <1>10, <2>0 DEF Due
  <2>2. \A k \in 1 .. Len(e.stream) : u.at + Covered(u) <= e.stream[k]
    BY <1>1, <1>2, <1>10, <2>1 DEF Due
  <2> QED BY <1>10, <2>1, <2>2 DEF Due
<1> QED BY <1>9, <1>10

LEMMA RecvKeepsOrder ==
  ASSUME TcpAssumption, NEW d \in Connection, NEW e \in Connection, Ordered(d), WholeReplies(d),
         d.stream # << >>, NEW n \in 1 .. Len(d.stream),
         e.sent = d.sent, e.got = d.got, e.stream = SubSeq(d.stream, n + 1, Len(d.stream)),
         NEW u, u.at = d.stream[1], u.whole => Begins(u.at) /\ n >= MsgLen
  PROVE  Ordered(e) /\ WholeReplies(e) /\ Due(e, u)
<1>1. Len(d.stream) \in Nat /\ d.stream \in Seq(1 .. MaxUnits)
  BY Numbers
<1>2. /\ Len(e.stream) = Len(d.stream) - n
      /\ \A k \in 1 .. Len(e.stream) : e.stream[k] = d.stream[n + k]
  <2>1. \A i \in n + 1 .. Len(d.stream) : d.stream[i] \in 1 .. MaxUnits
    <3>1. \A i \in n + 1 .. Len(d.stream) : i \in 1 .. Len(d.stream)
      BY <1>1
    <3> QED BY <1>1, <3>1, ElementOfSeq
  <2>2. /\ Len(e.stream) = IF n + 1 <= Len(d.stream) THEN Len(d.stream) - (n + 1) + 1 ELSE 0
        /\ \A k \in 1 .. Len(d.stream) - (n + 1) + 1 : e.stream[k] = d.stream[n + 1 + k - 1]
    <3>1. n + 1 \in Int /\ Len(d.stream) \in Int
      BY <1>1
    <3> QED BY <2>1, <3>1, SubSeqProperties
  <2>3. Len(e.stream) = Len(d.stream) - n
    BY <1>1, <2>2
  <2>4. \A k \in 1 .. Len(e.stream) : k \in 1 .. Len(d.stream) - (n + 1) + 1 /\ n + 1 + k - 1 = n + k
    BY <1>1, <2>3
  <2> QED BY <2>2, <2>3, <2>4
<1>3. \A k \in 1 .. Len(e.stream) : n + k \in 1 .. Len(d.stream) /\ 1 < n + k
  BY <1>1, <1>2
<1>4. \A i, j \in 1 .. Len(e.stream) : i < j => n + i < n + j /\ (n + j) - (n + i) = j - i
  BY <1>1, <1>2
<1>5. 1 \in 1 .. Len(d.stream)
  BY <1>1
<1>6. Ordered(e) /\ WholeReplies(e)
  BY <1>2, <1>3, <1>4 DEF Ordered, WholeReplies
<1>7. d.sent \in Nat /\ u.at \in Nat /\ \A k \in 1 .. Len(d.stream) : d.stream[k] \in Nat
  BY <1>5, Numbers
<1>8. Covered(u) \in Nat /\ Covered(u) <= n
  BY <1>1, TcpAssumption DEF Covered, TcpAssumption
<1>9. u.at + Covered(u) <= d.sent + 1
  <2>1. Len(d.stream) \in 1 .. Len(d.stream)
    BY <1>1
  <2>2. d.stream[Len(d.stream)] <= d.sent
    BY <2>1 DEF Ordered
  <2>3. 1 < Len(d.stream) => d.stream[1] + (Len(d.stream) - 1) <= d.stream[Len(d.stream)]
    BY <1>5, <2>1 DEF Ordered
  <2> DEFINE last == d.stream[Len(d.stream)]
  <2>4. 1 \in Int /\ Len(d.stream) \in Int /\ 1 <= Len(d.stream) /\ d.sent \in Int
        /\ d.stream[1] \in Int /\ last \in Int
    <3>1. last \in Nat /\ d.stream[1] \in Nat
      BY <1>5, <1>7, <2>1
    <3> QED BY <1>1, <1>7, <2>1, <3>1
  <2>5. d.stream[1] <= d.sent
    BY <1>5 DEF Ordered
  <2>6. d.stream[1] + (Len(d.stream) + 1 - 1) <= d.sent + 1
    BY <2>2, <2>3, <2>4, <2>5, LastOf
  <2>7. u.at + Len(d.stream) <= d.sent + 1
    <3> DEFINE x == d.stream[1]  n1 == Len(d.stream)  s1 == d.sent
    <3>1. x \in Int /\ n1 \in Int /\ s1 \in Int /\ x + (n1 + 1 - 1) <= s1 + 1
      BY <2>4, <2>6
    <3> HIDE DEF x, n1, s1
    <3>2. x + n1 <= s1 + 1
      BY <3>1
    <3> QED BY <3>2 DEF x, n1, s1
  <2>8. Covered(u) <= Len(d.stream)
    BY <1>1, <1>8
  <2> QED BY <1>7, <1>8, <2>4, <2>7, <2>8
<1>10. \A k \in 1 .. Len(e.stream) : u.at + Covered(u) <= e.stream[k]
  <2> TAKE k \in 1 .. Len(e.stream)
  <2>1. n + k \in 1 .. Len(d.stream) /\ 1 < n + k
    BY <1>3
  <2>2. d.stream[1] + ((n + k) - 1) <= d.stream[n + k]
    BY <1>5, <2>1 DEF Ordered
  <2>3. e.stream[k] = d.stream[n + k] /\ d.stream[n + k] \in Nat
    BY <1>2, <1>7, <2>1
  <2>4. k \in Int /\ k >= 1 /\ n \in Int /\ d.stream[1] \in Int /\ d.stream[n + k] \in Int
        /\ Covered(u) \in Int
    <3>1. d.stream[1] \in Nat
      BY <1>5, <1>7
    <3> QED BY <1>1, <1>2, <1>8, <2>3, <3>1
  <2>5. d.stream[1] + Covered(u) <= d.stream[n + k]
    BY <1>8, <2>2, <2>4, PastCovered
  <2> QED BY <2>3, <2>5
<1>11. \A i \in 1 .. Len(e.got) : e.got[i].at + Covered(e.got[i]) <= u.at
  BY <1>5 DEF Ordered
<1> QED BY <1>6, <1>9, <1>10, <1>11 DEF Due

LEMMA AnswerKeepsOrder ==
  ASSUME TcpAssumption, NEW d \in Connection, NEW e \in Connection, Ordered(d), WholeReplies(d),
         NEW u \in Chunk, Due(d, u), u.from = 0, u.upto = ReplyLen,
         e.sent = d.sent, e.stream = d.stream, e.got = Append(d.got, u)
  PROVE  Ordered(e) /\ WholeReplies(e)
<1>1. /\ Len(e.got) = Len(d.got) + 1 /\ e.got[Len(d.got) + 1] = u
      /\ \A k \in 1 .. Len(d.got) : e.got[k] = d.got[k]
      /\ Len(d.got) \in Nat
  BY AppendProperties, LenProperties DEF Connection
<1>2. \A k \in 1 .. Len(e.got) : k \in 1 .. Len(d.got) \/ k = Len(d.got) + 1
  BY <1>1
<1>3. \A i, j \in 1 .. Len(e.got) : i < j => i \in 1 .. Len(d.got)
  BY <1>1
<1>4. \A i, j \in 1 .. Len(e.got) : i < j => e.got[i].at + Covered(e.got[i]) <= e.got[j].at
  BY <1>1, <1>2, <1>3 DEF Ordered, Due
<1>5. \A i \in 1 .. Len(e.got) :
        e.got[i].at + Covered(e.got[i]) <= e.sent + 1 /\ (e.got[i].whole => Begins(e.got[i].at))
  BY <1>1, <1>2 DEF Ordered, Due
<1>6. \A i \in 1 .. Len(e.got), k \in 1 .. Len(e.stream) :
        e.got[i].at + Covered(e.got[i]) <= e.stream[k]
  BY <1>1, <1>2 DEF Ordered, Due
<1>7. WholeReplies(e)
  BY <1>1, <1>2 DEF WholeReplies
<1> QED BY <1>4, <1>5, <1>6, <1>7 DEF Ordered

\* What a step does to the messages and replies of the connections: nothing but
\* lose messages, one more message, messages received, one more reply.
Kept(c) ==
  /\ conn'[c].sent = conn[c].sent /\ conn'[c].got = conn[c].got
  /\ conn'[c].stream = conn[c].stream \/ conn'[c].stream = << >>

LEMMA KeptOrder ==
  ASSUME conn \in [Clients -> Connection], conn' \in [Clients -> Connection], Order,
         \A c \in Clients : Kept(c)
  PROVE  /\ \A c \in Clients : Ordered(conn'[c]) /\ WholeReplies(conn'[c])
         /\ \A c \in Clients : \A u : Due(conn[c], u) => Due(conn'[c], u)
<1> SUFFICES ASSUME NEW c \in Clients
             PROVE  /\ Ordered(conn'[c]) /\ WholeReplies(conn'[c])
                    /\ \A u : Due(conn[c], u) => Due(conn'[c], u)
  OBVIOUS
<1>1. conn[c] \in Connection /\ conn'[c] \in Connection /\ Ordered(conn[c]) /\ WholeReplies(conn[c])
  BY DEF Order
<1> QED BY <1>1, KeepsOrder DEF Kept

LEMMA KeptStep ==
  ASSUME TcpAssumption, Types,
         \/ \E c \in Clients : Connect(c) \/ Leave(c) \/ Break(c)
         \/ SrvSocket \/ SrvBind \/ SrvAccept \/ SrvAcceptFails \/ SrvStore \/ SrvEnd \/ SrvParse
         \/ SrvSendFails \/ SrvCleanUp \/ PushLook \/ PushSend \/ UNCHANGED vars
  PROVE  \A c \in Clients : Kept(c)
<1>0. conn \in [Clients -> Connection]
  BY ConnType DEF Types
<1>1. ASSUME NEW c \in Clients, Others(c), Kept(c)
      PROVE  \A d \in Clients : Kept(d)
  BY <1>1 DEF Others, Same, Kept
<1>2. ASSUME NEW c \in Clients, NEW state, NEW stream \in {<< >>, conn[c].stream}, Others(c),
             conn'[c] = [conn[c] EXCEPT !.state = state, !.stream = stream]
      PROVE  \A d \in Clients : Kept(d)
  <2>1. Kept(c)
    BY <1>0, <1>2 DEF Kept, Connection
  <2> QED BY <1>1, <1>2, <2>1
<1>3. CASE \E c \in Clients : Connect(c)
  <2>1. PICK c \in Clients : Connect(c)
    BY <1>3
  <2>2. conn[c] \in Connection /\ Others(c) /\ conn'[c] = [conn[c] EXCEPT !.state = "waiting"]
    BY <1>0, <2>1, ConnectConn
  <2>3. Kept(c)
    BY <2>2 DEF Kept, Connection
  <2> QED BY <1>1, <2>2, <2>3
<1>4. CASE \E c \in Clients : Leave(c) \/ Break(c)
  BY <1>2, <1>4, EndsConn
<1>5. CASE SrvAccept \/ SrvAcceptFails
  BY <1>2, <1>5, AcceptConn
<1>6. CASE SrvCleanUp
  BY ZenonT(30), <1>0, <1>6, CleanConn DEF Kept, Same, Connection
<1>7. CASE conn' = conn
  BY <1>7 DEF Kept
<1>8. CASE \/ SrvSocket \/ SrvBind \/ SrvStore \/ SrvEnd \/ SrvParse \/ SrvSendFails \/ PushLook
           \/ UNCHANGED vars
  BY <1>7, <1>8, QuietConn DEF Types
<1>9. CASE PushSend
  <2>1. ASSUME NEW c \in Clients, Others(c), conn'[c] = [conn[c] EXCEPT !.pushed = @ + 1]
        PROVE  \A d \in Clients : Kept(d)
    <3>1. Kept(c)
      BY <1>0, <2>1 DEF Kept, Connection
    <3> QED BY <1>1, <2>1, <3>1
  <2> QED BY <1>7, <1>9, <2>1, PushConn
<1> QED BY <1>3, <1>4, <1>5, <1>6, <1>8, <1>9

LEMMA OrderStep ==
  ASSUME TcpAssumption, Types, TypeOK', ShortSends = FALSE, Order, [Next]_vars
  PROVE  Order'
<1>0. /\ conn \in [Clients -> Connection] /\ conn' \in [Clients -> Connection] /\ srv \in Server
      /\ ReplyLen \in Nat
      /\ srv.pc \in {"recv", "parse", "send"} => table[srv.fd] \in Clients
  <2>1. conn' \in [Clients -> Connection]
    BY DEF TypeOK, Connection
  <2> QED BY <2>1, TcpAssumption, ConnType DEF Types, TypeOK, TcpAssumption
<1>1. ASSUME \A c \in Clients : Kept(c),
             srv'.pc \in {"parse", "send"} => /\ srv.pc \in {"parse", "send"} /\ srv'.at = srv.at
                                              /\ srv'.whole = srv.whole
                                              /\ table'[srv'.fd] = table[srv.fd],
             srv'.pc = "send" => srv'.left >= ReplyLen
      PROVE  Order'
  <2>1. /\ \A c \in Clients : Ordered(conn'[c]) /\ WholeReplies(conn'[c])
        /\ \A c \in Clients : \A u : Due(conn[c], u) => Due(conn'[c], u)
    BY <1>0, <1>1, KeptOrder
  <2>2. ASSUME srv'.pc \in {"parse", "send"}
        PROVE  Due(conn'[table'[srv'.fd]], srv')
    <3> DEFINE c == table[srv.fd]
    <3>1. c \in Clients /\ Due(conn[c], srv) /\ c = table'[srv'.fd]
          /\ srv'.at = srv.at /\ srv'.whole = srv.whole
      BY <1>0, <1>1, <2>2 DEF Order
    <3> HIDE DEF c
    <3>2. Due(conn'[c], srv)
      BY <2>1, <3>1
    <3>3. Due(conn'[c], srv')
      BY <3>1, <3>2, DueSame
    <3> QED BY <3>1, <3>3
  <2> QED BY <1>1, <2>1, <2>2 DEF Order
<1>2. CASE \/ \E c \in Clients : Connect(c) \/ Leave(c) \/ Break(c)
           \/ PushLook \/ PushSend \/ UNCHANGED vars
  <2>1. srv' = srv /\ table' = table
    BY <1>2 DEF Connect, Leave, Break, PushLook, PushSend, clientUnchanged, pushUnchanged, vars
  <2> QED BY <1>1, <1>2, <2>1, KeptStep DEF Order
<1>3. CASE SrvSocket \/ SrvBind \/ SrvAccept \/ SrvAcceptFails \/ SrvStore \/ SrvEnd \/ SrvCleanUp
  <2>1. srv'.pc \notin {"parse", "send"}
    BY <1>0, <1>3 DEF SrvSocket, SrvBind, SrvAccept, SrvAcceptFails, SrvStore, SrvEnd, SrvCleanUp, Server
  <2> QED BY <1>1, <1>3, <2>1, KeptStep
<1>4. CASE SrvParse
  <2>1. srv.pc = "parse" /\ srv'.at = srv.at /\ srv'.whole = srv.whole /\ srv'.fd = srv.fd
        /\ srv'.left = ReplyLen /\ table' = table
    BY <1>0, <1>4 DEF SrvParse, Server
  <2>2. ReplyLen >= ReplyLen
    BY <1>0
  <2> QED BY <1>1, <1>4, <2>1, <2>2, KeptStep
<1>5. CASE SrvSendFails
  <2>1. PICK n : srv' = [srv EXCEPT !.left = n] /\ n = IF srv.left > ReplyLen THEN srv.left ELSE srv.left + 1
    BY <1>5 DEF SrvSendFails
  <2>2. srv'.pc = srv.pc /\ srv'.at = srv.at /\ srv'.whole = srv.whole /\ srv'.fd = srv.fd
        /\ srv'.left = n /\ srv.pc = "send"
        /\ table' = table
    BY <1>0, <1>5, <2>1 DEF Server, SrvSendFails
  <2>3. n >= ReplyLen
    <3>1. srv.left \in 0 .. ReplyLen + 1 /\ srv.left >= ReplyLen
      BY <1>0, <2>2 DEF Order, Server
    <3> QED BY <1>0, <2>1, <3>1
  <2> QED BY <1>1, <1>5, <2>2, <2>3, KeptStep
<1>6. CASE \E c \in Clients : ClientSend(c)
  <2>1. PICK c \in Clients : ClientSend(c)
    BY <1>6
  <2>2. conn[c] \in Connection /\ conn'[c] \in Connection /\ Ordered(conn[c]) /\ WholeReplies(conn[c])
    BY <1>0 DEF Order
  <2>3. /\ Others(c) /\ conn[c].sent + 1 \in 1 .. MaxUnits
        /\ conn'[c].sent = conn[c].sent + 1 /\ conn'[c].got = conn[c].got
        /\ conn'[c].stream = Append(conn[c].stream, conn[c].sent + 1)
    BY <2>1, <2>2, SendConn DEF Connection
  <2>4. Ordered(conn'[c]) /\ WholeReplies(conn'[c])
        /\ \A u : u.at \in Nat /\ Due(conn[c], u) => Due(conn'[c], u)
    BY TcpAssumption, <2>2, <2>3, SendKeepsOrder
  <2>5. srv' = srv /\ table' = table
    BY <2>1 DEF ClientSend, clientUnchanged
  <2>6. srv.pc \in {"parse", "send"} => srv.at \in Nat
    <3>1. srv.pc \in {"parse", "send"} => srv.at \in 1 .. MaxUnits
      BY DEF Types, InHand
    <3> QED BY <3>1
  <2> QED BY <1>0, <2>3, <2>4, <2>5, <2>6 DEF Order, Others, Same
<1>7. CASE SrvRecv
  <2> DEFINE c == table[srv.fd]
  <2>1. /\ c \in Clients /\ Others(c) /\ conn[c].stream # << >>
        /\ srv'.at = conn[c].stream[1] /\ srv'.pc = "parse" /\ srv'.fd = srv.fd
        /\ \E k \in 1 .. Len(conn[c].stream) :
             /\ conn'[c] = [conn[c] EXCEPT !.stream = SubSeq(@, k + 1, Len(@))]
             /\ srv'.whole => Begins(srv'.at) /\ k >= MsgLen
    BY <1>7, RecvConn, Served1 DEF SrvRecv, Types
  <2>2. table' = table
    BY <1>7 DEF SrvRecv
  <2> HIDE DEF c
  <2>3. conn[c] \in Connection /\ conn'[c] \in Connection /\ Ordered(conn[c]) /\ WholeReplies(conn[c])
    BY <1>0, <2>1 DEF Order
  <2>4. PICK k \in 1 .. Len(conn[c].stream) :
          /\ conn'[c].sent = conn[c].sent /\ conn'[c].got = conn[c].got
          /\ conn'[c].stream = SubSeq(conn[c].stream, k + 1, Len(conn[c].stream))
          /\ srv'.whole => Begins(srv'.at) /\ k >= MsgLen
    <3>1. PICK k \in 1 .. Len(conn[c].stream) :
            /\ conn'[c] = [conn[c] EXCEPT !.stream = SubSeq(@, k + 1, Len(@))]
            /\ srv'.whole => Begins(srv'.at) /\ k >= MsgLen
      BY <2>1
    <3>2. /\ conn'[c].sent = conn[c].sent /\ conn'[c].got = conn[c].got
          /\ conn'[c].stream = SubSeq(conn[c].stream, k + 1, Len(conn[c].stream))
      BY <2>3, <3>1 DEF Connection
    <3> QED BY <3>1, <3>2
  <2>5. Ordered(conn'[c]) /\ WholeReplies(conn'[c]) /\ Due(conn'[c], srv')
    BY TcpAssumption, <2>1, <2>3, <2>4, RecvKeepsOrder
  <2> QED BY <2>1, <2>2, <2>5 DEF Order, Others, Same, c
<1>8. CASE SrvSend
  <2> DEFINE c == table[srv.fd]
  <2>1. c \in Clients /\ c = Current /\ srv.pc = "send"
    BY <1>8, Served1 DEF SrvSend, Types
  <2>2. srv'.pc = "recv"
    BY <1>0, <1>8 DEF SrvSend, Server
  <2>3. Others(c)
        /\ (conn' = conn
            \/ (srv.left <= ReplyLen
                /\ conn'[c] = [conn[c] EXCEPT
                     !.got = Append(@, [at |-> srv.at, whole |-> srv.whole, from |-> 0, upto |-> srv.left])]))
    BY <1>8, <2>1, SrvSendConn
  <2> HIDE DEF c
  <2>4. CASE conn' = conn
    BY <2>2, <2>4 DEF Order
  <2>5. CASE srv.left <= ReplyLen
             /\ conn'[c] = [conn[c] EXCEPT
                  !.got = Append(@, [at |-> srv.at, whole |-> srv.whole, from |-> 0, upto |-> srv.left])]
    <3> DEFINE u == [at |-> srv.at, whole |-> srv.whole, from |-> 0, upto |-> ReplyLen]
    <3>1. srv.left = ReplyLen
      <4>1. srv.left \in 0 .. ReplyLen + 1
        BY <1>0 DEF Server
      <4> QED BY <1>0, <2>1, <2>5, <4>1 DEF Order
    <3>2. u \in Chunk
      <4>1. srv.at \in 1 .. MaxUnits /\ ReplyLen \in Nat \ {0} /\ srv.whole \in BOOLEAN
        BY <1>0, <2>1, TcpAssumption DEF Types, InHand, Server, TcpAssumption
      <4> QED BY <4>1 DEF Chunk
    <3>3. conn[c] \in Connection /\ conn'[c] \in Connection /\ Ordered(conn[c]) /\ WholeReplies(conn[c])
          /\ Due(conn[c], u)
      <4>1. Due(conn[c], srv) /\ u.at = srv.at /\ u.whole = srv.whole
        BY <2>1 DEF Order, c
      <4> HIDE DEF u
      <4>2. Due(conn[c], u)
        BY <4>1, DueSame
      <4> QED BY <1>0, <2>1, <4>2 DEF Order
    <3>4. conn'[c].sent = conn[c].sent /\ conn'[c].stream = conn[c].stream
          /\ conn'[c].got = Append(conn[c].got, u)
      BY <2>5, <3>1, <3>3 DEF Connection
    <3>5. Ordered(conn'[c]) /\ WholeReplies(conn'[c])
      BY TcpAssumption, <3>2, <3>3, <3>4, AnswerKeepsOrder
    <3> QED BY <2>1, <2>2, <2>3, <3>5 DEF Order, Others, Same
  <2> QED BY <2>3, <2>4, <2>5
<1> QED
  BY <1>2, <1>3, <1>4, <1>5, <1>6, <1>7, <1>8 DEF Next, Srv

----------------------------------------------------------------------------
(* The inductive invariant and the theorems.                               *)

LEMMA InitTypes ==
  ASSUME TcpAssumption, Init
  PROVE  Types /\ Order
<1>0. /\ MaxSockets \in Nat \ {0} /\ ReplyLen \in Nat \ {0} /\ MaxUnits \in Nat /\ MaxPushes \in Nat
  BY DEF TcpAssumption
<1>1. /\ \A c \in Clients : conn[c].stream = << >> /\ conn[c].got = << >> /\ conn[c].pushed = 0
      /\ srv.pc = "socket" /\ push = "idle" /\ pushes = 0
  BY DEF Init
<1>2. TypeOK
  <2>1. conn \in [Clients -> Connection]
    <3>1. [state |-> "new", sent |-> 0, stream |-> << >>, got |-> << >>, pushed |-> 0] \in Connection
      BY <1>0, EmptySeq DEF Connection, ConnStates
    <3> QED BY <3>1 DEF Init
  <2>2. queue \in Seq(Clients) /\ table \in [Fds -> Clients \union {"free", "listen"}]
    BY EmptySeq DEF Init
  <2>3. listenSock \in Fds \union {NoFd} /\ _sock \in Fds \union {NoFd}
    BY <1>0 DEF Init, Fds
  <2>4. srv \in Server
    BY <1>0 DEF Init, Server, SrvPcs
  <2> QED BY <1>0, <1>1, <2>1, <2>2, <2>3, <2>4 DEF TypeOK, Connection, Server
<1>3. InHand
  BY <1>1 DEF InHand
<1>4. Counted
  BY <1>1 DEF Counted
<1>5. Order
  <2>1. \A c \in Clients : 1 .. Len(conn[c].stream) = {} /\ 1 .. Len(conn[c].got) = {}
    BY <1>1, EmptySeq
  <2> QED BY <1>1, <2>1 DEF Order, Ordered, WholeReplies
<1> QED BY <1>2, <1>3, <1>4, <1>5 DEF Types

LEMMA TypesInvariant == Spec => []Types
<1>1. Init => Types
  BY TcpAssumption, InitTypes
<1>2. Types /\ [Next]_vars => Types'
  BY TcpAssumption, TypeStep, InHandStep, CountedStep DEF Types
<1> QED BY <1>1, <1>2, PTL DEF Spec

LEMMA OrderInvariant ==
  ASSUME ShortSends = FALSE
  PROVE  Spec => [](Types /\ Order)
<1>1. Init => Types /\ Order
  BY TcpAssumption, InitTypes
<1>2. Types /\ Order /\ [Next]_vars => (Types /\ Order)'
  <2> SUFFICES ASSUME Types, Order, [Next]_vars PROVE (Types /\ Order)'
    OBVIOUS
  <2>1. TypeOK'
    BY TcpAssumption, TypeStep
  <2>2. Types'
    BY <2>1, TcpAssumption, InHandStep, CountedStep DEF Types
  <2> QED BY <2>1, <2>2, TcpAssumption, OrderStep
<1> QED BY <1>1, <1>2, PTL DEF Spec

\* Whatever breaks and whoever comes, the server's task serves a socket of a
\* client between accept and the end of do_retransmit, and every socket number
\* is one of the table or -1.
THEOREM TypeCorrect == Spec => []TypeOK
<1>1. Types => TypeOK
  BY DEF Types
<1> QED BY <1>1, TypesInvariant, PTL

\* While send delivers what it is given, do_retransmit sends each client whole
\* replies in the order of what it sent, for any number of clients and however
\* recv cuts and joins their messages: a message read whole gets no other
\* reply, neither before nor after.
THEOREM RepliesAreWhole ==
  ASSUME ShortSends = FALSE
  PROVE  Spec => []RepliesInOrder
<1>1. Types /\ Order => RepliesInOrder
  <2> SUFFICES ASSUME Types, Order, NEW c \in Clients, NEW i \in DOMAIN conn[c].got
               PROVE  Follows(conn[c].got, i)
    BY DEF RepliesInOrder
  <2>1. conn[c] \in Connection
    BY ConnType DEF Types
  <2>2. Len(conn[c].got) \in Nat /\ DOMAIN conn[c].got = 1 .. Len(conn[c].got)
    BY <2>1, LenProperties DEF Connection
  <2>3. i \in 1 .. Len(conn[c].got) /\ (i > 1 => i - 1 \in 1 .. Len(conn[c].got) /\ i - 1 < i)
    BY <2>2
  <2>4. Ordered(conn[c]) /\ WholeReplies(conn[c])
    BY DEF Order
  <2> QED BY <2>3, <2>4 DEF Follows, Ordered, WholeReplies
<1> QED BY <1>1, OrderInvariant, PTL

=============================================================================
