------------------------------ MODULE MqttProofs ------------------------------
(***************************************************************************)
(* MqttClient for any number of connections, sockets and messages: its     *)
(* type invariant and its safety properties are invariants of Spec.  They  *)
(* rest on what may be under way to the client (Underway), on the events   *)
(* reported in each state of the client (Session) and on STOPPED_BIT being *)
(* set only by a task that touches nothing any more (Stopping).            *)
(***************************************************************************)
EXTENDS MqttClient, SequenceTheorems, TLAPS

Sessions == [accepted : BOOLEAN, subscribed : BOOLEAN, rest : 0 .. PubLen]
Connections == [sock : BOOLEAN, open : BOOLEAN, up : Seq(Messages), down : Seq(Messages)]

ClientType ==
  /\ client \in [state : {"UNKNOW", "INIT", "CONNECTED", "WAIT_TIMEOUT"}, run : BOOLEAN,
                 type : Types, id : {0} \union Ids, count : Nat]
  /\ outbox \in Seq(Messages) /\ inBuffer \in Messages
  /\ left \in 0 .. PubLen /\ (left > 0 <=> task = "deliver")
  /\ task \in TaskPcs
  /\ reported \in {"none", "connected", "subscribed", "disconnected"}
  /\ client.state = "CONNECTED" => task \in {"loop", "deliver", "ping", "exit"}
  /\ task \in {"connect", "connack", "connected"} => client.state = "INIT"

NetType ==
  /\ sockets \in 0 .. MaxSockets
  /\ conn \in Connections
  /\ broker \in Sessions /\ (broker.rest > 0 => broker.subscribed)
  /\ env \in [breaks : 0 .. MaxBreaks, fails : 0 .. MaxFails, pubs : 0 .. MaxPubs]
  /\ conn.sock => sockets > 0

UserType == user \in UserPcs /\ stopped \in BOOLEAN

\* What is under way: a SUBACK and publications only for a subscription the
\* broker has, and the units published in the order of their numbers, after
\* those delivered.
Acknowledges(s, subscribed) ==
  \A i \in 1 .. Len(s) : s[i].type \in {"SUBACK", "PUBLISH", "REST"} => subscribed

Before(given, n) == \A j \in 1 .. Len(given) : \A m \in given[j] : m < n

InOrder(s, given, pubs) ==
  /\ \A i \in 1 .. Len(s) : s[i].type \in Published =>
       s[i].id \in 1 .. pubs /\ Before(given, s[i].id)
  /\ \A i, j \in 1 .. Len(s) :
       i < j /\ s[i].type \in Published /\ s[j].type \in Published => s[i].id < s[j].id

Underway ==
  /\ Acknowledges(conn.down, broker.subscribed)
  /\ InOrder(conn.down, data, env.pubs)

Delivered ==
  /\ data \in Seq(SUBSET (1 .. MaxPubs))
  /\ \A j \in 1 .. Len(data) : \A m \in data[j] : m <= env.pubs
  /\ \A i, j \in 1 .. Len(data) : i < j => \A m \in data[i], n \in data[j] : m < n

Session ==
  reported = "subscribed" /\ task # "exit" => client.state = "CONNECTED" /\ broker.subscribed

Stopping ==
  /\ stopped => task = "exit"
  /\ user = "new" <=> task = "none"
  /\ user = "freed" => task = "exit"

IInv ==
  /\ ClientType /\ NetType /\ UserType
  /\ Underway /\ Delivered /\ Session /\ Stopping

----------------------------------------------------------------------------
(* The transport.                                                          *)

\* A write adds to what is under way to the broker and changes nothing else
\* (mqtt_write_data).
LEMMA WriteKeeps ==
  ASSUME NEW c \in Connections, NEW m \in Messages
  PROVE  /\ WrittenTo(c, m) \in Connections
         /\ WrittenTo(c, m).sock = c.sock /\ WrittenTo(c, m).open = c.open
         /\ WrittenTo(c, m).down = c.down
<1>1. Append(c.up, m) \in Seq(Messages)
  BY AppendProperties DEF Connections
<1> QED BY <1>1 DEF WrittenTo, Connections

\* What is left of a sequence without its first k elements.
LEMMA SuffixKeeps ==
  ASSUME NEW S, NEW s \in Seq(S), NEW k \in 1 .. Len(s)
  PROVE  /\ SubSeq(s, k + 1, Len(s)) \in Seq(S)
         /\ Len(SubSeq(s, k + 1, Len(s))) = Len(s) - k
         /\ \A i \in 1 .. Len(s) - k : SubSeq(s, k + 1, Len(s))[i] = s[i + k]
<1>1. k + 1 \in Int /\ Len(s) \in Int /\ \A i \in k + 1 .. Len(s) : s[i] \in S
  OBVIOUS
<1> QED BY <1>1, SubSeqProperties

\* After a read the rest of what was under way still is, in its order
\* (tcp_read).
LEMMA ReadKeeps ==
  ASSUME conn \in Connections, NEW k \in ReadSizes
  PROVE  /\ After(k) \in Connections
         /\ After(k).sock = conn.sock /\ After(k).open = conn.open
         /\ k \in 1 .. Len(conn.down)
         /\ Len(After(k).down) = Len(conn.down) - k
         /\ \A i \in 1 .. Len(After(k).down) : After(k).down[i] = conn.down[i + k]
<1> DEFINE s == conn.down
           t == SubSeq(s, k + 1, Len(s))
<1>1. s \in Seq(Messages) /\ k \in 1 .. Len(s)
  BY DEF Connections, ReadSizes
<1>2. After(k) = [conn EXCEPT !.down = t]
  BY DEF After
<1>3. t \in Seq(Messages) /\ Len(t) = Len(s) - k /\ \A i \in 1 .. Len(s) - k : t[i] = s[i + k]
  <2> HIDE DEF s
  <2> QED BY <1>1, SuffixKeeps
<1>4. Len(t) = Len(s) - k /\ \A i \in 1 .. Len(t) : t[i] = s[i + k]
  BY <1>3
<1> HIDE DEF t
<1>5. After(k) \in Connections /\ After(k).sock = conn.sock /\ After(k).open = conn.open
      /\ After(k).down = t
  BY <1>2, <1>3 DEF Connections
<1> QED BY <1>1, <1>4, <1>5

\* The message a read hands to the client is one of those under way.
LEMMA HeadUnderway ==
  ASSUME conn \in Connections, CanRead \/ ReadSizes # {}
  PROVE  /\ Head(conn.down) \in Messages /\ Head(conn.down) = conn.down[1]
         /\ 1 \in 1 .. Len(conn.down)
<1>1. conn.down \in Seq(Messages)
  BY DEF Connections
<1>2. conn.down # << >>
  BY <1>1 DEF CanRead, ReadSizes
<1> QED BY <1>1, <1>2, HeadTailProperties

----------------------------------------------------------------------------
(* Types.                                                                  *)

\* Taking an item out of the outbox leaves an outbox (outbox_delete).
LEMMA RemoveKeepsType ==
  ASSUME outbox \in Seq(Messages), NEW i \in DOMAIN outbox
  PROVE  SubSeq(outbox, 1, i - 1) \o SubSeq(outbox, i + 1, Len(outbox)) \in Seq(Messages)
<1>1. SubSeq(outbox, 1, i - 1) \in Seq(Messages)
  BY SubSeqProperties
<1>2. SubSeq(outbox, i + 1, Len(outbox)) \in Seq(Messages)
  BY SubSeqProperties
<1> QED BY <1>1, <1>2, ConcatProperties

\* The message the client writes or keeps is one (Message).
LEMMA MessageType ==
  ASSUME MqttAssumption, NEW t \in Types, NEW i \in {0} \union Ids
  PROVE  Message(t, i) \in Messages
BY DEF MqttAssumption, Message, Messages

\* Handling a SUBACK, or what passes for one, leaves a connected client
\* (is_valid_mqtt_msg).
LEMMA SubackType ==
  ASSUME ClientType, Receiving, NEW id, HandleSuback(id)
  PROVE  /\ client' \in [state : {"UNKNOW", "INIT", "CONNECTED", "WAIT_TIMEOUT"}, run : BOOLEAN,
                         type : Types, id : {0} \union Ids, count : Nat]
         /\ client'.state = "CONNECTED" /\ outbox' \in Seq(Messages)
         /\ reported' \in {"none", "connected", "subscribed", "disconnected"}
<1>1. CASE ValidSuback(id) /\ TakeSuback(id)
  <2>1. client.count - 1 \in Nat
    BY <1>1 DEF ClientType, ValidSuback
  <2>2. client' = [client EXCEPT !.count = @ - 1] /\ reported' = "subscribed"
    BY <1>1 DEF TakeSuback
  <2>3. outbox' \in Seq(Messages)
    BY <1>1, RemoveKeepsType DEF TakeSuback, Matching, ClientType
  <2> QED BY <2>1, <2>2, <2>3 DEF ClientType, Receiving
<1>2. CASE UNCHANGED <<client, reported, outbox>>
  BY <1>2 DEF ClientType, Receiving
<1> QED BY <1>1, <1>2 DEF HandleSuback

\* Handling a message leaves a connected client (mqtt_process_receive).
LEMMA HandleType ==
  ASSUME MqttAssumption, ClientType, Receiving, NEW m \in Messages, NEW k \in ReadSizes, k \in Nat,
         Handle(m, k)
  PROVE  /\ client' \in [state : {"UNKNOW", "INIT", "CONNECTED", "WAIT_TIMEOUT"}, run : BOOLEAN,
                         type : Types, id : {0} \union Ids, count : Nat]
         /\ client'.state = "CONNECTED"
         /\ outbox' \in Seq(Messages) /\ left' \in 0 .. PubLen
         /\ reported' \in {"none", "connected", "subscribed", "disconnected"}
<1>0. PubLen \in Nat \ {0} /\ 0 \in 0 .. PubLen
  BY DEF MqttAssumption
<1>1. CASE left' = 0 /\ \E id : HandleSuback(id)
  BY <1>0, <1>1, SubackType
<1>2. CASE left' \in 0 .. PubLen /\ UNCHANGED <<client, reported, outbox>>
  BY <1>2 DEF ClientType, Receiving
<1>3. CASE left' \in 0 .. PubLen /\ UNCHANGED <<reported, outbox>> /\ client' = [client EXCEPT !.type = "ACK"]
  BY <1>3 DEF ClientType, Receiving, Types
<1>4. CASE DeliverFirst(k)
  <2>1. left' \in 0 .. PubLen
    BY <1>0, <1>4 DEF DeliverFirst
  <2> QED BY <1>2, <1>4, <2>1 DEF DeliverFirst
<1>5. CASE HandleRest(k)
  <2>1. CASE left' = 0 /\ \E id \in Ids : HandleSuback(id)
    BY <1>1, <2>1
  <2>2. CASE left' \in 0 .. PubLen /\ UNCHANGED <<reported, outbox, client>>
    BY <1>2, <2>2
  <2>3. CASE left' \in 0 .. PubLen /\ UNCHANGED <<reported, outbox>>
             /\ client' = [client EXCEPT !.type = "ACK"]
    BY <1>3, <2>3
  <2> QED BY <1>5, <2>1, <2>2, <2>3 DEF HandleRest
<1>6. CASE left' = 0 /\ HandleSuback(m.id)
  BY <1>1, <1>6
<1>7. CASE left' = 0 /\ UNCHANGED <<client, reported, outbox, data>>
  BY <1>0, <1>2, <1>7
<1> QED BY <1>4, <1>5, <1>6, <1>7 DEF Handle

\* Handling takes what was read and may write an answer; it gives the driver
\* what the first event of a publication holds, or nothing.
LEMMA HandleKeeps ==
  ASSUME conn \in Connections, NEW m \in Messages, NEW k \in ReadSizes, Handle(m, k)
  PROVE  /\ conn' \in Connections /\ conn'.sock = conn.sock
         /\ conn'.down = After(k).down
         /\ data' = data \/ data' = Append(data, Given(k))
<1>1. After(k) \in Connections /\ After(k).sock = conn.sock
  BY ReadKeeps
<1>2. Message("ACK", 0) \in Messages
  BY DEF Message, Messages, Types
<1> DEFINE w == WrittenTo(After(k), Message("ACK", 0))
<1>3. w \in Connections /\ w.sock = After(k).sock /\ w.down = After(k).down
  BY <1>1, <1>2, WriteKeeps
<1> HIDE DEF w
<1>4. conn' = After(k) \/ conn' = w
  BY DEF Handle, DeliverFirst, HandleRest, w
<1>5. data' = data \/ data' = Append(data, Given(k))
  BY DEF Handle, DeliverFirst, HandleRest
<1> QED BY <1>1, <1>3, <1>4, <1>5

\* The client's own fields keep their types, and the connection's states go
\* with the places of the task (esp_mqtt_task).
LEMMA ClientTypeStep ==
  ASSUME MqttAssumption, ClientType, NetType, UserType, Stopping, [Next]_vars
  PROVE  ClientType'
<1> USE DEF ClientType, NetType
<1>1. CASE UNCHANGED clientVars
  BY <1>1 DEF clientVars
<1>2. CASE UserStart
  BY <1>2 DEF UserStart, Stopping, TaskPcs
<1>3. CASE UserStop
  BY <1>3 DEF UserStop
<1>4. CASE UserDestroy
  BY <1>4, EmptySeq DEF UserDestroy
<1>5. CASE TaskBegin
  BY <1>5 DEF TaskBegin, TaskPcs
<1>6. CASE TaskEnd
  BY <1>6 DEF TaskEnd, TaskPcs
<1>7. CASE TaskConnect
  BY <1>7 DEF TaskConnect, TaskPcs
<1>8. CASE TaskConnectFails
  BY <1>8 DEF TaskConnectFails, AbortConnection
<1>9. CASE TaskWriteConnect
  <2>1. client.state = "INIT" /\ "CONNECT" \in Types
    BY <1>9 DEF TaskWriteConnect, Types
  <2>2. UNCHANGED <<outbox, inBuffer, left>> /\ left = 0
    BY <1>9 DEF TaskWriteConnect, MqttAssumption
  <2>3. CASE /\ client' = [client EXCEPT !.type = "CONNECT", !.id = 0]
             /\ task' = "connack" /\ UNCHANGED reported
    <3>1. client' \in [state : {"UNKNOW", "INIT", "CONNECTED", "WAIT_TIMEOUT"}, run : BOOLEAN,
                       type : Types, id : {0} \union Ids, count : Nat]
      BY <2>1, <2>3
    <3>2. client'.state = "INIT"
      BY <2>1, <2>3
    <3>3. task' = "connack" /\ reported' = reported
      BY <2>3
    <3> QED BY <2>2, <3>1, <3>2, <3>3 DEF TaskPcs
  <2>4. CASE /\ client' = [client EXCEPT !.type = "CONNECT", !.id = 0, !.state = "WAIT_TIMEOUT"]
             /\ task' = "loop" /\ reported' = "disconnected"
    <3>1. client' \in [state : {"UNKNOW", "INIT", "CONNECTED", "WAIT_TIMEOUT"}, run : BOOLEAN,
                       type : Types, id : {0} \union Ids, count : Nat]
      BY <2>1, <2>4
    <3>2. client'.state = "WAIT_TIMEOUT"
      BY <2>4
    <3>3. task' = "loop" /\ reported' = "disconnected"
      BY <2>4
    <3> QED BY <2>2, <3>1, <3>2, <3>3 DEF TaskPcs
  <2> QED BY <1>9, <2>3, <2>4 DEF TaskWriteConnect
<1>10. CASE TaskConnack
  <2>1. inBuffer' \in Messages
    BY <1>10, HeadUnderway DEF TaskConnack, Connections
  <2> QED BY <1>10, <2>1 DEF TaskConnack, AbortConnection, TaskPcs
<1>11. CASE TaskConnackFails
  BY <1>11 DEF TaskConnackFails, AbortConnection, TaskPcs
<1>12. CASE TaskConnected
  <2>1. PICK id \in Ids :
          client' = [client EXCEPT !.state = "CONNECTED", !.type = "SUBSCRIBE", !.id = id,
                                   !.count = @ + 1]
    BY <1>12 DEF TaskConnected
  <2>2. client' \in [state : {"UNKNOW", "INIT", "CONNECTED", "WAIT_TIMEOUT"}, run : BOOLEAN,
                     type : Types, id : {0} \union Ids, count : Nat]
    <3>1. client.count + 1 \in Nat /\ "SUBSCRIBE" \in Types /\ id \in {0} \union Ids
      BY DEF Types
    <3> QED BY <2>1, <3>1
  <2>3. Message(client.type, client.id) \in Messages
    <3>1. client.id \in {0} \union Ids /\ client.type \in Types
      OBVIOUS
    <3> QED BY <3>1, MessageType
  <2>4. outbox' \in Seq(Messages)
    BY <1>12, <2>3, AppendProperties DEF TaskConnected
  <2> QED BY <1>12, <2>2, <2>4 DEF TaskConnected, TaskPcs
<1>13. CASE TaskReceiveFails
  BY <1>13 DEF TaskReceiveFails, Receiving, AbortConnection
<1>14. CASE TaskReceive
  <2>0. task' = IF left' > 0 THEN "deliver" ELSE "ping"
    BY <1>14 DEF TaskReceive
  <2>1. CASE \E k \in ReadSizes : inBuffer' = Head(conn.down) /\ Handle(Head(conn.down), k)
    <3>1. PICK k \in ReadSizes : inBuffer' = Head(conn.down) /\ Handle(Head(conn.down), k)
      BY <2>1
    <3>2. Head(conn.down) \in Messages /\ k \in Nat
      BY <3>1, HeadUnderway, ReadKeeps DEF Connections
    <3>3. /\ client' \in [state : {"UNKNOW", "INIT", "CONNECTED", "WAIT_TIMEOUT"}, run : BOOLEAN,
                          type : Types, id : {0} \union Ids, count : Nat]
          /\ client'.state = "CONNECTED"
          /\ outbox' \in Seq(Messages) /\ left' \in 0 .. PubLen
          /\ reported' \in {"none", "connected", "subscribed", "disconnected"}
      BY <1>14, <3>1, <3>2, HandleType DEF TaskReceive
    <3>4. task' \in {"deliver", "ping"} /\ (left' > 0 <=> task' = "deliver")
      BY <2>0
    <3> QED BY <3>1, <3>2, <3>3, <3>4 DEF TaskPcs
  <2>2. CASE UNCHANGED <<client, outbox, reported, inBuffer, left>>
    <3>1. task = "loop" /\ client.state = "CONNECTED" /\ left = 0
      BY <1>14 DEF TaskReceive, Receiving, MqttAssumption
    <3>2. task' = "ping"
      BY <2>0, <2>2, <3>1
    <3> QED BY <2>2, <3>1, <3>2 DEF TaskPcs
  <2> QED BY <1>14, <2>1, <2>2 DEF TaskReceive
<1>15. CASE TaskPing
  BY <1>15 DEF TaskPing, TaskPcs, Types
<1>19. CASE TaskResolveFails
  BY <1>19 DEF TaskResolveFails, AbortConnection
<1>20. CASE TaskDeliver
  <2>1. PICK k \in ReadSizes : /\ inBuffer' = Head(conn.down)
                               /\ left' = IF k < left THEN left - k ELSE 0
    BY <1>20 DEF TaskDeliver
  <2>2. Head(conn.down) \in Messages /\ k \in 1 .. Len(conn.down) /\ Len(conn.down) \in Nat
    BY <2>1, HeadUnderway, ReadKeeps DEF Connections
  <2>3. left' \in 0 .. PubLen
    <3>1. k \in Nat /\ PubLen \in Nat /\ left \in 0 .. PubLen
      BY <2>2 DEF MqttAssumption
    <3> QED BY <2>1, <3>1
  <2>4. task' \in {"deliver", "ping"} /\ (left' > 0 <=> task' = "deliver")
    BY <1>20 DEF TaskDeliver
  <2>5. UNCHANGED <<client, outbox, reported>>
    BY <1>20 DEF TaskDeliver
  <2> QED BY <2>1, <2>2, <2>3, <2>4, <2>5 DEF TaskPcs
<1>21. CASE TaskDeliverEnds
  <2>1. left' \in 0 .. PubLen
    BY <1>21 DEF TaskDeliverEnds, MqttAssumption
  <2> QED BY <1>21, <2>1 DEF TaskDeliverEnds, TaskPcs
<1>16. CASE TaskReconnect
  BY <1>16 DEF TaskReconnect
<1>17. CASE UserStarted \/ Network
  BY <1>1, <1>17 DEF UserStarted, Network, BrokerAnswers, BrokerRefuses, BrokerPublishes,
                   BrokerGoesOn, Publish, Break, netUnchanged
<1>18. CASE UNCHANGED vars
  BY <1>1, <1>18 DEF vars
<1> QED
  BY <1>2, <1>3, <1>4, <1>5, <1>6, <1>7, <1>8, <1>9, <1>10, <1>11, <1>12, <1>13, <1>14, <1>15,
     <1>16, <1>17, <1>18, <1>19, <1>20, <1>21
  DEF Next, User, Task

\* The transport counts its sockets and what it holds is messages
\* (tcp_connect, tcp_close).
LEMMA NetTypeStep ==
  ASSUME MqttAssumption, ClientType, NetType, [Next]_vars
  PROVE  NetType'
<1> USE DEF NetType
<1>0. conn \in Connections /\ << >> \in Seq(Messages) /\ NoConn \in Connections
      /\ NoSession \in Sessions /\ NoSession.rest = 0
  BY EmptySeq DEF NoConn, NoSession, Connections, Sessions, MqttAssumption
<1>1. CASE UNCHANGED <<netVars, env>>
  BY <1>1 DEF netVars
<1>2. CASE TaskEnd
  <2>1. sockets' \in 0 .. MaxSockets
    BY <1>2 DEF TaskEnd, MqttAssumption
  <2>2. conn' = NoConn /\ broker' = NoSession /\ env' = env
    BY <1>2 DEF TaskEnd
  <2> QED BY <1>0, <2>1, <2>2 DEF NoConn
<1>3. CASE TaskConnect
  <2>1. sockets' = sockets + 1 /\ sockets' \in 0 .. MaxSockets /\ sockets' > 0
    BY <1>3 DEF TaskConnect, MqttAssumption
  <2>2. conn' = [NoConn EXCEPT !.sock = TRUE, !.open = TRUE] /\ broker' = NoSession /\ env' = env
    BY <1>3 DEF TaskConnect
  <2>3. conn' \in Connections
    BY <1>0, <2>2 DEF Connections
  <2> QED BY <1>0, <2>1, <2>2, <2>3
<1>4. CASE TaskConnectFails
  <2>1. env' \in [breaks : 0 .. MaxBreaks, fails : 0 .. MaxFails, pubs : 0 .. MaxPubs]
    BY <1>4 DEF TaskConnectFails, MqttAssumption
  <2>2. conn' = NoConn /\ broker' = NoSession /\ sockets' = sockets
    BY <1>4 DEF TaskConnectFails
  <2> QED BY <1>0, <2>1, <2>2 DEF NoConn
<1>5. ASSUME NEW m \in Messages, conn' = Written(m), UNCHANGED <<sockets, broker, env>>
      PROVE  NetType'
  BY <1>0, <1>5, WriteKeeps DEF Written
<1>6. CASE TaskWriteConnect
  <2>1. Message("CONNECT", 0) \in Messages
    BY DEF Message, Messages, Types
  <2> QED BY <1>1, <1>5, <1>6, <2>1 DEF TaskWriteConnect, netVars
<1>7. CASE TaskConnected
  <2>1. PICK id \in Ids : conn' = Written(Message("SUBSCRIBE", id))
    BY <1>7 DEF TaskConnected
  <2>2. Message("SUBSCRIBE", id) \in Messages
    BY MessageType DEF Types
  <2> QED BY <1>5, <1>7, <2>1, <2>2 DEF TaskConnected
<1>8. CASE TaskPing
  <2>1. Message("PINGREQ", 0) \in Messages
    BY DEF Message, Messages, Types
  <2> QED BY <1>1, <1>5, <1>8, <2>1 DEF TaskPing, netVars
<1>9. ASSUME NEW k \in ReadSizes, conn' = After(k), UNCHANGED <<sockets, broker, env>>
      PROVE  NetType'
  BY <1>0, <1>9, ReadKeeps
<1>10. CASE TaskConnack
  <2>1. CASE UNCHANGED env /\ \E k \in ReadSizes : conn' = After(k)
    BY <1>9, <1>10, <2>1 DEF TaskConnack
  <2>2. CASE env.fails < MaxFails /\ env' = [env EXCEPT !.fails = @ + 1] /\ UNCHANGED conn
    <3>1. env' \in [breaks : 0 .. MaxBreaks, fails : 0 .. MaxFails, pubs : 0 .. MaxPubs]
      BY <2>2 DEF MqttAssumption
    <3> QED BY <1>10, <2>2, <3>1 DEF TaskConnack
  <2> QED BY <1>10, <2>1, <2>2 DEF TaskConnack
<1>11. CASE TaskReceive
  <2>1. CASE \E k \in ReadSizes : Handle(Head(conn.down), k)
    <3>1. PICK k \in ReadSizes : Handle(Head(conn.down), k)
      BY <2>1
    <3>2. Head(conn.down) \in Messages
      BY <3>1, HeadUnderway
    <3>3. conn' \in Connections /\ conn'.sock = conn.sock
      BY <1>0, <3>1, <3>2, HandleKeeps
    <3> QED BY <1>11, <3>3 DEF TaskReceive
  <2>2. CASE UNCHANGED conn
    BY <1>1, <1>11, <2>2 DEF TaskReceive, netVars
  <2> QED BY <1>11, <2>1, <2>2 DEF TaskReceive
<1>12. ASSUME NEW m \in Messages,
              conn' = [conn EXCEPT !.up = Tail(@), !.down = Append(@, m)], conn.up # << >>
       PROVE  conn' \in Connections /\ conn'.sock = conn.sock
  BY <1>0, <1>12, HeadTailProperties, AppendProperties DEF Connections
<1>13. CASE BrokerAnswers
  <2>1. Message("CONNACK", 0) \in Messages /\ Message("PINGRESP", 0) \in Messages
    BY DEF Message, Messages, Types
  <2>2. Message("SUBACK", Head(conn.up).id) \in Messages
    <3>1. Head(conn.up) \in Messages
      BY <1>0, <1>13, HeadTailProperties DEF BrokerAnswers, Connections
    <3> QED BY <3>1 DEF Message, Messages, Types
  <2>3. conn' \in Connections /\ conn'.sock = conn.sock
    <3>1. CASE conn' = [conn EXCEPT !.up = Tail(@)]
      BY <1>0, <1>13, <3>1, HeadTailProperties DEF BrokerAnswers, Connections
    <3> QED BY <1>12, <1>13, <2>1, <2>2, <3>1 DEF BrokerAnswers
  <2>4. broker' \in Sessions /\ (broker'.rest > 0 => broker'.subscribed) /\ UNCHANGED <<sockets, env>>
    BY <1>13 DEF BrokerAnswers, netUnchanged, Sessions
  <2> QED BY <2>3, <2>4
<1>14. CASE BrokerRefuses
  <2>1. <<Message("REFUSED", 0)>> \in Seq(Messages)
    <3>1. Message("REFUSED", 0) \in Messages
      BY DEF Message, Messages, Types
    <3> QED BY <3>1
  <2>2. conn' \in Connections /\ conn'.sock = conn.sock
    BY <1>0, <1>14, <2>1 DEF BrokerRefuses, Connections
  <2>3. env' \in [breaks : 0 .. MaxBreaks, fails : 0 .. MaxFails, pubs : 0 .. MaxPubs]
    BY <1>14 DEF BrokerRefuses, MqttAssumption
  <2> QED BY <1>14, <2>2, <2>3 DEF BrokerRefuses, netUnchanged
<1>18. ASSUME NEW type \in Types, NEW rest \in 0 .. PubLen, broker.subscribed, Publish(type, rest)
       PROVE  NetType'
  <2>1. Message(type, env.pubs + 1) \in Messages
    BY DEF Message, Messages
  <2>2. conn' \in Connections /\ conn'.sock = conn.sock
    BY <1>0, <1>18, <2>1, AppendProperties DEF Publish, Connections
  <2>3. env' \in [breaks : 0 .. MaxBreaks, fails : 0 .. MaxFails, pubs : 0 .. MaxPubs]
    BY SMTT(30), <1>18 DEF Publish, MqttAssumption
  <2>4. broker' \in Sessions /\ broker'.subscribed
    BY <1>18 DEF Publish, Sessions
  <2> QED BY <1>18, <2>2, <2>3, <2>4 DEF Publish, netUnchanged
<1>15. CASE BrokerPublishes \/ BrokerGoesOn
  <2>1. PubLen \in Nat \ {0} /\ broker.rest \in 0 .. PubLen
    BY DEF MqttAssumption, Sessions
  <2>2. PubLen - 1 \in 0 .. PubLen /\ (broker.rest > 0 => broker.rest - 1 \in 0 .. PubLen)
    BY <2>1
  <2>3. "PUBLISH" \in Types /\ "REST" \in Types
    BY DEF Types
  <2> QED BY <1>15, <1>18, <2>2, <2>3 DEF BrokerPublishes, BrokerGoesOn
<1>16. CASE Break
  <2>1. PICK lost \in {conn.down, << >>} :
          conn' = [conn EXCEPT !.open = FALSE, !.up = << >>, !.down = lost]
    BY <1>16 DEF Break
  <2>2. conn' \in Connections /\ conn'.sock = conn.sock
    BY <1>0, <2>1 DEF Connections
  <2>3. env' \in [breaks : 0 .. MaxBreaks, fails : 0 .. MaxFails, pubs : 0 .. MaxPubs]
    BY SMTT(30), <1>16 DEF Break, MqttAssumption
  <2> QED BY <1>16, <2>2, <2>3 DEF Break, netUnchanged
<1>17. CASE UserStart \/ UserStarted \/ UserStop \/ TaskBegin \/ TaskConnackFails \/ TaskReceiveFails
            \/ TaskReconnect \/ TaskDeliverEnds \/ UNCHANGED vars
  BY <1>1, <1>17 DEF UserStart, UserStarted, UserStop, TaskBegin, TaskConnackFails,
     TaskReceiveFails, TaskReconnect, TaskDeliverEnds, vars, netVars
<1>19. CASE UserDestroy
  <2>1. sockets' \in 0 .. MaxSockets /\ conn' = NoConn /\ broker' = NoSession /\ env' = env
    BY <1>19 DEF UserDestroy
  <2> QED BY <1>0, <2>1 DEF NoConn
<1>20. CASE TaskResolveFails
  <2>1. env' \in [breaks : 0 .. MaxBreaks, fails : 0 .. MaxFails, pubs : 0 .. MaxPubs]
    BY <1>20 DEF TaskResolveFails, MqttAssumption
  <2> QED BY <1>20, <2>1 DEF TaskResolveFails, netVars
<1>21. CASE TaskDeliver
  <2>1. PICK k \in ReadSizes : conn' = After(k)
    BY <1>21 DEF TaskDeliver
  <2> QED BY <1>9, <1>21, <2>1 DEF TaskDeliver
<1> QED
  BY <1>2, <1>3, <1>4, <1>6, <1>7, <1>8, <1>10, <1>11, <1>13, <1>14, <1>15, <1>16, <1>17, <1>19,
     <1>20, <1>21
  DEF Next, User, Task, Network

\* STOPPED_BIT is set by a task that touches nothing any more, and only a
\* caller who saw it frees the client (esp_mqtt_client_stop).
LEMMA StoppingStep ==
  ASSUME UserType, Stopping, task \in TaskPcs, [Next]_vars
  PROVE  UserType' /\ Stopping'
<1> USE DEF UserType, Stopping, UserPcs, TaskPcs
<1>1. CASE User
  <2>1. CASE UserStart
    BY <2>1 DEF UserStart
  <2>2. CASE UserStarted
    BY <2>2 DEF UserStarted, clientVars
  <2>3. CASE UserStop \/ UserDestroy
    BY <2>3 DEF UserStop, UserDestroy
  <2> QED BY <1>1, <2>1, <2>2, <2>3 DEF User
<1>2. CASE TaskBegin \/ TaskEnd
  BY <1>2 DEF TaskBegin, TaskEnd, taskUnchanged
<1>3. CASE TaskConnect \/ TaskConnectFails \/ TaskResolveFails
  BY <1>3 DEF TaskConnect, TaskConnectFails, TaskResolveFails, taskUnchanged
<1>4. CASE TaskWriteConnect \/ TaskConnack \/ TaskConnackFails \/ TaskConnected
  <2>1. UNCHANGED <<user, stopped>> /\ task' \in {"connack", "loop", "connected"}
        /\ task \in {"connect", "connack", "connected"}
    BY <1>4 DEF TaskWriteConnect, TaskConnack, TaskConnackFails, TaskConnected, taskUnchanged
  <2> QED BY <2>1
<1>5. CASE TaskReceiveFails \/ TaskReceive \/ TaskPing \/ TaskReconnect \/ TaskDeliver
           \/ TaskDeliverEnds
  <2>1. UNCHANGED <<user, stopped>> /\ task' \in {"loop", "deliver", "ping"}
        /\ task \in {"loop", "deliver", "ping"}
    BY <1>5 DEF TaskReceiveFails, TaskReceive, TaskPing, TaskReconnect, TaskDeliver,
       TaskDeliverEnds, Receiving, taskUnchanged
  <2> QED BY <2>1
<1>6. CASE Network
  BY <1>6 DEF Network, BrokerAnswers, BrokerRefuses, BrokerPublishes, BrokerGoesOn, Publish, Break,
              netUnchanged, clientVars, userVars
<1>7. CASE UNCHANGED vars
  BY <1>7 DEF vars, clientVars, userVars
<1> QED BY <1>1, <1>2, <1>3, <1>4, <1>5, <1>6, <1>7 DEF Next, Task

----------------------------------------------------------------------------
(* What is under way to the client.                                        *)

\* With nothing under way there is nothing to get wrong.
LEMMA NothingUnderway ==
  ASSUME NEW given, NEW subscribed, NEW pubs
  PROVE  Acknowledges(<< >>, subscribed) /\ InOrder(<< >>, given, pubs)
<1>1. 1 .. Len(<< >>) = {}
  BY EmptySeq
<1> QED BY <1>1 DEF Acknowledges, InOrder

\* What a read leaves under way stays in order (tcp_read).
LEMMA SuffixInOrder ==
  ASSUME NEW s \in Seq(Messages), NEW t \in Seq(Messages), NEW k \in 1 .. Len(s),
         Len(t) = Len(s) - k, \A i \in 1 .. Len(t) : t[i] = s[i + k],
         NEW given, NEW subscribed, NEW pubs,
         Acknowledges(s, subscribed), InOrder(s, given, pubs)
  PROVE  Acknowledges(t, subscribed) /\ InOrder(t, given, pubs)
<1>1. \A i \in 1 .. Len(t) : i + k \in 1 .. Len(s) /\ t[i] = s[i + k]
  OBVIOUS
<1>2. Acknowledges(t, subscribed)
  BY <1>1 DEF Acknowledges
<1>3. \A i, j \in 1 .. Len(t) : i < j => i + k < j + k
  OBVIOUS
<1>4. InOrder(t, given, pubs)
  BY <1>1, <1>3 DEF InOrder
<1> QED BY <1>2, <1>4

\* Giving units of what was read to the driver leaves the later ones after
\* them (deliver_publish).
LEMMA DeliverInOrder ==
  ASSUME NEW s \in Seq(Messages), NEW t \in Seq(Messages), NEW k \in 1 .. Len(s),
         Len(t) = Len(s) - k, \A i \in 1 .. Len(t) : t[i] = s[i + k],
         NEW given \in Seq(SUBSET Nat), NEW pubs, NEW units \in SUBSET Nat,
         \A m \in units : \E i \in 1 .. k : s[i].type \in Published /\ m = s[i].id,
         InOrder(s, given, pubs)
  PROVE  InOrder(t, Append(given, units), pubs)
<1> DEFINE after == Append(given, units)
<1>1. \A i \in 1 .. Len(t) : i + k \in 1 .. Len(s) /\ t[i] = s[i + k]
  OBVIOUS
<1>2. \A i, j \in 1 .. Len(t) : i < j => i + k < j + k
  OBVIOUS
<1>3. /\ Len(after) = Len(given) + 1
      /\ \A j \in 1 .. Len(given) : after[j] = given[j]
      /\ after[Len(given) + 1] = units
  BY AppendProperties
<1> HIDE DEF after
<1>4. \A j \in 1 .. Len(after) : j \in 1 .. Len(given) \/ j = Len(given) + 1
  BY <1>3
<1>5. \A i \in 1 .. k, j \in 1 .. Len(t) : i \in 1 .. Len(s) /\ i < j + k
  OBVIOUS
<1>6. \A i \in 1 .. Len(t) : t[i].type \in Published => t[i].id \in 1 .. pubs /\ Before(given, t[i].id)
  BY <1>1 DEF InOrder
<1>7. \A i \in 1 .. Len(t) : t[i].type \in Published => \A m \in units : m < t[i].id
  BY <1>1, <1>5 DEF InOrder
<1>8. \A i \in 1 .. Len(t) : t[i].type \in Published => Before(after, t[i].id)
  BY <1>3, <1>4, <1>6, <1>7 DEF Before
<1>9. \A i, j \in 1 .. Len(t) :
        i < j /\ t[i].type \in Published /\ t[j].type \in Published => t[i].id < t[j].id
  BY <1>1, <1>2 DEF InOrder
<1>10. InOrder(t, after, pubs)
  BY <1>6, <1>8, <1>9 DEF InOrder
<1> QED BY <1>10 DEF after

\* What the broker sends comes after what is under way already: an answer,
\* which is no publication, or the next publication.
LEMMA SendInOrder ==
  ASSUME NEW s \in Seq(Messages), NEW m \in Messages, NEW subscribed, NEW later,
         NEW given \in Seq(SUBSET Nat), NEW pubs \in Nat, NEW next \in Nat,
         subscribed => later, m.type \in {"SUBACK", "PUBLISH", "REST"} => later,
         \/ m.type \notin Published /\ next = pubs
         \/ next = pubs + 1 /\ m.id = next,
         \A j \in 1 .. Len(given) : \A n \in given[j] : n <= pubs,
         Acknowledges(s, subscribed), InOrder(s, given, pubs)
  PROVE  Acknowledges(Append(s, m), later) /\ InOrder(Append(s, m), given, next)
<1> DEFINE t == Append(s, m)
<1>1. /\ Len(t) = Len(s) + 1 /\ \A i \in 1 .. Len(s) : t[i] = s[i]
      /\ t[Len(s) + 1] = m
  BY AppendProperties
<1> HIDE DEF t
<1>2. \A i \in 1 .. Len(t) : i \in 1 .. Len(s) \/ i = Len(s) + 1
  BY <1>1
<1>3. Acknowledges(t, later)
  BY <1>1, <1>2 DEF Acknowledges
<1>4. \A i \in 1 .. Len(s) : s[i].type \in Published => s[i].id \in 1 .. next /\ s[i].id <= pubs
  BY DEF InOrder
<1>5. m.type \in Published =>
        /\ m.id \in 1 .. next /\ pubs < m.id
        /\ Before(given, m.id)
  <2>1. SUFFICES ASSUME m.type \in Published PROVE
          m.id \in 1 .. next /\ pubs < m.id /\ Before(given, m.id)
    OBVIOUS
  <2>2. m.id = pubs + 1 /\ next = pubs + 1
    BY <2>1
  <2>3. \A j \in 1 .. Len(given) : given[j] \in SUBSET Nat
    OBVIOUS
  <2> QED BY <2>2, <2>3 DEF Before
<1>6. \A i \in 1 .. Len(t) : t[i].type \in Published =>
        t[i].id \in 1 .. next /\ Before(given, t[i].id)
  BY <1>1, <1>2, <1>4, <1>5 DEF InOrder
<1>7. \A i \in 1 .. Len(s) : s[i].type \in Published /\ m.type \in Published => s[i].id < m.id
  BY <1>4, <1>5
<1>8. \A i, j \in 1 .. Len(t) : i < j => i \in 1 .. Len(s)
  BY <1>1
<1>9. \A i, j \in 1 .. Len(t) :
        i < j /\ t[i].type \in Published /\ t[j].type \in Published => t[i].id < t[j].id
  BY <1>1, <1>2, <1>7, <1>8 DEF InOrder
<1>10. InOrder(t, given, next)
  BY <1>6, <1>9 DEF InOrder
<1> QED BY <1>3, <1>10 DEF t

\* Only tasks and the broker touch what was delivered and what is under way.
LEMMA DeliveryStep ==
  ASSUME MqttAssumption, ClientType, NetType, NetType', Underway, Delivered, [Next]_vars
  PROVE  Underway' /\ Delivered'
<1> DEFINE s == conn.down
<1>1. /\ conn \in Connections /\ conn' \in Connections
      /\ s \in Seq(Messages) /\ s' \in Seq(Messages)
      /\ env.pubs \in 0 .. MaxPubs /\ env'.pubs \in 0 .. MaxPubs
      /\ broker.subscribed \in BOOLEAN /\ MaxPubs \in Nat
      /\ data \in Seq(SUBSET (1 .. MaxPubs))
  BY DEF NetType, Connections, Sessions, Delivered, MqttAssumption
<1>2. data \in Seq(SUBSET Nat)
  <2>1. \A i \in 1 .. Len(data) : data[i] \in SUBSET Nat
    BY <1>1
  <2> QED BY <1>1, <2>1
<1>3. ASSUME s' = s, data' = data, env'.pubs = env.pubs, broker'.subscribed = broker.subscribed
      PROVE  Underway' /\ Delivered'
  BY <1>3 DEF Underway, Delivered
<1>4. ASSUME s' = << >>, data' = data, env'.pubs = env.pubs
      PROVE  Underway' /\ Delivered'
  BY <1>4, NothingUnderway DEF Underway, Delivered
<1>5. ASSUME NEW k \in ReadSizes, s' = After(k).down, data' = data, env'.pubs = env.pubs,
             broker' = broker
      PROVE  Underway' /\ Delivered'
  <2>1. /\ k \in 1 .. Len(s) /\ Len(s') = Len(s) - k
        /\ \A i \in 1 .. Len(s') : s'[i] = s[i + k]
    BY <1>1, <1>5, ReadKeeps
  <2>2. Acknowledges(s', broker.subscribed) /\ InOrder(s', data, env.pubs)
    <3> HIDE DEF s
    <3>1. Acknowledges(s, broker.subscribed) /\ InOrder(s, data, env.pubs)
      BY DEF Underway, s
    <3> QED BY <1>1, <2>1, <3>1, SuffixInOrder
  <2> QED BY <1>5, <2>2 DEF Underway, Delivered
<1>6. ASSUME NEW m \in Messages, s' = Append(s, m), data' = data,
             broker.subscribed => broker'.subscribed,
             m.type \in {"SUBACK", "PUBLISH", "REST"} => broker'.subscribed,
             \/ m.type \notin Published /\ env'.pubs = env.pubs
             \/ env'.pubs = env.pubs + 1 /\ m.id = env'.pubs
      PROVE  Underway' /\ Delivered'
  <2>1. Acknowledges(Append(s, m), broker'.subscribed) /\ InOrder(Append(s, m), data, env'.pubs)
    <3> HIDE DEF s
    <3>1. Acknowledges(s, broker.subscribed) /\ InOrder(s, data, env.pubs)
      BY DEF Underway, s
    <3>2. \A j \in 1 .. Len(data) : \A n \in data[j] : n <= env.pubs
      BY DEF Delivered
    <3>3. env.pubs \in Nat /\ env'.pubs \in Nat
      BY <1>1
    <3> QED BY <1>1, <1>2, <1>6, <3>1, <3>2, <3>3, SendInOrder
  <2>2. \A j \in 1 .. Len(data) : \A n \in data[j] : n <= env'.pubs
    <3>1. env.pubs <= env'.pubs /\ env.pubs \in Nat /\ env'.pubs \in Nat
      BY <1>1, <1>6
    <3>2. \A j \in 1 .. Len(data) : \A n \in data[j] : n <= env.pubs /\ n \in Nat
      BY <1>2 DEF Delivered
    <3> QED BY <3>1, <3>2
  <2> QED BY <1>6, <2>1, <2>2 DEF Underway, Delivered
<1>7. CASE UserStart \/ UserStarted \/ UserStop
  BY <1>3, <1>7 DEF UserStart, UserStarted, UserStop, clientVars, netVars
<1>22. CASE UserDestroy
  BY <1>4, <1>22 DEF UserDestroy, NoConn
<1>23. CASE TaskDeliverEnds
  BY <1>3, <1>23 DEF TaskDeliverEnds, netVars
<1>24. CASE TaskResolveFails
  <2>1. env'.pubs = env.pubs
    BY <1>24 DEF TaskResolveFails, NetType
  <2> QED BY <1>3, <1>24, <2>1 DEF TaskResolveFails, netVars
<1>25. CASE TaskDeliver
  <2>1. PICK k \in ReadSizes : conn' = After(k)
    BY <1>25 DEF TaskDeliver
  <2> QED BY <1>5, <1>25, <2>1 DEF TaskDeliver
<1>8. CASE TaskBegin \/ TaskConnackFails \/ TaskReceiveFails \/ TaskReconnect
  BY <1>3, <1>8 DEF TaskBegin, TaskConnackFails, TaskReceiveFails, TaskReconnect, netVars
<1>9. CASE TaskEnd
  BY <1>4, <1>9 DEF TaskEnd, NoConn
<1>10. CASE TaskConnect
  BY <1>4, <1>10 DEF TaskConnect, NoConn
<1>11. CASE TaskConnectFails
  <2>1. s' = << >> /\ data' = data
    BY <1>11 DEF TaskConnectFails, NoConn
  <2>2. env'.pubs = env.pubs
    BY <1>11 DEF TaskConnectFails, NetType
  <2> QED BY <1>4, <2>1, <2>2
<1>12. CASE TaskWriteConnect
  <2>1. Message("CONNECT", 0) \in Messages
    BY DEF Message, Messages, Types
  <2>2. s' = s
    BY <1>1, <1>12, <2>1, WriteKeeps DEF TaskWriteConnect, Written
  <2> QED BY <1>3, <1>12, <2>2 DEF TaskWriteConnect
<1>13. CASE TaskConnected
  <2>1. PICK id \in Ids : conn' = Written(Message("SUBSCRIBE", id))
    BY <1>13 DEF TaskConnected
  <2>2. Message("SUBSCRIBE", id) \in Messages
    BY MessageType DEF Types
  <2>3. s' = s
    BY <1>1, <2>1, <2>2, WriteKeeps DEF Written
  <2> QED BY <1>3, <1>13, <2>3 DEF TaskConnected
<1>14. CASE TaskPing
  <2>1. Message("PINGREQ", 0) \in Messages
    BY DEF Message, Messages, Types
  <2>2. s' = s
    BY <1>1, <1>14, <2>1, WriteKeeps DEF TaskPing, Written
  <2> QED BY <1>3, <1>14, <2>2 DEF TaskPing
<1>15. CASE TaskConnack
  <2>1. CASE UNCHANGED env /\ \E k \in ReadSizes : conn' = After(k)
    <3>1. PICK k \in ReadSizes : conn' = After(k)
      BY <2>1
    <3> QED BY <1>5, <1>15, <2>1, <3>1 DEF TaskConnack
  <2>2. CASE env' = [env EXCEPT !.fails = @ + 1] /\ UNCHANGED conn
    BY <1>3, <1>15, <2>2 DEF TaskConnack, NetType
  <2> QED BY <1>15, <2>1, <2>2 DEF TaskConnack
<1>16. CASE TaskReceive
  <2>1. CASE UNCHANGED <<data, conn>>
    BY <1>3, <1>16, <2>1 DEF TaskReceive
  <2>2. CASE \E k \in ReadSizes : Handle(Head(conn.down), k)
    <3>1. PICK k \in ReadSizes : Handle(Head(conn.down), k)
      BY <2>2
    <3>2. Head(conn.down) \in Messages
      BY <1>1, <3>1, HeadUnderway
    <3>3. /\ s' = After(k).down
          /\ data' = data \/ data' = Append(data, Given(k))
      BY <1>1, <3>1, <3>2, HandleKeeps
    <3>4. UNCHANGED <<broker, env>>
      BY <1>16 DEF TaskReceive
    <3>5. CASE data' = data
      BY <1>5, <3>3, <3>4, <3>5
    <3>6. CASE data' = Append(data, Given(k))
      <4>1. /\ k \in 1 .. Len(s) /\ Len(s') = Len(s) - k
            /\ \A i \in 1 .. Len(s') : s'[i] = s[i + k]
        BY <1>1, <3>3, ReadKeeps
      <4>2. Acknowledges(s, broker.subscribed) /\ InOrder(s, data, env.pubs)
        BY DEF Underway
      <4> DEFINE units == Given(k)
      <4>3. \A m \in units : \E i \in 1 .. k : s[i].type \in Published /\ m = s[i].id
        BY DEF Given
      <4> HIDE DEF s, units
      <4>4. \A m \in units :
              m \in 1 .. env.pubs /\ \A j \in 1 .. Len(data) : \A n \in data[j] : n < m
        <5>1. \A i \in 1 .. k : i \in 1 .. Len(s)
          BY <1>1, <4>1
        <5> QED BY <4>2, <4>3, <5>1 DEF InOrder, Before
      <4>5. Acknowledges(s', broker.subscribed)
        BY <1>1, <4>1, <4>2, SuffixInOrder
      <4>6. InOrder(s', Append(data, units), env.pubs)
        <5>1. units \in SUBSET Nat
          BY <1>1, <4>4
        <5> QED BY <1>1, <1>2, <4>1, <4>2, <4>3, <5>1, DeliverInOrder
      <4>7. data' = Append(data, units)
        BY <3>6 DEF units
      <4>8. Underway'
        BY <3>4, <4>5, <4>6, <4>7 DEF Underway, s
      <4>9. units \in SUBSET (1 .. MaxPubs)
        BY <1>1, <4>4
      <4>10. /\ data' \in Seq(SUBSET (1 .. MaxPubs)) /\ Len(data') = Len(data) + 1
             /\ \A j \in 1 .. Len(data) : data'[j] = data[j]
             /\ data'[Len(data) + 1] = units
        BY <1>1, <4>7, <4>9, AppendProperties
      <4>11. \A j \in 1 .. Len(data') : j \in 1 .. Len(data) \/ j = Len(data) + 1
        BY <1>1, <4>10
      <4>12. \A j \in 1 .. Len(data') : \A m \in data'[j] : m <= env'.pubs
        <5>1. \A m \in units : m <= env.pubs
          BY <1>1, <4>4
        <5> QED BY <3>4, <4>10, <4>11, <5>1 DEF Delivered
      <4>13. \A i, j \in 1 .. Len(data') : i < j => i \in 1 .. Len(data)
        BY <1>1, <4>10
      <4>14. \A i, j \in 1 .. Len(data') : i < j => \A m \in data'[i], n \in data'[j] : m < n
        <5>1. TAKE i, j \in 1 .. Len(data')
        <5>2. HAVE i < j
        <5>3. i \in 1 .. Len(data) /\ data'[i] = data[i]
          BY <4>10, <4>13, <5>2
        <5>4. CASE j \in 1 .. Len(data)
          BY <4>10, <5>2, <5>3, <5>4 DEF Delivered
        <5>5. CASE j = Len(data) + 1
          BY <4>4, <4>10, <5>3, <5>5
        <5> QED BY <4>11, <5>4, <5>5
      <4> QED BY <4>8, <4>10, <4>12, <4>14 DEF Delivered
    <3> QED BY <3>3, <3>5, <3>6
  <2> QED BY <1>16, <2>1, <2>2 DEF TaskReceive
<1>17. CASE BrokerAnswers
  <2>0. /\ conn.up \in Seq(Messages) /\ conn.up # << >> /\ Head(conn.up) \in Messages
        /\ UNCHANGED <<data, env>>
    BY <1>1, <1>17, HeadTailProperties
    DEF BrokerAnswers, Connections, netUnchanged, clientVars
  <2>4. CASE conn' = [conn EXCEPT !.up = Tail(@)] /\ UNCHANGED broker
    <3>1. s' = s
      BY <1>1, <2>4 DEF Connections
    <3> QED BY <1>3, <2>0, <2>4, <3>1
  <2>5. SUFFICES ASSUME ~(conn' = [conn EXCEPT !.up = Tail(@)] /\ UNCHANGED broker)
        PROVE  Underway' /\ Delivered'
    BY <2>4
  <2>1. PICK m \in {Message("CONNACK", 0), Message("PINGRESP", 0),
                    Message("SUBACK", Head(conn.up).id)} :
          /\ conn' = [conn EXCEPT !.up = Tail(@), !.down = Append(@, m)]
          /\ broker.subscribed => broker'.subscribed
          /\ m.type \in {"SUBACK", "PUBLISH", "REST"} => broker'.subscribed
    BY <1>17, <2>5 DEF BrokerAnswers, Message, NetType, Sessions
  <2>2. m \in Messages /\ m.type \notin Published
    BY SMTT(30), <2>0, <2>1 DEF Message, Messages, Types, Published
  <2>3. s' = Append(s, m)
    BY <1>1, <2>1 DEF Connections
  <2> QED BY <1>6, <2>0, <2>1, <2>2, <2>3
<1>18. CASE BrokerRefuses
  <2>1. << >> \in Seq(Messages) /\ Message("REFUSED", 0) \in Messages
    BY EmptySeq DEF Message, Messages, Types
  <2>2. s' = <<Message("REFUSED", 0)>> /\ UNCHANGED <<data, broker>> /\ env'.pubs = env.pubs
    BY <1>1, <1>18 DEF BrokerRefuses, netUnchanged, clientVars, Connections, NetType
  <2>3. \A i \in 1 .. Len(s') : s'[i].type \notin {"SUBACK", "PUBLISH", "REST"}
    BY <2>2 DEF Message
  <2>4. Underway'
    BY <2>3 DEF Underway, Acknowledges, InOrder, Published
  <2> QED BY <2>2, <2>4 DEF Delivered
<1>26. ASSUME NEW type \in Published, NEW rest, broker.subscribed, Publish(type, rest)
       PROVE  Underway' /\ Delivered'
  <2> DEFINE m == Message(type, env.pubs + 1)
  <2>1. m \in Messages /\ m.id = env.pubs + 1
    BY <1>1 DEF Message, Messages, Types, Published
  <2>2. s' = Append(s, m)
    BY <1>1, <1>26 DEF Publish, Connections
  <2>3. data' = data /\ env'.pubs = env.pubs + 1
    BY <1>26 DEF Publish, netUnchanged, clientVars, NetType
  <2>4. broker'.subscribed
    BY <1>26 DEF Publish, NetType, Sessions
  <2> HIDE DEF m
  <2> QED BY <1>6, <2>1, <2>2, <2>3, <2>4
<1>19. CASE BrokerPublishes \/ BrokerGoesOn
  <2>1. "PUBLISH" \in Published /\ "REST" \in Published
    BY DEF Published
  <2>2. broker.rest > 0 => broker.subscribed
    BY DEF NetType
  <2> QED BY <1>19, <1>26, <2>1, <2>2 DEF BrokerPublishes, BrokerGoesOn
<1>20. CASE Break
  <2>1. PICK lost \in {s, << >>} :
          conn' = [conn EXCEPT !.open = FALSE, !.up = << >>, !.down = lost]
    BY <1>20 DEF Break
  <2>2. s' = lost
    BY <1>1, <2>1 DEF Connections
  <2>3. UNCHANGED <<data, broker>> /\ env'.pubs = env.pubs
    BY <1>20 DEF Break, netUnchanged, clientVars, NetType
  <2> QED BY <1>3, <1>4, <2>2, <2>3
<1>21. CASE UNCHANGED vars
  BY <1>3, <1>21 DEF vars, clientVars, netVars
<1> QED
  BY <1>7, <1>8, <1>9, <1>10, <1>11, <1>12, <1>13, <1>14, <1>15, <1>16, <1>17, <1>18, <1>19,
     <1>20, <1>21, <1>22, <1>23, <1>24, <1>25
  DEF Next, User, Task, Network

----------------------------------------------------------------------------
(* The theorems.                                                           *)

\* The event of a subscription stands only with the subscription: answers
\* are those of this connection, and the end of it is reported.
LEMMA SessionStep ==
  ASSUME ClientType, NetType, Stopping, Underway, Session, [Next]_vars
  PROVE  Session'
<1> USE DEF Session
<1>1. CASE UNCHANGED <<client, reported, broker, task>>
  BY <1>1
<1>2. CASE User
  <2>1. CASE UserStart
    BY <2>1 DEF UserStart, netVars, Stopping
  <2>2. CASE UserStarted
    BY <2>2 DEF UserStarted, clientVars, netVars
  <2>3. CASE UserStop
    BY <2>3 DEF UserStop, netVars, ClientType
  <2>4. CASE UserDestroy
    BY <2>4 DEF UserDestroy, Stopping
  <2> QED BY <1>2, <2>1, <2>2, <2>3, <2>4 DEF User
<1>3. CASE TaskBegin
  BY <1>3 DEF TaskBegin, ClientType
<1>4. CASE TaskEnd
  BY <1>4 DEF TaskEnd
<1>5. CASE TaskConnect
  BY <1>5 DEF TaskConnect
<1>6. CASE TaskConnectFails \/ TaskResolveFails \/ TaskConnackFails \/ TaskReceiveFails
  BY <1>6 DEF TaskConnectFails, TaskResolveFails, TaskConnackFails, TaskReceiveFails, AbortConnection
<1>7. CASE TaskWriteConnect
  BY <1>7 DEF TaskWriteConnect, ClientType
<1>8. CASE TaskConnack
  BY <1>8 DEF TaskConnack, AbortConnection, ClientType
<1>9. CASE TaskConnected
  BY <1>9 DEF TaskConnected
<1>10. CASE TaskReceive
  <2>0. broker' = broker
    BY <1>10 DEF TaskReceive
  <2>1. CASE reported' = reported /\ client'.state = client.state
    BY <1>10, <2>0, <2>1 DEF TaskReceive, Receiving
  <2>2. CASE /\ ReadSizes # {} /\ Head(conn.down).type \in {"SUBACK", "REST"}
             /\ \E id : HandleSuback(id)
    <3>1. Head(conn.down) = conn.down[1] /\ 1 \in 1 .. Len(conn.down)
      BY <2>2, HeadUnderway DEF NetType
    <3>2. broker.subscribed
      BY <2>2, <3>1 DEF Underway, Acknowledges
    <3>3. client'.state = "CONNECTED"
      BY <1>10, <2>2, SubackType DEF TaskReceive
    <3> QED BY <2>0, <3>2, <3>3
  <2>3. CASE client' = [client EXCEPT !.type = "ACK"] /\ reported' = reported
    <3>1. client'.state = client.state
      BY <2>3 DEF ClientType
    <3> QED BY <2>1, <2>3, <3>1
  <2>4. ASSUME NEW k \in ReadSizes, Handle(Head(conn.down), k)
        PROVE  Session'
    <3>1. \/ UNCHANGED <<client, reported>>
          \/ Head(conn.down).type \in {"SUBACK", "REST"} /\ \E id : HandleSuback(id)
          \/ client' = [client EXCEPT !.type = "ACK"] /\ reported' = reported
      BY <2>4 DEF Handle, HandleRest, DeliverFirst
    <3> QED BY <2>1, <2>2, <2>3, <2>4, <3>1
  <2> QED BY <1>10, <2>1, <2>4 DEF TaskReceive
<1>15. CASE TaskDeliver \/ TaskDeliverEnds
  <2>1. UNCHANGED <<client, reported, broker>> /\ task # "exit" /\ task' # "exit"
    BY <1>15 DEF TaskDeliver, TaskDeliverEnds, netVars
  <2> QED BY <2>1
<1>11. CASE TaskPing
  <2>1. client'.state = client.state /\ UNCHANGED <<reported, broker>>
    BY <1>11 DEF TaskPing, ClientType
  <2> QED BY <1>11, <2>1 DEF TaskPing
<1>12. CASE TaskReconnect
  BY <1>12 DEF TaskReconnect
<1>13. CASE Network
  <2>1. UNCHANGED <<client, reported, task>>
    BY <1>13 DEF Network, BrokerAnswers, BrokerRefuses, BrokerPublishes, BrokerGoesOn,
                 Publish, Break, netUnchanged, clientVars
  <2>2. broker.subscribed => broker'.subscribed
    <3>1. CASE BrokerAnswers
      BY <3>1 DEF BrokerAnswers, NetType, Sessions
    <3>2. CASE BrokerRefuses \/ BrokerPublishes \/ BrokerGoesOn \/ Break
      BY <3>2 DEF BrokerRefuses, BrokerPublishes, BrokerGoesOn, Publish, Break, NetType, Sessions
    <3> QED BY <1>13, <3>1, <3>2 DEF Network
  <2> QED BY <2>1, <2>2
<1>14. CASE UNCHANGED vars
  BY <1>1, <1>14 DEF vars, clientVars, netVars
<1> QED
  BY <1>2, <1>3, <1>4, <1>5, <1>6, <1>7, <1>8, <1>9, <1>10, <1>11, <1>12, <1>13, <1>14,
     <1>15
  DEF Next, Task

\* The invariant holds in a client that has not been started.
LEMMA InitIInv == ASSUME MqttAssumption, Init PROVE IInv
<1> USE DEF Init
<1>1. << >> \in Seq(Messages) /\ << >> \in Seq(SUBSET (1 .. MaxPubs))
      /\ 1 .. Len(<< >>) = {}
  BY EmptySeq
<1>2. inBuffer \in Messages
  BY DEF Garbage, Message, Messages, Types
<1>3. ClientType
  BY <1>1, <1>2 DEF ClientType, Types, TaskPcs, MqttAssumption
<1>4. NetType
  BY <1>1 DEF NetType, Connections, NoConn, NoSession, Sessions, MqttAssumption
<1>5. UserType /\ Stopping /\ Session
  BY DEF UserType, UserPcs, Stopping, Session
<1>6. conn.down = << >>
  BY DEF NoConn
<1>7. Underway
  BY <1>6, NothingUnderway DEF Underway
<1>8. Delivered
  BY <1>1 DEF Delivered
<1> QED BY <1>3, <1>4, <1>5, <1>7, <1>8 DEF IInv

\* The invariant is kept by every step.
LEMMA NextIInv == ASSUME MqttAssumption, IInv, [Next]_vars PROVE IInv'
<1>1. ClientType'
  BY ClientTypeStep DEF IInv
<1>2. NetType'
  BY NetTypeStep DEF IInv
<1>3. UserType' /\ Stopping'
  BY StoppingStep DEF IInv, ClientType
<1>4. Underway' /\ Delivered'
  BY <1>2, DeliveryStep DEF IInv
<1>5. Session'
  BY SessionStep DEF IInv
<1> QED BY <1>1, <1>2, <1>3, <1>4, <1>5 DEF IInv

\* IInv is an invariant of the client (mqtt_client.c).
THEOREM Invariant == Spec => []IInv
<1>1. Init => IInv
  BY MqttAssumption, InitIInv
<1>2. IInv /\ [Next]_vars => IInv'
  BY MqttAssumption, NextIInv
<1> QED BY <1>1, <1>2, PTL DEF Spec

\* Every field keeps its type, the client is CONNECTED only in the task's
\* loop and connects only in MQTT_STATE_INIT (esp_mqtt_task).
THEOREM TypeCorrect == Spec => []TypeOK
<1>1. IInv => TypeOK
  BY DEF IInv, ClientType, NetType, UserType, Delivered, TypeOK, Connections, Sessions
<1> QED BY <1>1, Invariant, PTL

\* A driver told it is subscribed has its subscription with the broker it is
\* connected to, until it is told it is disconnected (is_valid_mqtt_msg,
\* esp_mqtt_abort_connection).
THEOREM SubscribedTellsTruth == Spec => []SubscribedIsTrue
<1>1. IInv => SubscribedIsTrue
  BY DEF IInv, Session, SubscribedIsTrue
<1> QED BY <1>1, Invariant, PTL

\* However publications are cut, joined and lost, what the driver gets of them
\* comes in their order and once (mqtt_process_receive, deliver_publish).
THEOREM DeliveredInOrder == Spec => []DeliveredOnceInOrder
<1>1. IInv => DeliveredOnceInOrder
  <2>1. SUFFICES ASSUME IInv PROVE DeliveredOnceInOrder
    OBVIOUS
  <2>2. DOMAIN data = 1 .. Len(data)
    BY <2>1 DEF IInv, Delivered
  <2> QED BY <2>1, <2>2 DEF IInv, Delivered, DeliveredOnceInOrder
<1> QED BY <1>1, Invariant, PTL

=============================================================================
