----------------------------- MODULE MqttClient -----------------------------
(***************************************************************************)
(* The MQTT control channel: the client task (MqttLib/mqtt_client.c), the  *)
(* driver that starts it, stops it and subscribes when it is connected     *)
(* (mqtt_driver.c), and the outbox of messages that wait for an answer.    *)
(* The broker and the network between them are external: connections break *)
(* and fail, and answers are refused or late.  A connection is a stream of *)
(* units: an answer of the broker is one unit, a publication PubLen of     *)
(* them, the first with its header and topic, and one read returns what    *)
(* has arrived, up to the BufLen units in_buffer holds.  The driver        *)
(* subscribes with QoS 0, so the broker publishes with QoS 0 and no        *)
(* message asks for an acknowledgement; what is published is text.         *)
(***************************************************************************)
EXTENDS Integers, Sequences

CONSTANTS
  Ids,         \* what append_message_id may draw
  MaxSockets,  \* sockets lwIP leaves to this client
  MaxBreaks,   \* bound: connections that break
  MaxFails,    \* bound: connections that fail, late and refused answers
  PubLen,      \* units of a publication
  BufLen,      \* units in_buffer holds
  MaxPubs,     \* bound: units published to the topic
  QueueCap,    \* bound: units under way in one direction
  Stops        \* is vMQTTClient_Stop called?

ASSUME MqttAssumption ==
  /\ Ids # {} /\ Ids \subseteq Nat \ {0}
  /\ MaxSockets \in Nat /\ MaxBreaks \in Nat /\ MaxFails \in Nat /\ MaxPubs \in Nat
  /\ PubLen \in Nat \ {0} /\ BufLen \in Nat \ {0} /\ QueueCap \in Nat \ {0}
  /\ Stops \in BOOLEAN

VARIABLES
  client,   \* esp_mqtt_client: state, run, and what mqtt_state says is pending
  outbox,   \* its items: type and id
  inBuffer, \* the message at the start of in_buffer
  left,     \* deliver_publish: units of its message still to be read
  task,     \* esp_mqtt_task
  stopped,  \* STOPPED_BIT
  user,     \* who calls vMQTTClient_Start and vMQTTClient_Stop
  sockets,  \* sockets the transport has opened and not closed
  conn,     \* the transport's connection: its socket and the units under way
  broker,   \* the broker's session on that connection
  reported, \* history: the last event of the session given to the driver
  data,     \* history: the units of publications each MQTT_EVENT_DATA gave to the driver
  env       \* breaks, fails and publications so far: bounds of the model

clientVars == <<client, outbox, inBuffer, left, task, reported, data>>
userVars   == <<stopped, user>>
netVars    == <<sockets, conn, broker>>
vars == <<clientVars, userVars, netVars, env>>

\* REST is a unit of a publication after its first, ACK an answer to a
\* message that the broker has not sent.  The units published are numbered.
Types == {"CONNECT", "CONNACK", "REFUSED", "SUBSCRIBE", "SUBACK", "PUBLISH", "REST",
          "ACK", "PINGREQ", "PINGRESP", "NONE"}
Published == {"PUBLISH", "REST"}
Messages == [type : Types, id : Nat]
Message(type, id) == [type |-> type, id |-> id]
Garbage == Message("NONE", 0)

TaskPcs == {"none", "begin", "loop", "connect", "connack", "connected", "deliver", "ping",
            "exit"}
UserPcs == {"new", "start", "running", "wait", "freed"}

TypeOK ==
  /\ client \in [state : {"UNKNOW", "INIT", "CONNECTED", "WAIT_TIMEOUT"}, run : BOOLEAN,
                 type : Types, id : {0} \union Ids, count : Nat]
  /\ outbox \in Seq(Messages) /\ inBuffer \in Messages
  /\ left \in 0 .. PubLen /\ (left > 0 <=> task = "deliver")
  /\ task \in TaskPcs /\ user \in UserPcs /\ stopped \in BOOLEAN
  /\ sockets \in 0 .. MaxSockets
  /\ conn \in [sock : BOOLEAN, open : BOOLEAN, up : Seq(Messages), down : Seq(Messages)]
  /\ broker \in [accepted : BOOLEAN, subscribed : BOOLEAN, rest : 0 .. PubLen]
  /\ reported \in {"none", "connected", "subscribed", "disconnected"}
  /\ data \in Seq(SUBSET (1 .. MaxPubs))
  /\ env \in [breaks : 0 .. MaxBreaks, fails : 0 .. MaxFails, pubs : 0 .. MaxPubs]
  /\ client.state = "CONNECTED" => task \in {"loop", "deliver", "ping", "exit"}
  /\ task \in {"connect", "connack", "connected"} => client.state = "INIT"

NoConn == [sock |-> FALSE, open |-> FALSE, up |-> << >>, down |-> << >>]
NoSession == [accepted |-> FALSE, subscribed |-> FALSE, rest |-> 0]

\* esp_mqtt_client_init: calloc for the client, malloc for in_buffer, whose
\* bytes may be anything, a CONNACK too.
Init ==
  /\ client = [state |-> "UNKNOW", run |-> FALSE, type |-> "NONE", id |-> 0, count |-> 0]
  /\ outbox = << >> /\ inBuffer \in {Garbage, Message("CONNACK", 0)}
  /\ left = 0 /\ task = "none" /\ stopped = FALSE /\ user = "new"
  /\ sockets = 0 /\ conn = NoConn /\ broker = NoSession
  /\ reported = "none" /\ data = << >>
  /\ env = [breaks |-> 0, fails |-> 0, pubs |-> 0]

----------------------------------------------------------------------------
(* The driver's start and stop.                                            *)

\* vMQTTClient_Start: esp_mqtt_client_init and, in esp_mqtt_client_start,
\* xTaskCreate.
UserStart ==
  /\ user = "new"
  /\ user' = "start" /\ task' = "begin"
  /\ UNCHANGED <<client, outbox, inBuffer, left, reported, data, stopped, netVars, env>>

\* STOPPED_BIT is cleared when the task runs already.
UserStarted ==
  /\ user = "start"
  /\ user' = "running" /\ stopped' = FALSE
  /\ UNCHANGED <<clientVars, netVars, env>>

\* esp_mqtt_client_stop clears run, which a task that has not begun sets
\* again, and waits.
UserStop ==
  /\ Stops /\ user = "running"
  /\ user' = "wait" /\ client' = [client EXCEPT !.run = FALSE]
  /\ UNCHANGED <<outbox, inBuffer, left, task, reported, data, stopped, netVars, env>>

\* esp_mqtt_client_destroy, whose own stop finds STOPPED_BIT set.  tcp_destroy
\* frees the transport's data, and tcp_close then reads the socket in what it
\* freed: -1 still, or anything, a socket this client lost before too.  Then
\* the outbox and the rest are freed.
UserDestroy ==
  /\ user = "wait" /\ stopped
  /\ sockets' \in {sockets} \union {n \in 0 .. MaxSockets : n = sockets - 1}
  /\ conn' = NoConn /\ broker' = NoSession
  /\ user' = "freed" /\ outbox' = << >>
  /\ UNCHANGED <<client, inBuffer, left, task, reported, data, stopped, env>>

----------------------------------------------------------------------------
(* The transport.                                                          *)

\* The connection c after a write of message; nobody receives it when the
\* connection is broken.
WrittenTo(c, message) == IF c.open THEN [c EXCEPT !.up = Append(@, message)] ELSE c
Written(message) == WrittenTo(conn, message)

\* transport_read returns k units of what has arrived.
CanRead == conn.down # << >>
ReadSizes == {k \in DOMAIN conn.down : k <= BufLen}
After(k) == [conn EXCEPT !.down = SubSeq(@, k + 1, Len(@))]

\* It returns 0 when nothing came in time, -1 at the end of the stream.
ReadTimesOut == conn.open /\ conn.down = << >>
ReadFails == ~conn.open /\ conn.down = << >>

----------------------------------------------------------------------------
(* esp_mqtt_task.                                                          *)

taskUnchanged == <<user>>

\* Mutant: the driver is not told.
AbortSilently ==
  /\ client' = [client EXCEPT !.state = "WAIT_TIMEOUT"]
  /\ UNCHANGED reported

\* esp_mqtt_abort_connection.  The transport is not closed.
AbortConnection ==
  /\ client' = [client EXCEPT !.state = "WAIT_TIMEOUT"]
  /\ reported' = "disconnected"

TaskBegin ==
  /\ task = "begin"
  /\ client' = [client EXCEPT !.run = TRUE, !.state = "INIT"]
  /\ stopped' = FALSE /\ task' = "loop"
  /\ UNCHANGED <<taskUnchanged, outbox, inBuffer, left, reported, data, netVars, env>>

\* Mutant: run is looked at only while there is no connection.
TaskEndOffline ==
  /\ task = "loop" /\ ~client.run /\ client.state # "CONNECTED"
  /\ sockets' = IF conn.sock THEN sockets - 1 ELSE sockets
  /\ conn' = NoConn /\ broker' = NoSession
  /\ stopped' = TRUE /\ task' = "exit"
  /\ UNCHANGED <<taskUnchanged, client, outbox, inBuffer, left, reported, data, env>>

\* run is false: transport_close closes the socket of the last connection,
\* if it had one, and STOPPED_BIT is set.
TaskEnd ==
  /\ task = "loop" /\ ~client.run
  /\ sockets' = IF conn.sock THEN sockets - 1 ELSE sockets
  /\ conn' = NoConn /\ broker' = NoSession
  /\ stopped' = TRUE /\ task' = "exit"
  /\ UNCHANGED <<taskUnchanged, client, outbox, inBuffer, left, reported, data, env>>

\* Mutant: the client is CONNECTED as soon as the transport is.
TaskConnectEarly ==
  /\ task = "loop" /\ client.run /\ client.state = "INIT"
  /\ sockets < MaxSockets
  /\ sockets' = sockets + 1
  /\ conn' = [NoConn EXCEPT !.sock = TRUE, !.open = TRUE] /\ broker' = NoSession
  /\ task' = "connect" /\ client' = [client EXCEPT !.state = "CONNECTED"]
  /\ UNCHANGED <<taskUnchanged, outbox, inBuffer, left, reported, data, stopped, env>>

\* tcp_connect opens another socket and forgets the one before.
TaskConnect ==
  /\ task = "loop" /\ client.run /\ client.state = "INIT"
  /\ sockets < MaxSockets
  /\ sockets' = sockets + 1
  /\ conn' = [NoConn EXCEPT !.sock = TRUE, !.open = TRUE] /\ broker' = NoSession
  /\ task' = "connect"
  /\ UNCHANGED <<taskUnchanged, client, outbox, inBuffer, left, reported, data, stopped, env>>

\* No socket is left, or connect fails and its socket is closed: the
\* transport has none then.
TaskConnectFails ==
  /\ task = "loop" /\ client.run /\ client.state = "INIT"
  /\ \/ sockets = MaxSockets /\ UNCHANGED env
     \/ /\ sockets < MaxSockets /\ env.fails < MaxFails
        /\ env' = [env EXCEPT !.fails = @ + 1]
  /\ conn' = NoConn /\ broker' = NoSession
  /\ AbortConnection
  /\ UNCHANGED <<taskUnchanged, outbox, inBuffer, left, task, data, stopped, sockets>>

\* resolve_dns fails: tcp_connect leaves the connection before as it was.
TaskResolveFails ==
  /\ task = "loop" /\ client.run /\ client.state = "INIT" /\ env.fails < MaxFails
  /\ env' = [env EXCEPT !.fails = @ + 1]
  /\ AbortConnection
  /\ UNCHANGED <<taskUnchanged, outbox, inBuffer, left, task, data, stopped, netVars>>

\* esp_mqtt_connect: CONNECT is written and becomes what is pending, with the
\* id 0 of a type that has none.  A write that fails ends the attempt.
TaskWriteConnect ==
  /\ task = "connect"
  /\ \/ /\ conn' = Written(Message("CONNECT", 0))
        /\ client' = [client EXCEPT !.type = "CONNECT", !.id = 0]
        /\ task' = "connack" /\ UNCHANGED reported
     \/ /\ ~conn.open
        /\ client' = [client EXCEPT !.type = "CONNECT", !.id = 0, !.state = "WAIT_TIMEOUT"]
        /\ reported' = "disconnected" /\ task' = "loop" /\ UNCHANGED conn
  /\ UNCHANGED <<taskUnchanged, outbox, inBuffer, left, data, stopped, sockets, broker, env>>

\* The answer is what in_buffer holds after the read, which a read that times
\* out has not touched.
TaskConnack ==
  /\ task = "connack"
  /\ \/ /\ CanRead /\ inBuffer' = Head(conn.down) /\ UNCHANGED env
        /\ \E k \in ReadSizes : conn' = After(k)
     \/ /\ ReadTimesOut /\ env.fails < MaxFails
        /\ env' = [env EXCEPT !.fails = @ + 1] /\ UNCHANGED <<conn, inBuffer>>
  /\ IF inBuffer'.type = "CONNACK"
     THEN task' = "connected" /\ UNCHANGED <<client, reported>>
     ELSE task' = "loop" /\ AbortConnection
  /\ UNCHANGED <<taskUnchanged, outbox, left, data, stopped, sockets, broker>>

TaskConnackFails ==
  /\ task = "connack" /\ ReadFails
  /\ AbortConnection /\ task' = "loop"
  /\ UNCHANGED <<taskUnchanged, outbox, inBuffer, left, data, stopped, netVars, env>>

\* Mutant: a client that subscribed before does not do it again.
TaskSubscribeOnce ==
  /\ task = "connected"
  /\ task' = "loop" /\ reported' = "connected"
  /\ IF client.count > 0
     THEN client' = [client EXCEPT !.state = "CONNECTED"] /\ UNCHANGED conn
     ELSE \E id \in Ids :
            /\ client' = [client EXCEPT !.state = "CONNECTED", !.type = "SUBSCRIBE", !.id = id,
                                       !.count = @ + 1]
            /\ conn' = Written(Message("SUBSCRIBE", id))
  /\ UNCHANGED <<taskUnchanged, outbox, inBuffer, left, data, stopped, sockets, broker, env>>

\* MQTT_EVENT_CONNECTED, on which the driver calls esp_mqtt_client_subscribe:
\* what is pending moves to the outbox, if anything was ever left pending, and
\* SUBSCRIBE takes its place.  Nobody looks at whether it was written.
TaskConnected ==
  /\ task = "connected"
  /\ task' = "loop" /\ reported' = "connected"
  /\ outbox' = IF client.count > 0
               THEN Append(outbox, Message(client.type, client.id)) ELSE outbox
  /\ \E id \in Ids :
       /\ client' = [client EXCEPT !.state = "CONNECTED", !.type = "SUBSCRIBE", !.id = id,
                                  !.count = @ + 1]
       /\ conn' = Written(Message("SUBSCRIBE", id))
  /\ UNCHANGED <<taskUnchanged, inBuffer, left, data, stopped, sockets, broker, env>>

Receiving == task = "loop" /\ client.run /\ client.state = "CONNECTED"

TaskReceiveFails ==
  /\ Receiving /\ ReadFails
  /\ AbortConnection
  /\ UNCHANGED <<taskUnchanged, outbox, inBuffer, left, task, data, stopped, netVars, env>>

\* The items of the outbox that outbox_delete may remove, the first one going.
Matching(id) == {i \in DOMAIN outbox : outbox[i] = Message("SUBSCRIBE", id)}
IsFirst(i, S) == i \in S /\ \A j \in S : i <= j

\* is_valid_mqtt_msg for a SUBACK: a SUBSCRIBE of its id leaves the outbox or
\* is what is pending, and one message less is waited for.
ValidSuback(id) ==
  /\ client.count > 0
  /\ Matching(id) # {} \/ (client.type = "SUBSCRIBE" /\ client.id = id)

TakeSuback(id) ==
  /\ reported' = "subscribed"
  /\ client' = [client EXCEPT !.count = @ - 1]
  /\ \/ \E i \in Matching(id) :
          /\ IsFirst(i, Matching(id))
          /\ outbox' = SubSeq(outbox, 1, i - 1) \o SubSeq(outbox, i + 1, Len(outbox))
     \/ Matching(id) = {} /\ UNCHANGED outbox

HandleSuback(id) ==
  \/ ValidSuback(id) /\ TakeSuback(id)
  \/ ~ValidSuback(id) /\ UNCHANGED <<client, reported, outbox>>

\* deliver_publish, the first event: its data are what the k units that were
\* read hold of the publication, and the rest is waited for.
Given(k) ==
  {conn.down[i].id : i \in {j \in 1 .. k : j <= PubLen /\ conn.down[j].type \in Published}}
DeliverFirst(k) ==
  /\ data' = Append(data, Given(k))
  /\ left' = IF k < PubLen THEN PubLen - k ELSE 0
  /\ conn' = After(k) /\ UNCHANGED <<client, reported, outbox>>

\* A rest nobody waited for is taken as a message of its own, whatever its
\* bytes say: nothing, a SUBACK, a PUBLISH of any length, whose data
\* mqtt_get_publish_data does not find in a text, or a message that is answered.
HandleRest(k) ==
  \/ left' = 0 /\ conn' = After(k) /\ UNCHANGED data /\ \E id \in Ids : HandleSuback(id)
  \/ /\ left' \in 0 .. PubLen /\ UNCHANGED <<reported, outbox, data>>
     /\ \/ conn' = After(k) /\ UNCHANGED client
        \/ /\ conn' = WrittenTo(After(k), Message("ACK", 0))
           /\ client' = [client EXCEPT !.type = "ACK"]

\* mqtt_process_receive, the message at the start of the k units; a late
\* CONNACK or a PINGRESP does nothing.
Handle(message, k) ==
  \/ /\ message.type = "SUBACK" /\ HandleSuback(message.id)
     /\ left' = 0 /\ conn' = After(k) /\ UNCHANGED data
  \/ message.type = "PUBLISH" /\ DeliverFirst(k)
  \/ message.type = "REST" /\ HandleRest(k)
  \/ /\ message.type \notin {"SUBACK", "PUBLISH", "REST"} /\ left' = 0 /\ conn' = After(k)
     /\ UNCHANGED <<client, reported, outbox, data>>

\* Mutant: the buffer is looked at when nothing came, too.
TaskReceiveStale ==
  /\ Receiving
  /\ \/ \E k \in ReadSizes : inBuffer' = Head(conn.down) /\ Handle(Head(conn.down), k)
     \/ /\ ReadTimesOut /\ left' = 0 /\ UNCHANGED <<client, outbox, reported, conn, inBuffer>>
        /\ data' = IF inBuffer.type = "PUBLISH" THEN Append(data, {inBuffer.id}) ELSE data
  /\ task' = IF left' > 0 THEN "deliver" ELSE "ping"
  /\ UNCHANGED <<taskUnchanged, stopped, sockets, broker, env>>

\* What came together with the first message is lost.
TaskReceive ==
  /\ Receiving
  /\ \/ \E k \in ReadSizes : inBuffer' = Head(conn.down) /\ Handle(Head(conn.down), k)
     \/ ReadTimesOut /\ UNCHANGED <<client, outbox, reported, data, conn, inBuffer, left>>
  /\ task' = IF left' > 0 THEN "deliver" ELSE "ping"
  /\ UNCHANGED <<taskUnchanged, stopped, sockets, broker, env>>

\* deliver_publish, the loop: an event for whatever a read brings, other
\* messages too, without data: mqtt_get_publish_data takes the text for a
\* header and finds none.
TaskDeliver ==
  /\ task = "deliver"
  /\ \E k \in ReadSizes :
       /\ conn' = After(k) /\ inBuffer' = Head(conn.down)
       /\ left' = IF k < left THEN left - k ELSE 0
  /\ task' = IF left' > 0 THEN "deliver" ELSE "ping"
  /\ UNCHANGED <<taskUnchanged, client, outbox, reported, data, stopped, sockets, broker, env>>

\* A read that fails or times out ends the loop.
TaskDeliverEnds ==
  /\ task = "deliver" /\ conn.down = << >>
  /\ left' = 0 /\ task' = "ping"
  /\ UNCHANGED <<taskUnchanged, client, outbox, inBuffer, reported, data, stopped, netVars, env>>

\* When it is time, esp_mqtt_client_ping; PINGREQ is then what is pending.
TaskPing ==
  /\ task = "ping" /\ task' = "loop"
  /\ \/ UNCHANGED <<client, conn>>
     \/ /\ Len(conn.up) < QueueCap
        /\ conn' = Written(Message("PINGREQ", 0))
        /\ client' = [client EXCEPT !.type = "PINGREQ"]
  /\ UNCHANGED <<taskUnchanged, outbox, inBuffer, left, reported, data, stopped, sockets, broker, env>>

\* MQTT_RECONNECT_TIMEOUT_MS have passed.
TaskReconnect ==
  /\ task = "loop" /\ client.run /\ client.state = "WAIT_TIMEOUT"
  /\ client' = [client EXCEPT !.state = "INIT"]
  /\ UNCHANGED <<taskUnchanged, outbox, inBuffer, left, task, reported, data, stopped, netVars, env>>

----------------------------------------------------------------------------
(* The broker and the network.                                             *)

netUnchanged == <<clientVars, userVars, sockets>>

\* The broker takes the next message and answers it, unless it is an answer.
BrokerAnswers ==
  /\ conn.open /\ conn.up # << >> /\ broker.rest = 0 /\ Len(conn.down) < QueueCap
  /\ LET message == Head(conn.up)
         Answer(m) == conn' = [conn EXCEPT !.up = Tail(@), !.down = Append(@, m)]
     IN  \/ /\ message.type = "CONNECT" /\ Answer(Message("CONNACK", 0))
           /\ broker' = [broker EXCEPT !.accepted = TRUE]
        \/ /\ message.type = "SUBSCRIBE" /\ broker.accepted
           /\ Answer(Message("SUBACK", message.id))
           /\ broker' = [broker EXCEPT !.subscribed = TRUE]
        \/ /\ message.type = "PINGREQ" /\ Answer(Message("PINGRESP", 0)) /\ UNCHANGED broker
        \/ /\ message.type = "ACK" /\ conn' = [conn EXCEPT !.up = Tail(@)] /\ UNCHANGED broker
  /\ UNCHANGED <<netUnchanged, env>>

\* The broker refuses the client and closes the connection.
BrokerRefuses ==
  /\ conn.open /\ conn.up # << >> /\ Head(conn.up).type = "CONNECT" /\ env.fails < MaxFails
  /\ conn' = [conn EXCEPT !.open = FALSE, !.up = << >>, !.down = <<Message("REFUSED", 0)>>]
  /\ env' = [env EXCEPT !.fails = @ + 1]
  /\ UNCHANGED <<netUnchanged, broker>>

\* A publication starts, and goes on until all of it is on its way.
Publish(type, rest) ==
  /\ conn.open /\ env.pubs < MaxPubs /\ Len(conn.down) < QueueCap
  /\ conn' = [conn EXCEPT !.down = Append(@, Message(type, env.pubs + 1))]
  /\ env' = [env EXCEPT !.pubs = @ + 1]
  /\ broker' = [broker EXCEPT !.rest = rest]
  /\ UNCHANGED netUnchanged

BrokerPublishes == broker.subscribed /\ broker.rest = 0 /\ Publish("PUBLISH", PubLen - 1)
BrokerGoesOn == broker.rest > 0 /\ Publish("REST", broker.rest - 1)

\* A connection breaks: what is under way to the client may be lost, what is
\* under way to the broker is.
Break ==
  /\ conn.open /\ env.breaks < MaxBreaks
  /\ \E lost \in {conn.down, << >>} :
       conn' = [conn EXCEPT !.open = FALSE, !.up = << >>, !.down = lost]
  /\ env' = [env EXCEPT !.breaks = @ + 1]
  /\ UNCHANGED <<netUnchanged, broker>>

User == UserStart \/ UserStarted \/ UserStop \/ UserDestroy

Task ==
  \/ TaskBegin \/ TaskEnd \/ TaskConnect \/ TaskConnectFails \/ TaskWriteConnect
  \/ TaskConnack \/ TaskConnackFails \/ TaskConnected
  \/ TaskResolveFails \/ TaskReceiveFails \/ TaskReceive \/ TaskDeliver \/ TaskDeliverEnds
  \/ TaskPing \/ TaskReconnect

Network == BrokerAnswers \/ BrokerRefuses \/ BrokerPublishes \/ BrokerGoesOn \/ Break

Next == User \/ Task \/ Network

Spec == Init /\ [][Next]_vars

\* The tasks are scheduled, the connections that stand are served, and a call
\* once begun goes on; stopping is never due.
FairSpec ==
  /\ Spec
  /\ WF_vars(UserStart \/ UserStarted \/ UserDestroy) /\ WF_vars(Task)
  /\ WF_vars(BrokerAnswers \/ BrokerGoesOn)

----------------------------------------------------------------------------
(* Properties.                                                             *)

\* MQTT_EVENT_SUBSCRIBED tells the truth until MQTT_EVENT_DISCONNECTED: the
\* broker has the subscription of this connection, whatever answers to
\* earlier ones and whatever ids were drawn before (is_valid_mqtt_msg).
SubscribedIsTrue == reported = "subscribed" => broker.subscribed \/ task = "exit"

\* No part of a publication is given to the driver twice or after a later
\* one, however it is cut, lost or taken for another message, and although
\* in_buffer keeps the last one for the reads that bring nothing
\* (deliver_publish, mqtt_process_receive).
DeliveredOnceInOrder ==
  \A i, j \in DOMAIN data : i < j => \A m \in data[i], n \in data[j] : m < n

\* Breaks, refusals and late answers that come to an end leave the client
\* subscribed, on the connection it has then, unless it is stopped.
SubscribesAgain ==
  \/ <>[](conn.open /\ broker.subscribed /\ client.state = "CONNECTED")
  \/ <>(user \in {"wait", "freed"})

\* vMQTTClient_Stop returns if its run = false stands: one that comes before
\* the task's first line, which sets run, waits for ever.
StopReturns == user = "wait" /\ task # "begin" /\ ~client.run ~> user = "freed"

=============================================================================
