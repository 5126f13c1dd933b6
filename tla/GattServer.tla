----------------------------- MODULE GattServer -----------------------------
(***************************************************************************)
(* The Bluetooth configuration channel (Task/bluetooth.c): ble_task brings *)
(* up the stack, gap_event_handler and gatts_profile_a_event_handler run   *)
(* in the task of the stack, one event after the other.  The stack         *)
(* (Bluedroid) is external: it completes the calls of each of its halves   *)
(* in their order and queues an event for each; a phone connects while it  *)
(* advertises.  A request must be answered before the phone makes the next *)
(* one; a command is not answered.                                         *)
(***************************************************************************)
EXTENDS Integers, Sequences, FiniteSets

CONSTANTS
  BufSize,     \* PREPARE_BUF_MAX_SIZE, in chunks of a long write
  MaxLong,     \* the longest value a phone may write, in chunks
  MaxWrites,   \* bound: what phones write or read altogether
  MaxConns,    \* bound: connections
  MaxFails     \* bound: calls into the stack that fail

ASSUME GattAssumption ==
  /\ BufSize \in Nat \ {0} /\ MaxLong \in Nat \ {0}
  /\ MaxWrites \in Nat /\ MaxConns \in Nat /\ MaxFails \in Nat

NoHandle == 0
CharHandle == 1      \* attribute handles the stack gives out
DescrHandle == 2
Flags == {"adv_config_flag", "scan_rsp_config_flag"}

Properties == {"READ", "WRITE", "NOTIFY"}

\* The steps of bluetooth_init; the last but one registers the application.
InitSteps == <<"mem_release", "controller_init", "controller_enable", "bluedroid_init", "bluedroid_enable",
               "gatts_callback", "gap_callback", "app_register", "local_mtu">>
Registers(i) == InitSteps[i] = "app_register"

VARIABLES
  init,        \* next step of bluetooth_init, 0 when it has returned
  jobs,        \* calls the stack has not completed, for gap and for gatts
  events,      \* events the stack has queued for the application
  flags,       \* adv_config_done
  handles,     \* gl_profile_tab[PROFILE_A_APP_ID]: char_handle and descr_handle; whether
               \* its service was started; a_property
  prep,        \* a_prepare_write_env; buf is NULL or the chunks in it
  bluetooth_status,
  air,         \* the controller: advertising, and what it was given to advertise
  phone,       \* the phone that is connected, as it sees the connection
  restarted,   \* esp32_user_restart was called
  count,       \* bounds of the model: writes, connections, failures
  log          \* history: requests answered, notifications of the characteristic,
               \* whether a long write was abandoned

vars == <<init, jobs, events, flags, handles, prep, bluetooth_status, air, phone, restarted,
          count, log>>

NULL == {}   \* no buffer: one that was allocated holds the chunk it was allocated for
NoPrep == [buf |-> NULL, len |-> 0]

\* What a phone writes: a configuration the parser accepts, a message it does
\* not (the two bytes that switch notifications off among them), or the two
\* bytes that switch them on.
Values == {"config", "other", "notify_on"}
Chunk == 1 .. MaxLong
\* Only a write without response (rsp FALSE) is a command.
Request == [kind : {"write"}, value : Values, rsp : BOOLEAN]
           \union [kind : {"read", "exec", "cancel"}]
           \union [kind : {"prepare"}, offset : 0 .. MaxLong - 1]
Asks(r) == r.kind # "write" \/ r.rsp
Completion == {"reg", "adv_set", "scan_set", "adv_start", "create", "add_char", "add_descr"}
\* id tells requests apart: it is what the stack calls trans_id.
Event == [id : 1 .. MaxWrites, req : Request]
         \union [id : {0}, req : [kind : Completion \union {"connect", "disconnect"}]]
Notice == [id : Nat, what : {"verdict", "sample"}]
Ev(kind) == [id |-> 0, req |-> [kind |-> kind]]
Queued(kind) == Ev(kind) \in {events[i] : i \in DOMAIN events}

TypeOK ==
  /\ init \in 0 .. Len(InitSteps)
  /\ jobs \in [{"gap", "gatts"} -> Seq(Completion)] /\ events \in Seq(Event)
  /\ flags \subseteq Flags
  /\ handles \in [char : {NoHandle, CharHandle}, descr : {NoHandle, DescrHandle},
                  started : BOOLEAN, property : SUBSET Properties]
  /\ prep \in [buf : SUBSET Chunk, len : Nat]
  /\ bluetooth_status \in {"CONNECT", "DISCONNECT"}
  /\ air \in [on : BOOLEAN, data : SUBSET Flags]
  /\ phone \in [linked : BOOLEAN, waits : BOOLEAN, long : 0 .. MaxLong]
  /\ restarted \in BOOLEAN
  /\ count \in [writes : 0 .. MaxWrites, conns : 0 .. MaxConns, fails : 0 .. MaxFails]
  /\ log \in [answered : Seq(Nat), notified : Seq(Notice), abandoned : BOOLEAN]

Init ==
  /\ init = 1
  /\ jobs = [h \in {"gap", "gatts"} |-> << >>] /\ events = << >>
  /\ flags = {} /\ prep = NoPrep
  /\ handles = [char |-> NoHandle, descr |-> NoHandle, started |-> FALSE, property |-> {}]
  /\ bluetooth_status = "DISCONNECT"
  /\ air = [on |-> FALSE, data |-> {}]
  /\ phone = [linked |-> FALSE, waits |-> FALSE, long |-> 0]
  /\ restarted = FALSE
  /\ count = [writes |-> 0, conns |-> 0, fails |-> 0]
  /\ log = [answered |-> << >>, notified |-> << >>, abandoned |-> FALSE]

\* A call into the stack is accepted, or returns an error.
Fails == count.fails < MaxFails /\ count' = [count EXCEPT !.fails = @ + 1]
Works == UNCHANGED count

----------------------------------------------------------------------------
(* ble_task.                                                               *)

\* Every call of bluetooth_init that fails ends it, and nobody starts it again; the
\* first is in ESP_ERROR_CHECK, which aborts.
BluetoothInit ==
  /\ init # 0 /\ ~restarted
  /\ \/ /\ Works
        /\ init' = IF init = Len(InitSteps) THEN 0 ELSE init + 1
        /\ jobs' = IF Registers(init) THEN [jobs EXCEPT !["gatts"] = <<"reg">>] ELSE jobs
        /\ UNCHANGED restarted
     \/ /\ Fails
        /\ init' = 0 /\ restarted' = (InitSteps[init] = "mem_release")
        /\ UNCHANGED jobs
  /\ UNCHANGED <<events, flags, handles, prep, bluetooth_status, air, phone, log>>

----------------------------------------------------------------------------
(* The stack and the controller.                                           *)

\* A call completes: what it was to do is done and its event is queued.
StackCompletes(half) ==
  /\ jobs[half] # << >> /\ ~restarted
  /\ LET job == Head(jobs[half])
     IN  /\ jobs' = [jobs EXCEPT ![half] = Tail(@)]
         /\ events' = Append(events, Ev(job))
         /\ air' = CASE job = "adv_set" -> [air EXCEPT !.data = @ \union {"adv_config_flag"}]
                     [] job = "scan_set" -> [air EXCEPT !.data = @ \union {"scan_rsp_config_flag"}]
                     [] job = "adv_start" -> [air EXCEPT !.on = ~phone.linked]
                     [] OTHER -> air
  /\ UNCHANGED <<init, flags, handles, prep, bluetooth_status, phone, restarted, count, log>>

PhoneConnects ==
  /\ air.on /\ ~phone.linked /\ ~restarted /\ count.conns < MaxConns
  /\ count' = [count EXCEPT !.conns = @ + 1]
  /\ air' = [air EXCEPT !.on = FALSE]
  /\ phone' = [linked |-> TRUE, waits |-> FALSE, long |-> 0]
  /\ events' = Append(events, Ev("connect"))
  /\ UNCHANGED <<init, jobs, flags, handles, prep, bluetooth_status, restarted, log>>

\* The link is lost, in the middle of a long write perhaps; requests under
\* way have been delivered to the application already.
PhoneLeaves ==
  /\ phone.linked /\ ~restarted
  /\ log' = [log EXCEPT !.abandoned = @ \/ phone.long > 0]
  /\ phone' = [phone EXCEPT !.linked = FALSE, !.waits = FALSE, !.long = 0]
  /\ events' = Append(events, Ev("disconnect"))
  /\ UNCHANGED <<init, jobs, flags, handles, prep, bluetooth_status, air, restarted, count>>

\* A request to an attribute the service already has, once it is started.
PhoneAsks(r) ==
  /\ phone.linked /\ ~phone.waits /\ ~restarted /\ count.writes < MaxWrites
  /\ handles.started
  /\ Queued("add_char") \/ handles.char # NoHandle
  /\ r.kind = "write" /\ r.value = "notify_on" =>
       Queued("add_descr") \/ handles.descr # NoHandle
  /\ CASE r.kind = "prepare" -> phone.long < MaxLong /\ r.offset = phone.long
       [] r.kind \in {"exec", "cancel"} -> phone.long > 0
       [] OTHER -> phone.long = 0
  /\ phone' = [phone EXCEPT !.waits = Asks(r),
                            !.long = CASE r.kind = "prepare" -> @ + 1
                                       [] r.kind \in {"exec", "cancel"} -> 0
                                       [] OTHER -> @]
  /\ count' = [count EXCEPT !.writes = @ + 1]
  /\ events' = Append(events, [id |-> count.writes + 1, req |-> r])
  /\ UNCHANGED <<init, jobs, flags, handles, prep, bluetooth_status, air, restarted, log>>

----------------------------------------------------------------------------
(* gap_event_handler.                                                      *)

stackUnchanged == <<init, air>>
appUnchanged == <<init, air, bluetooth_status, restarted>>
NextEvent(kind) ==
  /\ events # << >> /\ Head(events).req.kind = kind /\ ~restarted
  /\ events' = Tail(events)

\* esp_ble_gap_start_advertising, whose result nobody looks at.
StartAdvertising ==
  \/ Works /\ jobs' = [jobs EXCEPT !["gap"] = Append(@, "adv_start")]
  \/ Fails /\ UNCHANGED jobs

\* The completion of either configuration; the later one starts advertising.
AdvSet(kind, flag) ==
  /\ NextEvent(kind)
  /\ flags' = flags \ {flag}
  /\ IF flags' = {} THEN StartAdvertising ELSE UNCHANGED <<jobs, count>>
  /\ UNCHANGED <<appUnchanged, handles, prep, phone, log>>

AdvStarted ==
  /\ NextEvent("adv_start")
  /\ UNCHANGED <<appUnchanged, jobs, flags, handles, prep, phone, count, log>>

----------------------------------------------------------------------------
(* gatts_profile_a_event_handler.                                          *)

\* ESP_GATTS_REG_EVT: each flag is set whether its call was accepted or not.
\* A registration that failed never reaches the profile.
Registered ==
  /\ NextEvent("reg")
  /\ \/ \E lost \in SUBSET {"adv_set", "scan_set", "create"} :
          /\ count.fails + Cardinality(lost) <= MaxFails
          /\ count' = [count EXCEPT !.fails = @ + Cardinality(lost)]
          /\ flags' = Flags
          /\ LET accepted(call) == IF call \in lost THEN << >> ELSE <<call>>
             IN  jobs' = [jobs EXCEPT !["gap"] = @ \o accepted("adv_set") \o accepted("scan_set"),
                                      !["gatts"] = @ \o accepted("create")]
     \/ Fails /\ UNCHANGED <<flags, jobs>>
  /\ UNCHANGED <<appUnchanged, handles, prep, phone, log>>

\* ESP_GATTS_CREATE_EVT: starts the service and asks for its characteristic, whatever
\* the start said.  It completes before the characteristic and its event is only
\* logged, so that it counts as done at once.
Created ==
  /\ NextEvent("create")
  /\ \E starts, adds \in BOOLEAN :
       /\ IF starts /\ adds THEN Works ELSE Fails
       /\ handles' = [handles EXCEPT !.started = starts, !.property = Properties]
       /\ jobs' = IF adds THEN [jobs EXCEPT !["gatts"] = Append(@, "add_char")] ELSE jobs
  /\ UNCHANGED <<appUnchanged, flags, prep, phone, log>>

\* ESP_GATTS_ADD_CHAR_EVT.
CharAdded ==
  /\ NextEvent("add_char")
  /\ handles' = [handles EXCEPT !.char = CharHandle]
  /\ \/ Works /\ jobs' = [jobs EXCEPT !["gatts"] = Append(@, "add_descr")]
     \/ Fails /\ UNCHANGED jobs
  /\ UNCHANGED <<appUnchanged, flags, prep, phone, log>>

\* Mutant: the descriptor's handle replaces the characteristic's.
DescrAddedAsChar ==
  /\ NextEvent("add_descr")
  /\ handles' = [handles EXCEPT !.char = DescrHandle]
  /\ UNCHANGED <<appUnchanged, jobs, flags, prep, phone, count, log>>

DescrAdded ==
  /\ NextEvent("add_descr")
  /\ handles' = [handles EXCEPT !.descr = DescrHandle]
  /\ UNCHANGED <<appUnchanged, jobs, flags, prep, phone, count, log>>

\* ESP_GATTS_CONNECT_EVT; the parameters it asks for change nothing here.
Connected ==
  /\ NextEvent("connect")
  /\ bluetooth_status' = "CONNECT"
  /\ UNCHANGED <<stackUnchanged, restarted, jobs, flags, handles, prep, phone, count, log>>

\* Mutant: the device waits for another start.
DisconnectedSilently ==
  /\ NextEvent("disconnect")
  /\ bluetooth_status' = "DISCONNECT"
  /\ UNCHANGED <<stackUnchanged, restarted, jobs, flags, handles, prep, phone, count, log>>

\* ESP_GATTS_DISCONNECT_EVT; what was prepared stays in its buffer.
Disconnected ==
  /\ NextEvent("disconnect")
  /\ bluetooth_status' = "DISCONNECT"
  /\ StartAdvertising
  /\ UNCHANGED <<stackUnchanged, restarted, flags, handles, prep, phone, log>>

\* esp_ble_gatts_send_response: the request of this event is answered, if its
\* phone is still there.
Handled == Head(events).req
Respond == phone' = [phone EXCEPT !.waits = FALSE]
WithAnswer(l) == IF phone.linked THEN [l EXCEPT !.answered = Append(@, Head(events).id)] ELSE l
\* esp_ble_gatts_send_indicate on the characteristic, for the message of this event.
WithNotice(l, what) ==
  IF phone.linked
  THEN [l EXCEPT !.notified = Append(@, [id |-> Head(events).id, what |-> what])]
  ELSE l

\* Mutant: a read is not answered.
ReadSilently ==
  /\ NextEvent("read")
  /\ UNCHANGED <<appUnchanged, jobs, flags, handles, prep, phone, count, log>>

\* ESP_GATTS_READ_EVT: the device's description.
Read ==
  /\ NextEvent("read")
  /\ Respond /\ log' = WithAnswer(log)
  /\ UNCHANGED <<appUnchanged, jobs, flags, handles, prep, count>>

\* What a write that was not prepared tells the phone before its answer: that the
\* parser has looked at it (the characteristic is given the bytes at &buffer, which
\* are not those of the reply), and a sample when it switches notifications on.
Switches == /\ Handled.value = "notify_on" /\ handles.descr # NoHandle
            /\ "NOTIFY" \in handles.property
Told == LET verdict == WithNotice(log, "verdict")
        IN  IF Switches THEN WithNotice(verdict, "sample") ELSE verdict

\* Mutant: the parser's verdict answers the write, and the common end does again.
WriteAnsweredTwice ==
  /\ NextEvent("write")
  /\ restarted' = (Handled.value = "config")
  /\ Respond /\ log' = IF Handled.rsp THEN WithAnswer(WithAnswer(log)) ELSE log
  /\ UNCHANGED <<stackUnchanged, bluetooth_status, jobs, flags, handles, prep, count>>

\* ESP_GATTS_WRITE_EVT, not prepared: whatever attribute was written, the
\* parser sees it.  A message it accepts restarts the device before the write
\* is answered; one it refuses, and a switch, is answered when it asks for it.
Write ==
  /\ NextEvent("write")
  /\ IF Handled.value = "config"
     THEN restarted' = TRUE /\ log' = Told /\ UNCHANGED phone
     ELSE /\ UNCHANGED restarted
          /\ IF Handled.rsp THEN Respond /\ log' = WithAnswer(Told)
             ELSE log' = Told /\ UNCHANGED phone
  /\ UNCHANGED <<stackUnchanged, bluetooth_status, jobs, flags, handles, prep, count>>

\* example_write_event_env, prepared: the first chunk needs a buffer from the heap and
\* is copied without a look at its offset, a later one must fit.  What is refused is
\* answered with an error, and the phone's long write stands where it stood.
Refuse == phone' = [phone EXCEPT !.waits = FALSE, !.long = IF phone.linked THEN Handled.offset ELSE @]
Prepare ==
  /\ NextEvent("prepare")
  /\ LET first == prep.buf = NULL
         fits  == Handled.offset + 1 <= BufSize
     IN  \/ /\ first \/ fits
            /\ Works /\ Respond
            /\ prep' = [buf |-> prep.buf \union {Handled.offset + 1}, len |-> prep.len + 1]
         \/ /\ IF first THEN Fails ELSE Works /\ ~fits
            /\ Refuse /\ UNCHANGED prep
  /\ log' = WithAnswer(log)
  /\ UNCHANGED <<appUnchanged, jobs, flags, handles>>

\* Mutant: the executing write leaves the buffer for the next one.
ExecuteKeeps ==
  /\ NextEvent("exec") \/ NextEvent("cancel")
  /\ Respond
  /\ log' = WithAnswer([log EXCEPT !.abandoned = FALSE])
  /\ UNCHANGED <<appUnchanged, jobs, flags, handles, prep, count>>

\* ESP_GATTS_EXEC_WRITE_EVT: answered, logged and freed, whether executed or
\* cancelled; the parser is not called.
Execute ==
  /\ NextEvent("exec") \/ NextEvent("cancel")
  /\ prep' = NoPrep
  /\ Respond
  /\ log' = WithAnswer([log EXCEPT !.abandoned = FALSE])
  /\ UNCHANGED <<appUnchanged, jobs, flags, handles, count>>

----------------------------------------------------------------------------

App ==
  \/ AdvSet("adv_set", "adv_config_flag") \/ AdvSet("scan_set", "scan_rsp_config_flag")
  \/ AdvStarted \/ Registered \/ Created \/ CharAdded \/ DescrAdded \/ Connected
  \/ Disconnected \/ Read \/ Write \/ Prepare \/ Execute

Next ==
  \/ BluetoothInit
  \/ \E half \in {"gap", "gatts"} : StackCompletes(half)
  \/ App
  \/ PhoneConnects \/ PhoneLeaves
  \/ \E r \in Request : PhoneAsks(r)

Spec == Init /\ [][Next]_vars

\* The tasks are scheduled and the stack completes what it was asked to do; no
\* phone ever has to do anything.
FairSpec ==
  Spec /\ WF_vars(BluetoothInit) /\ WF_vars(App)
       /\ \A half \in {"gap", "gatts"} : WF_vars(StackCompletes(half))

----------------------------------------------------------------------------
(* Properties.                                                             *)

\* Each request of a phone is answered at most once and in order, across
\* connections that break with requests under way (the handlers of
\* gatts_profile_a_event_handler each answer for themselves).
Channel == INSTANCE ControlChannel WITH
  Clients <- {"phones"},
  sent <- [c \in {"phones"} |-> count.writes],
  answered <- [c \in {"phones"} |-> log.answered]
ImplementsChannel == Channel!Spec

\* The buffer of prepared writes holds the long write under way and nothing
\* else, unless a connection broke during an earlier one: its chunks stay and
\* prepare_len goes on from there.
RequestQueued == \E i \in DOMAIN events : events[i].id # 0
PreparedIsOneWrite ==
  ~log.abandoned /\ ~RequestQueued =>
    /\ prep.len = phone.long
    /\ prep.buf = 1 .. phone.long

\* Every request ends: with an answer, a restart, or the end of the connection.
RequestsEnd == phone.waits ~> ~phone.waits \/ restarted

\* The device can be found again after every connection, unless a call into
\* the stack failed.
FoundAgain == []<>(air.on \/ phone.linked \/ restarted \/ count.fails > 0)

=============================================================================
