# Smart IR Blaster: TLA+ specifications

Smart IR Blaster is firmware for an ESP32 (ESP-IDF, FreeRTOS) that learns the
commands of infrared remotes, keeps them in a flash file system and sends them,
or the codes of known protocols, on demand of a client over TCP, UART or
Bluetooth. This directory holds TLA+ models of its control logic, the TLC
configurations that check them on small instances, and proofs for every value
of the constants, checked by TLAPS. All source paths below are under
`src/main/`.

1. [The system](#the-system): components, interactions, what is hard, what correct means
2. [The modules](#the-modules) and how they correspond to the code
3. [The runs](#the-runs): questions, bounds, results
4. [Fairness](#fairness)
5. [The proofs](#the-proofs)
6. [What is left out](#what-is-left-out)
7. [The plan](#the-plan)

## The system

### Components

| component | state it keeps | operations | how it meets the others |
|---|---|---|---|
| `json_parser/json_parser.c` | none of its own; writes `DeviceData` | `json_parser_message` and the handlers of `control`, `save_file`, `learn_cmd`, `end_learn`, `new_cmd`, `check_device`, `smart_config` | called from the task of the control channel (TCP or UART) and from the Bluetooth host task |
| `Ir_driver/ir_driver.c` | `new_cmd`, `ir_raw_data`, `ir_driver_rx_enable`, the RMT channels | transmit task, receive task, start, stop, install, uninstall | reads and writes `IrMessageCtr_Info` without a lock |
| `Interface/Logger_File/logger_file.c` | the remotes' files, `config.txt`, one shared `static FILE *f` | save, save string, check, read, list, delete; load and save the settings | called from the receive task, the transmit task, `app_main` and the parser |
| `Task/plantTaskCtrl.c` | `change_device_state` | `plant_check_irState`, `plant_check_StateDevice` | polls `eIrState` and `eStateDevice`; starts the receiver, Wi-Fi and one control channel |
| `Task/wifi_task.c` | the event group | start of the station, the handlers of its events, `wait_for_ip` | runs in the plant task and in the event loop task; sets `eStateDevice` |
| `Task/led_task.c`, `Led_driver/LedStatus.c` | `doing`, one record per LED | shows the state, watches the button | reads `eStateDevice`, sets `SmartConfig_State` and `eStateDevice`, starts Bluetooth |
| `Task/bluetooth.c` | advertising flags, prepared writes, connection | GATT server with a configuration characteristic | hands what the phone writes to the parser, answers, restarts the chip |
| `Task/tcp_server.c` | `listen_sock`, `_sock` | accept, receive, reply, transmit | calls the parser; is called by the receive task |
| `Task/uart_task.c`, `Interface/UserUart.c` | a line buffer | read, parse, write | calls the parser |
| `mqtt_driver/` | client state, pending message, outbox, buffers | start, stop, connect, subscribe, receive, keep-alive, reconnect | started by the plant task when the settings say so |
| `Ir_driver/ir_protocol_cpp/` | an object per command: carrier, or the bit-fields of an air conditioner's remote | 24 pulse encoders (`SendCommand`), 34 air conditioner classes (`SendHAVC`) | called by the transmit task |
| `Interface/shell/` | FIFO, line and history buffers | shell, retargeted `printf` | disabled in `main.c` |

`DeviceData` (`data_base/data_base.c`, `Common.h`) is one global record; its
part `IrMessageCtr_Info` is a one-place mailbox: the parser fills in the texts
of a command and then stores `new_ctrl_cmd`, and the transmit and the receive
task poll it. Nothing protects it: every access of every task may fall between
two accesses of another.

### What is hard

* **Interleaving.** Four tasks write `new_ctrl_cmd`; the transmit task clears
  the slot at the end of a command whatever is in it by then; the receive task
  reads it twice in one round; both driver tasks write files through one
  handle; five activities write `eStateDevice`.
* **Crash and restart.** The settings are rewritten in place by
  `fopen(.., "w")`, three `fputs` and `fclose`, and the power can fail
  anywhere; a successful configuration, and every panic, restarts the chip.
* **The network.** Connections break before, during and after an answer; send
  delivers less than it was given; a read brings a piece of a message, or several
  messages; a read that times out leaves the last message in the buffer; sockets are a
  finite table.
* **Liveness.** The set-up waits for an IP address without a timeout, one TCP
  task serves all clients, the MQTT client must subscribe again after each
  disconnection, and stopping it waits for a bit its task sets.

* **Sequences of setters.** An air conditioner's settings exclude and limit one
  another, each of some 30 setters of a class takes care of a few others, and
  what is sent depends on their order.
* **Numbers at their edge.** Durations are cut to 15 bits, codes are shifted as
  `int`, a line is read into 1024 bytes, checksums cover a range that depends
  on the command.

The 40 hazards in `PROJECT.json` point at the lines where each of these bites
and name the properties that cover them, or say why none does.

### What makes each component correct

* Learning and sending: a capture the user is asked about, or has accepted, is
  still there when it is saved; what is sent is what was asked for, once;
  the receiver runs in
  learning mode and is never running while the driver believes it is off.
* Remote files: a learned line, with the pulses captured, reaches the file of its own remote, once,
  and no other file.
* Settings: a restart finds one account, whole, or none; what was answered with
  success stays stored, if the flash took it.
* Set-up: once per start, with the channel the settings ask for, and completed
  when the network allows it; the LED tells the truth in the end.
* TCP: whole replies in order, no second answer to a message that was read whole,
  every client served in the end.
* Bluetooth: each request is answered once and in order, or the device restarts;
  the buffer of prepared writes holds one long write; after every connection
  the device can be found again.
* Encoders: a receiver of the protocol reads the code that was stored; the air
  conditioner is asked for the power, mode and temperature of the message, and
  its settings never contradict one another.
* MQTT: the driver's picture of the subscription is true, no part of a publication
  comes twice or late, the client finds back to its
  subscription after every failure, a stop the task has seen returns.

## The modules

Every module has one action per step of the code between two accesses to
something another task, the network or the power can change, and names the
function it stands for; `PROJECT.json` maps each definition to its lines.
Definitions whose comment starts with "Mutant:" are wrong on purpose: each
replaces one definition to show that a property notices.

| module | models | composed of |
|---|---|---|
| `CommandFile` | streams, the shared handle and the remotes' files of `logger_file.c` | |
| `IrControl` | the parser's control messages, `ir_driver_tx_task`, `ir_driver_rx_task`, `plant_check_irState`, the RMT receiver | `CommandFile` |
| `Provisioning` | `app_main`, `plant_check_StateDevice`, `wifi_task`, the Wi-Fi events, `led_task`, the smart configuration and `config.txt`, restarts and power failures | |
| `ControlChannel` | abstract: what a control channel promises its clients | |
| `TcpServer` | `tcp_server_task`, `do_retransmit`, `tcp_server_transmit`, clients and the socket table | |
| `GattServer` | `ble_task`, `bluetooth_init` and the GAP and GATT handlers of `bluetooth.c`, the stack and the phones | implements `ControlChannel` |
| `MqttClient` | `esp_mqtt_task` and what it calls, `vMQTTClient_Start` and `_Stop`, the driver's event handler, the TCP transport; broker and network | |
| `IrTransmit` | from a stored line to the items on the transmit channel: `ir_driver.c`, `ir_driver_basic.c`, `IrBase.cpp`, `IrSend.cpp` and the 24 protocols of `SendCommand` | |
| `AirConditioner` | what `SendHAVC` does with a message, for 34 classes | `AcDaikin`, `AcHitachi`, `AcMitsubishi`, `AcJapan`, `AcChina`, `AcWorld`, over `AcCommon` |
| `IrControlProofs`, `ProvisioningProofs`, `MqttProofs`, `TcpProofs`, `GattProofs`, `IrTransmitProofs`, `AcProofs`, `AcAskedProofs` | theorems | their module, `TLAPS` |
| `MCIrControl`, `MCProvisioning`, `MCTcpServer`, `MCMqttClient`, `MCGattServer`, `MCAirConditioner`, `MCIrTransmit` | messages, accounts, clients, codes and values of the runs | their module |

### CommandFile and IrControl

`flash` holds the lines of every file, `stream` the stream objects of the C
library with what they buffer, `f` the file-scope handle. `fopen` takes a free
stream or returns NULL, `fputs` to a closed stream does nothing and to NULL
panics, `fclose` moves the buffered lines to the file. `HasCommand` and
`ReadCommand` are `logger_file_check_cmd` and `logger_file_read_cmd`, whose own
local handle also needs a free stream.

`cmd`, `slot` and `irState` are the mailbox; `raw`, `newCmd` and `ring` the
capture on its way; `rxEnable` and `rxRunning` what `ir_driver_start` believes
and what the hardware does. The tasks' program counters name the step they are
at: `chan` walks the parser from the type of a message to its last store (the
order of the stores is the code's: `end_learn` sets `new_ctrl_cmd` before
`eIrState`, `learn_cmd` after it; the two names are two steps, with the file's name first in
`new_cmd` and in a `control` of a raw code); `tx` the `strcmp` chain, the lookup, the
transmission and the clearing, one `memset` a step; `rx` the capture, the switch, the save through
the shared handle; `plant` the flag and the channel. The history variables
`asked`, `stores`, `runs` and `sent` exist for the properties only.

A pulse train or a code is a model value; `ShortWaves` are the captures with
fewer than four durations, which the receive task drops. A remote is a name; whether a
protocol exists for it is a constant set (`CommandProtocols`, `HavcProtocols`),
since `SendCommand` and `SendHAVC` are chains of comparisons with names.
A message whose `encode` or a member of it is missing (`encoded`) is dereferenced all the same and restarts
the chip (`ChanFault`): `save_file` does so before it stores the names, `control` after. `check_device` has 12 characters and
`type_cmd` room for 10, so the command of that message runs over into `value_cmd` (`StoreType`). The four numbers of an air
conditioner are stored as one value; names and remotes are taken to fit their buffers.
`Spaced` restricts the users to act only when the device is `Settled`: some
properties are promises only to a user who waits, as the others are violated by
design of a one-place mailbox, and the run's name says which is checked.

### Provisioning

`file` is `config.txt`: whether it exists, whose lines it has and how many;
`writer` the stream that is open on it. A power failure keeps any number of the
lines written so far (a line is whole or absent: what a torn line does is left
out). Nobody looks at what `fputs` and `fclose` return, so on a full flash any number of
the lines may be lost as well (`WritesFail`) and the answer is success all the same (`json_parser.c:195`);
`ble.cut` remembers that for the property. `settings` is RAM, `loaded` what this start read.
`plant` follows `plant_check_StateDevice` with its argument `seen`, which is
older than the `eStateDevice` the function tests; `ev` the event loop task,
`led` one round of `led_task`, `ble` the GATT write handler in
`json_parser_smartconfig`. `Restart` is `esp_restart`, a panic and a power
failure: RAM as `app_main` leaves it, flash untouched. `wifi` is the driver and
the event group's bit: `xEventGroupSetBits` unblocks a waiting task for good
even when the bit is cleared before it runs. The address DHCP brings (`EvGotIp`) sets the same bit as the association,
so one that is overtaken by the loss of the connection sets it once more.

Simplifications: `wifi_init_sta` copies the account in one step (nothing writes
it then except a smart configuration, which restarts); the LED's round reads
`eStateDevice` once; the button counts as held only after the driver has been
started, because the hold takes two seconds and the start of the plant task none;
`NoText` is the empty string of a blank field.

### ControlChannel

What a channel with one answer per request promises; `GattServer` implements it, and `TcpServer` does
not: TCP keeps no message boundaries, and its task answers every `recv` (`tcp_server.c:43`, 58).
Two variables suffice: a client sends messages, numbered as it goes, and an
answer is for a message newer than all those answered before. Nothing says that
an answer comes (connections break); what is due in the end is `RequestsEnd`.

### TcpServer

`table` is lwIP's socket table, `queue` the backlog, `conn[c]` the connection as
client `c` sees it. What a client sends is a stream of numbered units, `MsgLen` to a message, and `recv` takes
any number of them that has arrived and fits in `rx_buffer` (`RxLen`): a piece of a message, a whole one, the end of one with the
start of the next, several. The parser reads the message the received part begins with, if all of it is there
(`whole`), and nothing else of that part; whatever it makes of it, a reply follows. So a message that comes in pieces
is refused once for each piece, and one joined behind another gets no answer at all: that is what the code does, and
`RepliesInOrder` says what is left to rely on. `got` is what each `send` brought the client: which
part of its stream it answers, and from which unit of the reply up to which. `srv` is the task between its blocking calls.
A reply is
`ReplyLen` units, so that a short send can be told from a whole one; `left` is
`to_write`, kept at `ReplyLen + 1` once a failing send has made it grow. What the
parser does with a message is `IrControl`'s business; here it takes one step and
ends in a reply. `push` is the IR receive task in `tcp_server_transmit`; what it
pushes is counted only, since nothing relates it to a message.
With short sends (`ShortSends`) the second chunk of a reply starts at its first unit again, which
`tcp_short` shows and the theorem excludes by assumption.

Two facts the runs take as given, because nothing is left to promise once they
happen: a socket that was accepted is never closed, so every client that leaves
keeps an entry of the table (`tcp_server.c:177`), and `to_write -= -1` after a
failing send loops for ever (`tcp_server.c:78`). They are the two excuses
(`Excused`) of `ServedUnlessStuck`.

### GattServer

`init` walks `bluetooth_init`; each call may fail and ends it (the first one
aborts, and the chip restarts). The stack is
external: `jobs` are the calls it has accepted and not completed, one sequence for its GAP and
one for its GATT half, `events` the one queue from which the handlers are
called. `flags` is `adv_config_done`, `handles` the profile's attribute handles, whether
its service was started, and `a_property`; `prep` is the buffer of prepared writes. `phone` is the phone that is connected,
as it sees it: it makes one request at a time, any number of commands (writes
without response) between two requests, and may leave in the middle of everything, its requests still in the
queue. Each `ESP_GATTS_..._EVT` and `ESP_GAP_BLE_..._EVT` with an effect is one action.

What a phone writes is one of three values: a configuration the parser accepts
(the device restarts before it answers, `json_parser_smartconfig`), the two
bytes that switch notifications on, and everything else. An executing write is
answered and its buffer freed; the parser never sees what was prepared, so a
configuration longer than one packet has no effect. A chunk counts as one unit of
the buffer (`BufSize`). The first one needs memory from the heap (which may be refused)
and its offset is not looked at; a later one must fit, and one that is refused is answered with an
error and not kept. A write also notifies the phone before it is answered
(`notified`): the characteristic gets the bytes at `&buffer`, the address of a local pointer, and
not those of the parser's reply, so only that it was sent is in the model.
Left out: the connection parameters asked for in `ESP_GATTS_CONNECT_EVT`, the number
of the connection (written and never read), and the memory a read or a write does not free.

### IrTransmit

`Data` and `DataShifted` are the two ways `ir_driver_tx_task` packs a line's hexadecimal bytes into a `uint64_t`: the
shifts are those of an `int`, so byte 3 extends its sign and bytes beyond it are
shifted too far, which is undefined: the model takes either outcome a build
can produce. `Stored` is what `fgets` leaves of a learned line. Each protocol is
an operator from a word to a sequence of channel operations (`install`,
`write`, `uninstall`): constructors install, destructors uninstall, and
protocols that borrow another one's object nest them. `todo` runs these one at
a time against the one channel; `air` is what leaves the LED, every item with
the carrier at that moment. Marks and spaces are cut as `mark` and `space` cut
them, and a raw list of odd length reads one duration past its end.

`Receivers` is what a receiver of each protocol knows: its timings and the gap its header or source declares, also
where the code does not send it. `Gapless` names the five that do not: `sendGeneric` writes the gap together with the
footer mark and drops it when that is 0 (`IrSend.cpp:101-104`), which is so for SONY and SONY38 (`IrSony.cpp:34-35`, 79), LUTRON
(`IrLutron.cpp:27`) and MAGIQUEST (`IrMagiquest.h:44`), and RCMM's source says that the
protocol requires a wait nothing adds (`IrRCMM.cpp:109-111`). A copy of those follows the one before
without a pause; `GapsKept` says nothing of them.

Left out is the time the processor takes between two writes, which is part of
the gap between messages.

### AirConditioner and its classes

A remote is the record of the bit-fields its setters can change and the
members kept beside them (`_saved_temp`, `prev_mode`); a setter is an operator
from remotes to remotes. Each class has its bits, `stateReset`, `setparam`,
the setters no message reaches (`..._options`), the sections and sums of its frame, and how a unit reads it
(`Asks`). One message is `json_parser_command_contrl`,
`Construct`, `setparam`, up to `MaxOptions` options before or after, `send`, and
`Destroy`. Byte-wide arguments keep their width, and values in the fields are
compared with the fields' widths (`TypeOK`). Tables of the code are functions written with `:>`
and `@@`, defined in `AcCommon` as they are in the module TLC.

`Answers` is what a message should come to: the power, mode and temperature asked for, the temperature within the class's limits, and for
an LG that is switched off the one frame for that. The code does something else with some messages. These are left out
of `SentAsAsked` by name, and nothing is claimed of them (`Altered`):

| class | message | what the code does |
|---|---|---|
| Fujitsu | power off | the setters that follow `setPower` overwrite its command (`IrFujitsu.cpp:76-81`) |
| Toshiba | power off | the mode's setter overwrites it (`IrToshiba.cpp:77-82`, 129-136) |
| Daikin64 | auto, heat | it has no such mode and cools (`IrDaikin.cpp:689-694`) |
| Whirlpool | auto | it heats (`IrWhirlpool.cpp:80-90`, 219) |
| Daikin128 | dry | the conversion returns another class's `kDaikinDry` (`IrDaikin.cpp:1130-1138`) |
| Kelvinator | dry | a `FALL-THRU` into a `break` (`IrKelvinator.cpp:179-188`) |
| TCL | fan | the same (`IrTCL112Ac.cpp:170-177`) |
| MitsubishiAC, Mitsubishi112 | fan | no case, no fan mode (`IrMitsubishi112.cpp:427-434`, 908-916) |
| Sanyo, Argo | fan | no fan mode (`IrSanyo.cpp:124-131`, `IrArgo.cpp:81-94`) |
| Sharp | cool, dry, fan | the cases fall through to auto (`IrSharp.cpp:377-388`), although a comment there marks another intention |

Some of them the unit cannot do, and others read as mistakes; the model says what is sent in either case (`Asks`), and that it
differs from the message is plain to see in the class's `convertMode`. `OwnTemp` is the same for the temperature
alone: Daikin176 in dry and fan, Hitachi1 and Gree in auto, Sharp in all modes but heat bring their own,
Midea reads the message's Celsius as Fahrenheit, and Daikin152 lets 96, its mark for the fan mode, through unclamped in
every mode (`IrDaikin.cpp:520`).

`SettingsAgree` says nothing of Daikin216: its lowest speed is quiet (`IrDaikin.cpp:1714`) and `setFan` does not take
Powerful back, so the two settings the comments at 1749 and 1762 call mutually exclusive can be on together. No message reaches
`setPowerful`. Casper numbers its modes
differently and Hitachi424 is never handed the values; both are in the other
properties only. The values of checksums are left out; the bytes they cover and
where they stand are in `FramesWhole`. A Fujitsu's sixteen-byte frame has none to look at: `buildState` leaves its switch
before it sums (`IrFujitsu.cpp:549`) and sends 0, which `validChecksum` (line 323) would refuse; nothing calls that.

### MqttClient

`client` is the part of `esp_mqtt_client` that decides anything: state, `run`
and the pending message (`mqtt_state.pending_msg_*`); `outbox` its items;
`inBuffer` the message at the start of `in_buffer`. `conn` is the transport's
connection with what is under way in each direction, `sockets` how many
the transport has opened and not closed (reconnecting opens another one over
the old; a name that does not resolve leaves the old one, `TaskResolveFails`, a connection refused does not,
`TaskConnectFails`), `broker` the session on that connection.

What the broker sends is a stream of units: an answer is one, a publication `PubLen` of them, the first with its header.
A read returns any number of units that have arrived and fit in `in_buffer` (`BufLen`): several messages, of which the code
handles the first, or a piece of a publication. `deliver_publish` then goes on reading
until it has counted the length of the publication or a read brings nothing, one event for each read
(`TaskDeliver`; `left` is what it still waits for). What follows the publication in a read is counted as part of it, and the
later events come without data, because `mqtt_get_publish_data` looks for a header at the start of the buffer and finds text. A
rest that comes after the loop gave up is handled as a message of its own, whatever its bytes say: nothing, an answer, a
publication of any length (`HandleRest`). That what is published is text, so that no data is found in it, is an assumption on the content. A read that
times out leaves
`inBuffer` as it was, so that the CONNACK of an earlier connection, or what
`malloc` left there, can pass for an answer. The driver subscribes with QoS 0,
so publications need no acknowledgement. `reported` is the last event of the session given to
the driver, `data` which units of publications each `MQTT_EVENT_DATA` held.

`esp_mqtt_client_destroy` frees the transport's data and its close then reads the socket in what was freed (`transport_tcp.c:131-137`):
`UserDestroy` closes no socket or any one of this client's, and that the sockets of other tasks may be hit is not in the model.
A stop that comes before the task's first line clears `run`, the task sets it (`mqtt_client.c:592`), and the stop never
returns: the model has that behaviour, and `StopReturns` speaks of the stops whose `run = false` the task finds.

`Mqtt_SendData` and `vMQTTClient_Stop` have no caller in the repository;
the stop is modelled (constant `Stops`) because the library promises it to
return, publishing is not.

## The runs

| run | configuration | checks | result |
|---|---|---|---|
| `ir_learn` | 5 messages of a learning session, 2 frames, sent at any moment | AcceptConsumed, LearnModeListens | hold |
| `ir_mixed` | 3 messages of nearly every kind, complete or not (air conditioners and raw codes are in `ir_spaced`), and a Bluetooth one, 1 frame, at any moment | TypeOK, CaptureKept, AtMostOnce, RunningOnlyIfEnabled | hold |
| `ir_spaced` | 4 messages of any kind, 2 frames, a user who waits | SentIsAsked, LearnedIsStored, ControlConsumed | hold |
| `ir_save_race` | learning and one `save_file` | SaveUsesOwnFile | violated |
| `ir_listen` | learning and one `control` | LearnModeListens | violated |
| `provision` | 3 starts, 2 accounts, 1 lost connection, power failures, writes a full flash refuses | TypeOK, NeverMixed, AckedIsStored, SetUpOnce, SetUpCompletes, LedTellsLink | hold |
| `tcp_reply` | 3 clients, 3 sockets, 3 units each, 2 to a message, sent ahead, cut and joined; resets, 1 push | TypeOK, RepliesInOrder, ServedUnlessStuck | hold |
| `tcp_short` | a short send | RepliesInOrder | violated |
| `gatt` | 2 connections, 4 requests, long writes of up to 3 chunks into a buffer of 2, 1 failing call | TypeOK, PreparedIsOneWrite, ImplementsChannel, RequestsEnd, FoundAgain | hold |
| `mqtt` | 1 break, 1 failure, 2 publications of 2 units, cut and joined; a stop; enough sockets | TypeOK, SubscribedIsTrue, DeliveredOnceInOrder, SubscribesAgain, StopReturns | hold |
| `pulses` | 24 protocols, codes of 1 to 16 digits, 7 lists of durations | TypeOK, SentAsStored, OnCarrier, GapsKept | hold |
| `ac` | 34 classes, every mode, fans and temperatures around the limits, up to 3 options | TypeOK, SentAsAsked, SettingsAgree, FramesWhole | hold |

### What they show

**Learning and sending.** From the moment the user is asked until the line is
written, no interleaving of messages, frames and tasks empties or replaces the
capture (`CaptureKept`): the receive task tests `new_ctrl_cmd` twice, and the
inductive form `CaptureInv` (proved) says why that is enough. A command is taken up at
most once (`AtMostOnce`). For a user who waits, a `control` sends the newest line of its name or the code of
its protocol (`SentIsAsked`), and a `new_cmd` ends with exactly one more line in the file of its remote, with the pulses the user was asked
about, or, if the name is there, with nothing written; no other file changes (`LearnedIsStored`). Two
things do not hold. `ir_save_race`: `save_file` during the save of a learned
command takes the shared `f` away. `ir_listen`: every transmission ends in
`ir_driver_uninstall`, which stops the receiver behind `ir_driver_rx_enable`'s
back, so a `control` in a learning session ends it silently.

**Settings and set-up.** A power failure at any step leaves a prefix of one
account, never lines of two (`NeverMixed`): a file torn early yields blank
settings, not a wrong combination. What the phone was told is saved survives, unless the flash did not take it whole: then the answer is success too
(`AckedIsStored`). The set-up runs once per start although events and the button overwrite
`eStateDevice` between the plant task's accesses (`SetUpOnce`), and it completes when the right account is loaded
for good (`SetUpCompletes`; a restart that is due is excused because the bound
`MaxBoots` may hold it back).

**Control channels.** Over TCP a client gets whole replies, each to a later part of what it sent than the one before, and a
message that `recv` returned whole gets no second one, however the stream is cut and joined
(`RepliesInOrder`, with `send` delivering what it is given). That a message gets one reply is not so: one in two pieces gets two refusals. A
waiting client is accepted unless the socket table is full or a reply cannot
be delivered (`ServedUnlessStuck`). `tcp_short` shows the corrupt reply of a short
send: `do_retransmit` repeats the start of the buffer. Over Bluetooth every request is
answered once, in order, or ends with the connection or a restart
(`RequestsEnd`), although a phone may leave with requests queued and another connect before they
are handled; and the device advertises again after every connection unless a
call into the stack failed (`FoundAgain`). Prepared writes belong to one long
write (`PreparedIsOneWrite`) unless a phone left in the middle of one: the
disconnect handler does not free the buffer, and the next long write goes on
behind what is in it. The handlers implement `ControlChannel` (`ImplementsChannel`).

**MQTT.** SUBSCRIBED is true until DISCONNECTED although ids repeat, messages
are lost in joint reads, rests of publications pass for answers, and stale CONNACKs are accepted; no part of a publication reaches the driver
twice or after a later one; a stop returns if the task sees it. After finitely many failures the
client is subscribed for good, if a socket is left: every reconnection opens a
socket over the old one (`mqtt_client.c:248`), so the run has enough of them.

**Encoders.** `pulses`: a receiver that knows the protocol reads the stored code
from every copy of the message (`SentAsStored`), for codes of up to 8 digits that fit the
protocol and, where the protocol is wider than 32 bits, whose bit 31 is clear;
the model has the others too, and they go out with other bits. Every pulse is on the protocol's carrier although nested objects uninstall the
channel under one another (`OnCarrier`). Gaps are what the protocol asks for or,
beyond 32767 ticks, cut to that (Denon, Inax, Panasonic, Lasertag), never wrapped (`GapsKept`), except with the five protocols of `Gapless`, which
send none. RC5, RC6 and MWM
do not tell a one from a zero (their bodies are commented out or send the same
pulse), so no receiver is asked about them. `ac`: the frame asks for the message's
values (`SentAsAsked`, for the messages outside the table above), exclusive settings are
never on together after any order of setters (`SettingsAgree`), no
field is given more than it holds (`TypeOK`), and sections and sums fit the frame (`FramesWhole`).

### Bounds

The bounds are constants of the modules and named in them (`MaxMsgs`,
`MaxFrames`, `MaxBle`, `MaxBoots`, `MaxDrops`, `MaxPushes`, `MaxBreaks`,
`MaxFails`, `MaxPubs`, `MaxUnits`, `MaxWrites`, `MaxConns`, `MaxOptions`, `QueueCap`, `RingCap`); everything else is finite by
itself. They let the interesting cases happen: a learning session needs
`learn_cmd`, a frame and `new_cmd`, and the fourth and fifth messages end and
restart it; the race for the slot needs two messages and for the file two writers; two starts suffice
for a torn file to be read, the third reads what the second made of it; with
three clients and three sockets (one of which listens) the table overflows
once; messages of two units in a buffer of three come whole, in pieces, and joined with the next one's start; two
publications of two units in a buffer of two are cut in every way, joined with each other and with answers; one
break and one failure give two more connections, so that what the first left in the buffer meets both. `MaxOpen` is 5 in the code; the
runs use 2, so that no stream is left while both tasks write, except
`ir_save_race`, which shows its case with all 5. In `gatt` a long write has up to three
chunks and the buffer room for two (the code's 1024 bytes are more than a value of 512 takes, and
less than what an abandoned write and the next one may bring), so that chunks are refused too; four
requests over two connections let an abandoned long write meet the next one. In `pulses`
a line holds 50 characters instead of 1024, 16 of them before the durations, so
that a list of 7 overruns it; the codes have the sign bit of an `int`, the widths of 32 and
more bits, and single bits at both ends. In `ac` temperatures lie on either
side of every class's limits, and three options suffice to switch on a
setting, one that excludes it, and a mode. The
IR control runs with many kinds of message (`ir_mixed`) have smaller
counts, the runs with longer histories (`ir_learn`, `ir_spaced`) fewer kinds or
fewer interleavings.

`CHECK_DEADLOCK FALSE` is set where the system may really stop: the messages and
frames of `IrControl` are bounded and a panic ends everything; the TCP server's
task may delete itself; an MQTT client that was stopped is done; a device that restarts
for its new configuration ends `GattServer`. `provision` checks deadlock (the tasks poll
for ever), and so do `pulses` and `ac`: another command can always be sent.

## Fairness

Liveness is checked under weak fairness of the steps of tasks only.

* `IrControl`: FreeRTOS runs every ready task, and the four tasks only poll
  and delay. What users, remotes and the Bluetooth client do is not fair.
* `Provisioning`: the tasks, the event loop, the handling of a message once it
  has been received, and that the Wi-Fi driver ends every attempt, with
  success if the account is the access point's. Chance failures are bounded by
  `MaxDrops`. No phone, button or power failure is ever due.
* `TcpServer`: the server task and the push, and that an accepted client leaves
  in the end: the one task serves clients one after the other, so without it
  the second one has no claim. That a client sends anything is not assumed.
* `GattServer`: `ble_task`, the handlers, and that the stack completes a call it has
  accepted. No phone ever has to do anything.
* `MqttClient`: the client task, the start and destroy once begun, and a
  broker that answers, and finishes what it publishes, on connections that stand. Breaks and failures are
  bounded, a stop is never due.

## The proofs

TLAPS proves the following for all values of the constants that satisfy the
modules' assumptions (named `...Assumption`: types of the bounds, that messages
are messages, that ids are positive). Nothing else is assumed, except where the
table says so: `ShortSends` is a constant of `TcpServer` and `Spaced` one of
`IrControl`, and the code does not have those properties for their other values (the runs `tcp_short`,
`ir_save_race` and `ir_listen`).

| module | theorem | says |
|---|---|---|
| `IrControlProofs` | `TypeCorrect` | TypeOK |
| | `CaptureIsKept` | CaptureKept |
| | `ExecutedAtMostOnce` | AtMostOnce |
| | `NeverRunsUnmanaged` | RunningOnlyIfEnabled |
| | `WhatIsAskedIsSent` | SentIsAsked, if the users wait (`Spaced`) and no function's name is a keyword |
| | `WhatIsLearnedIsStored` | LearnedIsStored, if the users wait |
| | `WaitingUserOwnFile` | SaveUsesOwnFile, if the users wait |
| | `OwnFileUnlessBothSave` | SaveUsesOwnFile in every behaviour in which the two tasks never save together (`Exclusive`) |
| `ProvisioningProofs` | `TypeCorrect` | TypeOK |
| | `AccountsNeverMix` | NeverMixed |
| | `AckedStaysStored` | AckedIsStored |
| | `SetUpAtMostOnce` | SetUpOnce |
| `TcpProofs` | `TypeCorrect` | TypeOK |
| | `RepliesAreWhole` | RepliesInOrder, if `ShortSends` is FALSE |
| `GattProofs` | `TypeCorrect` | TypeOK |
| | `PreparedBelongsToOneWrite` | PreparedIsOneWrite |
| | `ImplementsControlChannel` | ImplementsChannel |
| `MqttProofs` | `TypeCorrect` | TypeOK |
| | `SubscribedTellsTruth` | SubscribedIsTrue |
| | `DeliveredInOrder` | DeliveredOnceInOrder |
| `IrTransmitProofs` | `Typed` | TypeOK |
| | `CarrierKept` | OnCarrier |
| | `StoredSent` | SentAsStored |
| | `RestsKept` | GapsKept |
| `AcProofs` | `RemoteSettingsAgree` | SettingsAgree |
| | `FramesGoOutWhole` | FramesWhole |
| | `FieldsHold` | TypeOK |
| `AcAskedProofs` | `FramesSayWhatWasAsked` | SentAsAsked |

**IrControl.** `TypeOK` needs one more fact to be inductive: what the parser
stores as a function's name is a keyword (`NamesAreKeywords`). `CaptureKept` is not
inductive: nothing in it says that the receive task is not about to clear the
buffer when the question is asked. `CaptureInv` adds where the receive task can be
while the question stands (polling, or before the switch), that the parser's
second access of `new_cmd` follows a first one that saw `E_CMD_LEARN_WATTING`,
and that the flag `new_cmd` goes with a capture. `AtMostOnce` is strengthened to
`OnceInv`: a command that an idle transmit task can still take up has not been
counted. `RunningOnlyIfEnabled` is proved by the same argument as it is checked:
only `ir_driver_start` starts the channel and only after setting the flag. The proofs go task by task: a lemma per task says
what it leaves alone.

**A user who waits** (the second part of `IrControlProofs`). `TurnInv` says whose turn it is: while the parser is
at work both driver tasks rest, while a command runs the parser and the receive task do, and
while a capture is saved the parser and the transmit task do; the value of `new_ctrl_cmd` tells the
three apart. `ParserAt` ties the parser's step to the kind of its message. From the turns follows
`Exclusive` (one task saves at a time), and from that alone `FilesInv`: the
stream that is open is `f`, and it is the file of the task that opened it. The theorem
`OwnFileUnlessBothSave` states that without assuming anything of the users, so the race of
`ir_save_race` is the only way to lose a line. `LearnInv` follows the accepted name from the message
through the mailbox, the receive task's line and the stream's buffer, where the line stands alone, into the file, which is
what `WhatIsLearnedIsStored` says of the step that ends the save; `SlotInv` and `SentInv` follow a
command from the message through the mailbox and the transmit task's `strcmp` chain to what is sent.
`WhatIsAskedIsSent` assumes that no function is called like a keyword of the protocol
(`Names \cap Keywords = {}`): a refused `new_cmd` leaves its name in `function_name`, which a later
`control` message without a transmission type does not overwrite, so a function called "RAW" would be executed as one.

**Provisioning.** `IInv` adds to the properties which activities can be under
way together (`Order`: nothing runs before the boot has ended, Bluetooth only
after the button, the button only after the set-up's start), who has the file
open and what is in it (`Store`, which also says that a save not cut by the flash leaves all its lines), and that the start state
`E_DEVICE_WIFI_AP_DISCONNECT` is left for good, or its flag is clear (`SetUp`);
that is why the set-up cannot be entered twice whatever the events overwrite.

**TcpServer.** `Types` adds to `TypeOK` which client the task has in hand in each
of its steps (`InHand`) and that a connection has received no more pushes than
were made (`Counted`). `Order` relates, for every connection, three ages: what was
answered ends before the part in hand begins, that ends before what is under way, whose units
ascend (`Ordered`, `Due`); and the replies received are whole (`WholeReplies`). A part that held a whole message counts
with all its units (`Covered`), so nothing else of that message can be in hand later; `RepliesAreWhole` takes it through the
server's steps, for any lengths of messages, buffers and reads.

**GattServer.** `IInv` has a part per question. `InOrder`: the ids of what is queued
ascend and come after all that was answered, which is what the refinement
needs. `Halves` and `Configuring`: which half of the stack completes which
call, and that registration and configuration happen once. `Turns`: advertising is
on, or asked for, only when every request of the last phone and its leaving have been
handled, so that the next phone finds a queue without the last one's requests;
this is what makes the buffer's story per connection. `OneRequest`: at most one
request that asks for an answer is queued, and before the disconnect. `LongWrite`:
the buffer holds the parts of the long write before the one that is queued, or all of
them, unless an earlier one was abandoned.

**MqttClient.** `IInv` adds what may be under way to the client (`Underway`: a
SUBACK only for a subscription the broker has, units of publications in order and after
those delivered), that the driver's "subscribed" goes with the CONNECTED state
(`Session`: every way out of it reports the disconnection), and that `STOPPED_BIT` is only set by a
task past its last access (`Stopping`). Lemmas about prefixes and suffixes of a
sequence carry the order
through reads, deliveries and sends of any size; what is taken for another message changes nothing of what was given before.

**IrTransmit.** The theorems hold for every set of codes of 1 to 16 digits, every set of captures of
16-bit durations and every `LineSize`, and for every value the model lets an undefined shift or a read behind an array
leave. `Track`, the inductive invariant, says for each job that there is a list `ops` of writes, the ones the protocol's
object makes of the data, such that what is left to do is a rest of `ops` between the right installs and
uninstalls, and the air holds what the calls made so far write (`Opening`, `Sending`, `Closing`): the three phases are what a destructor
that takes the channel away too early would break. From `Track` and the shape of what each send function returns (`Writes_...`, one lemma per protocol) follow
`Typed` and `CarrierKept`. For the other two, `Sent` is computed call by call: a mark and a space
are one item, rounded down to 10 us and the space cut (`SentMarkSpace`), a message of n bits is its header, its
bits and its footer (`MessagePulses`), copies follow each other (`CopiesAt`). `Hears_...`, one lemma per
receiver, then says that the bits read are those of the data and that the message ends with the protocol's rest; `DataWord` that the data of a
code that `Fits` is the code. `CaptureSent` follows a capture through its line: the starts of the durations increase (`StartsIncrease`), so one that
ends before the last character of `buffer_read` is read whole, with all before it.
Two things had to be shown first by induction over the natural numbers: that
`FlattenSeq` and `Starts`, which are recursive functions, have the solution their definitions describe (`FlatExists`,
`StartExists`), and what they return. `Stored` was rewritten for that, from a fold to the recursive function and `Room`.

**AirConditioner.** `Kept` says for each class what all its setters, its reset and `setparam` keep: the settings
agree, and the fields the next setter will compare or add to are the numbers it takes them for (the saved
temperatures, the timers, the speed that goes with a mode). It is more than agreeing, because a class agrees
after `setFan`, say, only if `setMode` left a mode `setFan` knows. There is a lemma for each class's setters, one for its
reset and one for its options; `KeptInv` carries them from the constructor to the destructor for any
number of options in any order. `FrameInv` adds that an object exists while it is used, and computes the sections and
sums of each class from its state, which matters where the length depends on it (Fujitsu, Toshiba, Samsung). `TypedInv`, for `TypeOK`, says that a remote is in the set of its
class (`..._remotes`: the record of its fields, each within its width). Every setter keeps that set for any argument, or for the
range its callers' conversion returns (`...ConvertFanTyped`), so one lemma a setter serves `setparam`, the options and the setters
that call it; `U(n)` and the ranges of `Widths` keep the powers of two out of the steps. It holds for all four bytes of a message; the
setters no message reaches are called with the arguments `..._options` lists, beyond their limits where the setter checks them, and within
the width where it assigns what it is given. `AskedInv` says what an object that had no options went through: one of the
constructor's states (`Fresh`), then `setparam` with the message. For each class the lemmas `...Modes` (what the two
conversions make of a mode), `...Asked` (what the four setters leave in the fields) and `...Answers` (what the unit reads
out of them) give `EveryClassAnswers`, for every byte the message can hold and every message `Altered` does not name. What
Daikin152 makes of the temperature 96 and Daikin216 of Powerful and Quiet came to light as steps that could not be proved.

**Only model-checked**: liveness under fairness and everything with ENABLED, which the
provers do not handle (`SetUpCompletes`, `LedTellsLink`, `ServedUnlessStuck`, `RequestsEnd`,
`FoundAgain`, `SubscribesAgain`, `StopReturns`, `AcceptConsumed`, `ControlConsumed`,
`LearnModeListens`). The library's induction theorems have an operator for a parameter, so they cannot be
cited; what is proved by induction here takes the least natural number that lacks the property, as a set
(`Least`, `FromFirst`, from `WFMin` and `NatLessThanWellFounded`).

## What is left out

| part | why |
|---|---|
| second profile of the GATT server, `bluetooth_paser_mess`, `tcp_server_paser_mess` | no event or caller reaches them |
| the UART channel's bytes (`uart_task.c`, `UserUart.c`) | `main.c` does not start the task; a message that arrives is one of `IrControl`'s |
| shell, FIFO, retargeted output (`Interface/shell/`) | their calls are commented out in `main.c` |
| ticks of the LED patterns (`LedStatus.c`) | the pattern chosen is in `Provisioning` |
| encoders `SendCommand` and `SendHAVC` never reach (MWM, Whynter, Dish, the `encode...` functions), the decoders | no caller, or commented out |
| values of the air conditioners' checksums | sums of bytes; which bytes, and where, is in `FramesWhole` |
| bodies of JSON replies, cJSON, the TLS transport, the transport layer's forwarding (`transport.c`) | formatting and third-party code |
| publishing, unsubscribing, QoS above 0, what a publication that is not text could be taken for (`MqttLib`) | no caller, or not reachable from a subscription with QoS 0; `MqttClient` takes the content for text |
| sockets of other tasks that `destroy` may close (`transport_tcp.c:134`) | the table of `MqttClient` holds this client's only |
| gaps of SONY, SONY38, MAGIQUEST, LUTRON and RCMM, the messages of `Altered`, Daikin216's Powerful and Quiet | the code leaves them out, or does something else; the tables above give the lines |
| names and remotes longer than their buffers, JSON fields of another type | the parser's messages are well formed but for what `complete` and `encoded` say |
| `logger_file_list_file`, `logger_file_delete_file` | no caller among the tasks |
| the older settings interface (`UserFile.c`, `FileAccess.c`), timers, `app_test` | no caller; manual tests |
| tokens of a raw message beyond 256 (`ir_driver_parser_message` counts them in a `uint8_t`) | the length of a message belongs to the channel's buffers |
| heap, stack and priorities | the size of the heap and the scheduler are outside of the repository; tasks are scheduled fairly |

## The plan

Done, in this order: the learn/control pipeline with its files, because the
other components exist to feed it; the settings and the set-up; the TCP
channel; the MQTT channel; the GATT server; the abstract control channel and
its refinement; the pulses of a command; the air conditioners; the proofs of all of these.

Next, with the reason for the order:

1. `UartChannel` with the byte buffer, the third control channel: `Rx_len` is an
   `unsigned char`, so a length is taken modulo 256; a message in one or several
   reads. What of `ControlChannel` is left over a stream of bytes is the question.
2. An abstract settings store ("an account is there whole, or not") that
   `Provisioning` implements.
3. `LedPattern`: the tick arithmetic of `LedStatus.c`; `VsmFifo`, the ring
   arithmetic of the FIFO as a refinement of a bounded queue, with the proof.

Every safety invariant and every refinement that a passing run checks has its theorem.
