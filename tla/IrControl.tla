----------------------------- MODULE IrControl -----------------------------
(***************************************************************************)
(* The learn/control pipeline.  Four tasks share, without a lock, the one  *)
(* message slot DeviceData.IrMessageCtr_Info and the flags around it:      *)
(*   chan   the control channel's task (TCP or UART), in the JSON parser   *)
(*   tx     ir_driver_tx_task, which executes the command in the slot      *)
(*   rx     ir_driver_rx_task, which captures and saves learned commands   *)
(*   plant  PlantControl_Task, which starts and stops the RMT receiver     *)
(* One action is one access to what another task may change meanwhile.     *)
(* plantTaskCtrl.c starts one control channel only, so there is one chan;  *)
(* a Bluetooth client may be connected beside it.                          *)
(* The JSON fields of a message are strings where the parser wants strings *)
(* and fit their buffers (names of 9 characters, remotes of 19); what may  *)
(* be missing is `complete' (remote and trans_code) and `encoded' (encode  *)
(* with its members).  The four numbers of an air conditioner are stored   *)
(* as one value.                                                           *)
(***************************************************************************)
EXTENDS CommandFile

CONSTANTS
  Files,            \* names of remotes
  Names,            \* names of learned commands
  ShortWaves,       \* captures with fewer than 4 durations
  AcSettings,       \* Power, Mode, FanSpeed and Temp of an air conditioner
  CommandProtocols, \* remotes IrBlasterBase::SendCommand has a case for
  HavcProtocols,    \* remotes IrBlasterBase::SendHAVC has a case for
  Messages,         \* the messages the client may send
  RingCap,          \* captures the RMT ring buffer can hold
  MaxMsgs,          \* bound: messages of the client
  MaxFrames,        \* bound: pulse trains arriving at the receiver
  MaxBle,           \* bound: messages of the Bluetooth client
  Spaced            \* the user acts only when the device has settled

Keywords == {"HAVC", "NORMAL", "RAW", "LEARN"}
Kinds == {"control", "save_file", "new_cmd", "learn_cmd", "end_learn", "check_device"}

Message ==
  [kind : Kinds, mine : BOOLEAN, complete : BOOLEAN, encoded : BOOLEAN,
   trans : Keywords \union {"OTHER"}, file : Files, name : Names, line : Line, ac : AcSettings]

ASSUME IrAssumption ==
  /\ FileNames = Files \union {""}
  /\ LineNames = Names \union Keywords \union {""}
  /\ NoWave \notin Waves
  /\ ShortWaves \subseteq Waves
  /\ Messages \subseteq Message
  /\ AcSettings # {}
  /\ RingCap \in Nat /\ MaxMsgs \in Nat /\ MaxFrames \in Nat /\ MaxBle \in Nat
  /\ Spaced \in BOOLEAN

VARIABLES
  cmd,        \* IrMessageCtr_Info.new_ctrl_cmd
  slot,       \* the text fields of IrMessageCtr_Info
  raw,        \* ir_raw_data[0 .. ir_raw_length): a capture, or nothing
  newCmd,     \* the flag new_cmd of ir_driver.c
  irState,    \* DeviceData.eIrState
  rxEnable,   \* ir_driver_rx_enable
  rxRunning,  \* the RMT receive channel is running
  ring,       \* the RMT ring buffer
  chan, tx, rx, plant,
  sent,       \* what the transmitter emitted for the current command
  env,        \* messages and frames so far: bounds of the model
  asked,      \* history: the last message of the client
  stores,     \* history: how often the parser stored a control command
  runs        \* history: how often the transmit task took one up

slotVars  == <<cmd, slot, irState>>
rxVars    == <<raw, newCmd, ring, rx>>
recvVars  == <<rxEnable, rxRunning, plant>>
txVars    == <<tx, sent, runs>>
chanVars  == <<chan, env, asked, stores>>
vars == <<fileVars, slotVars, rxVars, recvVars, txVars, chanVars>>

NothingSent == [how |-> "none", file |-> "", data |-> NoWave]

CmdStates == {"NONE", "CTRL", "LEARN", "WATTING", "ACCEPT"}
ChanPcs == {"idle", "type", "names", "second", "payload", "irState", "cmd", "look", "accept"}
TxPcs == {"idle", "dispatch", "havc", "lookup", "match", "emit", "raw",
          "open", "write", "close", "wipeAll", "wipeFile", "wipeValue", "wipeType",
          "wipe", "wipeName", "done"}
RxPcs == {"poll", "switch", "setwait", "check", "open", "write", "close", "finish"}
PlantPcs == {"loop", "start", "stop"}

SlotTypeOK ==
  /\ cmd \in CmdStates
  /\ slot \in [file_name : FileNames, function_name : LineNames,
               type_cmd : Kinds \union Names \union {""}, value_cmd : Line, ac : AcSettings]
  /\ irState \in {"NORMAL", "LEARN", "END"}

RxTypeOK ==
  /\ raw \in Waves \union {NoWave}
  /\ newCmd \in BOOLEAN
  /\ ring \in Seq(Waves)
  /\ rx \in [pc : RxPcs, file : FileNames]

RecvTypeOK ==
  /\ rxEnable \in BOOLEAN /\ rxRunning \in BOOLEAN
  /\ plant \in PlantPcs

TxTypeOK ==
  /\ tx \in [pc : TxPcs, file : FileNames, line : Line]
  /\ sent \in [how : {"none", "HAVC", "CODE", "RAW"}, file : FileNames,
               data : Waves \union AcSettings \union {NoWave}]
  /\ runs \in Nat

ChanTypeOK ==
  /\ chan \in [pc : ChanPcs, msg : Messages]
  /\ env \in [msgs : 0 .. MaxMsgs, frames : 0 .. MaxFrames, ble : 0 .. MaxBle]
  /\ asked \in Messages
  /\ stores \in Nat

TypeOK ==
  /\ FileTypeOK /\ SlotTypeOK /\ RxTypeOK /\ RecvTypeOK /\ TxTypeOK /\ ChanTypeOK

\* app_main: nothing learned, the tasks created, the receiver off.
Init ==
  /\ FileInit
  /\ cmd = "NONE"
  /\ \E ac \in AcSettings :
       slot = [file_name |-> "", function_name |-> "", type_cmd |-> "",
               value_cmd |-> NoLine, ac |-> ac]
  /\ raw = NoWave /\ newCmd = FALSE
  /\ irState = "NORMAL"
  /\ rxEnable = FALSE /\ rxRunning = FALSE
  /\ ring = << >>
  /\ \E m \in Messages : chan = [pc |-> "idle", msg |-> m] /\ asked = m
  /\ tx = [pc |-> "idle", file |-> "", line |-> NoLine]
  /\ rx = [pc |-> "poll", file |-> ""]
  /\ plant = "loop"
  /\ sent = NothingSent
  /\ env = [msgs |-> 0, frames |-> 0, ble |-> 0]
  /\ stores = 0 /\ runs = 0

\* Nothing is under way: what a user sees who waits before the next action.
Settled ==
  /\ chan.pc = "idle" /\ tx.pc = "idle" /\ rx.pc = "poll" /\ plant = "loop"
  /\ cmd \notin {"CTRL", "ACCEPT"} /\ ~newCmd /\ ring = << >>
  /\ irState = "LEARN" => rxEnable
  /\ irState = "END" => ~rxEnable

----------------------------------------------------------------------------
(* The control channel: json_parser_message, one message after the other.  *)

\* Mutant: learn_cmd forgets eIrState, and any transmit keyword is accepted.
AfterTypeLax(m) ==
  CASE m.kind \in {"control", "save_file"} -> IF m.complete THEN "names" ELSE "cmd"
    [] m.kind = "new_cmd"   -> IF m.complete THEN "names" ELSE "idle"
    [] m.kind \in {"learn_cmd", "end_learn"} -> "cmd"
    [] OTHER                -> "idle"

\* The steps a message takes after its type is stored.
AfterType(m) ==
  CASE m.kind \in {"control", "save_file"} ->
         IF m.complete /\ m.trans # "OTHER" /\ (m.kind = "save_file" => m.trans = "LEARN")
                       /\ (m.kind = "control" => m.trans # "LEARN")
         THEN "names" ELSE "cmd"
    [] m.kind = "new_cmd"   -> IF m.complete THEN "names" ELSE "idle"
    [] m.kind = "learn_cmd" -> "irState"
    [] m.kind = "end_learn" -> "cmd"
    [] OTHER                -> "idle"

ChanGoto(pc) == chan' = [chan EXCEPT !.pc = pc]

\* A message arrives; one with another device's thing_token is dropped.
ChanReceive ==
  /\ ~panic /\ chan.pc = "idle"
  /\ env.msgs < MaxMsgs
  /\ Spaced => Settled
  /\ \E m \in Messages :
       /\ chan' = [pc |-> IF m.mine THEN "type" ELSE "idle", msg |-> m]
       /\ asked' = m
  /\ env' = [env EXCEPT !.msgs = @ + 1]
  /\ UNCHANGED <<fileVars, slotVars, rxVars, recvVars, txVars, stores>>

\* type_cmd takes the command of every message, whatever it is; of the 12
\* characters of check_device the last ones run over into value_cmd behind it.
StoreType(kind) ==
  slot' = [slot EXCEPT !.type_cmd = kind,
                       !.value_cmd = IF kind = "check_device" THEN NoLine ELSE @]

ChanType ==
  /\ ~panic /\ chan.pc = "type"
  /\ StoreType(chan.msg.kind)
  /\ ChanGoto(AfterType(chan.msg))
  /\ UNCHANGED <<fileVars, cmd, irState, rxVars, recvVars, txVars, env, asked, stores>>

\* A member of `encode' that is not there is dereferenced: save_file looks at
\* it before it stores the names, control after.
ChanFault ==
  /\ ~panic /\ ~chan.msg.encoded
  /\ \/ chan.pc = "names" /\ chan.msg.kind = "save_file"
     \/ chan.pc = "payload"
  /\ panic' = TRUE
  /\ UNCHANGED <<flash, f, stream, slotVars, rxVars, recvVars, txVars, chanVars>>

\* new_cmd and control RAW store the remote's name first, the others last.
FileFirst(m) == m.kind = "new_cmd" \/ m.trans = "RAW"

StoreFile == slot' = [slot EXCEPT !.file_name = chan.msg.file]
StoreFunction ==
  slot' = [slot EXCEPT !.function_name = IF chan.msg.kind = "new_cmd"
                                         THEN chan.msg.name ELSE chan.msg.trans]

ChanNames ==
  /\ ~panic /\ chan.pc = "names"
  /\ chan.msg.kind = "save_file" => chan.msg.encoded
  /\ IF FileFirst(chan.msg) THEN StoreFile ELSE StoreFunction
  /\ ChanGoto("second")
  /\ UNCHANGED <<fileVars, cmd, irState, rxVars, recvVars, txVars, env, asked, stores>>

ChanSecond ==
  /\ ~panic /\ chan.pc = "second"
  /\ IF FileFirst(chan.msg) THEN StoreFunction ELSE StoreFile
  /\ ChanGoto(IF chan.msg.kind = "new_cmd" THEN "look" ELSE "payload")
  /\ UNCHANGED <<fileVars, cmd, irState, rxVars, recvVars, txVars, env, asked, stores>>

ChanPayload ==
  /\ ~panic /\ chan.pc = "payload" /\ chan.msg.encoded
  /\ \/ /\ chan.msg.trans = "HAVC"
        /\ slot' = [slot EXCEPT !.ac = chan.msg.ac]
     \/ /\ chan.msg.trans = "NORMAL"
        /\ slot' = [slot EXCEPT !.type_cmd = chan.msg.name]
     \/ /\ chan.msg.trans \in {"RAW", "LEARN"}
        /\ slot' = [slot EXCEPT !.value_cmd = chan.msg.line]
  /\ ChanGoto("cmd")
  /\ UNCHANGED <<fileVars, cmd, irState, rxVars, recvVars, txVars, env, asked, stores>>

\* learn_cmd sets eIrState before new_ctrl_cmd, end_learn after it.
ChanIrState ==
  /\ ~panic /\ chan.pc = "irState"
  /\ irState' = IF chan.msg.kind = "learn_cmd" THEN "LEARN" ELSE "END"
  /\ ChanGoto(IF chan.msg.kind = "learn_cmd" THEN "cmd" ELSE "idle")
  /\ UNCHANGED <<fileVars, cmd, slot, rxVars, recvVars, txVars, env, asked, stores>>

ChanControl ==
  /\ ~panic /\ chan.pc = "cmd" /\ chan.msg.kind \in {"control", "save_file"}
  /\ cmd' = "CTRL"
  /\ stores' = stores + 1
  /\ ChanGoto("idle")
  /\ UNCHANGED <<fileVars, slot, irState, rxVars, recvVars, txVars, env, asked>>

ChanLearn ==
  /\ ~panic /\ chan.pc = "cmd" /\ chan.msg.kind = "learn_cmd"
  /\ cmd' = "LEARN"
  /\ ChanGoto("idle")
  /\ UNCHANGED <<fileVars, slot, irState, rxVars, recvVars, txVars, env, asked, stores>>

ChanEndLearn ==
  /\ ~panic /\ chan.pc = "cmd" /\ chan.msg.kind = "end_learn"
  /\ cmd' = "NONE"
  /\ ChanGoto("irState")
  /\ UNCHANGED <<fileVars, slot, irState, rxVars, recvVars, txVars, env, asked, stores>>

\* Mutant: new_cmd is accepted whatever the device is doing.
ChanLookAlways ==
  /\ ~panic /\ chan.pc = "look"
  /\ ChanGoto("accept")
  /\ UNCHANGED <<fileVars, slotVars, rxVars, recvVars, txVars, env, asked, stores>>

\* new_cmd: the test of new_ctrl_cmd and the store are two accesses.
ChanLook ==
  /\ ~panic /\ chan.pc = "look"
  /\ ChanGoto(IF cmd = "WATTING" THEN "accept" ELSE "idle")
  /\ UNCHANGED <<fileVars, slotVars, rxVars, recvVars, txVars, env, asked, stores>>

ChanAccept ==
  /\ ~panic /\ chan.pc = "accept"
  /\ cmd' = "ACCEPT"
  /\ ChanGoto("idle")
  /\ UNCHANGED <<fileVars, slot, irState, rxVars, recvVars, txVars, env, asked, stores>>

\* A message over Bluetooth reaches the parser too; only its type is stored
\* (smart_config, which restarts the device, is not part of this module).
BleMessage ==
  /\ ~panic /\ env.ble < MaxBle
  /\ Spaced => Settled
  /\ \E k \in Kinds : StoreType(k)
  /\ env' = [env EXCEPT !.ble = @ + 1]
  /\ UNCHANGED <<fileVars, cmd, irState, rxVars, recvVars, txVars, chan, asked, stores>>

----------------------------------------------------------------------------
(* ir_driver_tx_task.                                                      *)

TxGoto(pc) == tx' = [tx EXCEPT !.pc = pc]

\* Mutant: no command is taken up during a learning session.
TxStartNotLearning ==
  /\ ~panic /\ tx.pc = "idle"
  /\ cmd = "CTRL" /\ irState # "LEARN"
  /\ TxGoto("dispatch")
  /\ sent' = NothingSent
  /\ runs' = runs + 1
  /\ UNCHANGED <<fileVars, slotVars, rxVars, recvVars, chanVars>>

TxStart ==
  /\ ~panic /\ tx.pc = "idle"
  /\ cmd = "CTRL"
  /\ TxGoto("dispatch")
  /\ sent' = NothingSent
  /\ runs' = runs + 1
  /\ UNCHANGED <<fileVars, slotVars, rxVars, recvVars, chanVars>>

\* The strcmp chain on function_name.
TxDispatch ==
  /\ ~panic /\ tx.pc = "dispatch"
  /\ TxGoto(CASE slot.function_name = "HAVC"   -> "havc"
              [] slot.function_name = "NORMAL" -> "lookup"
              [] slot.function_name = "RAW"    -> "raw"
              [] slot.function_name = "LEARN"  -> "open"
              [] OTHER                         -> "wipe")
  /\ UNCHANGED <<fileVars, slotVars, rxVars, recvVars, sent, runs, chanVars>>

\* Sending installs the transmit channel and, when the Ir_Send object goes
\* out of scope, uninstalls it: ir_driver_uninstall also stops the receiver.
Transmit(how, file, data) ==
  /\ sent' = [how |-> how, file |-> file, data |-> data]
  /\ rxRunning' = FALSE

NoTransmission == UNCHANGED <<sent, rxRunning>>

TxHavc ==
  /\ ~panic /\ tx.pc = "havc"
  /\ IF slot.file_name \in HavcProtocols
     THEN Transmit("HAVC", slot.file_name, slot.ac)
     ELSE NoTransmission
  /\ TxGoto("wipe")
  /\ UNCHANGED <<fileVars, slotVars, rxVars, rxEnable, plant, runs, chanVars>>

\* logger_file_read_cmd is given pointers into the slot: the file is opened
\* first, the lines are compared with type_cmd afterwards.
TxLookup ==
  /\ ~panic /\ tx.pc = "lookup"
  /\ tx' = [tx EXCEPT !.pc = "match", !.file = slot.file_name]
  /\ UNCHANGED <<fileVars, slotVars, rxVars, recvVars, sent, runs, chanVars>>

TxMatch ==
  /\ ~panic /\ tx.pc = "match"
  /\ tx' = [tx EXCEPT !.pc = "emit", !.line = ReadCommand(tx.file, slot.type_cmd)]
  /\ UNCHANGED <<fileVars, slotVars, rxVars, recvVars, sent, runs, chanVars>>

\* A line of length 0 is not sent; a "NORMAL" line takes its protocol from
\* file_name, read once more.
TxEmit ==
  /\ ~panic /\ tx.pc = "emit"
  /\ CASE tx.line.wave = NoWave -> NoTransmission
       [] tx.line.wave # NoWave /\ tx.line.proto = "RAW" ->
            Transmit("RAW", "", tx.line.wave)
       [] tx.line.wave # NoWave /\ tx.line.proto = "NORMAL" ->
            IF slot.file_name \in CommandProtocols
            THEN Transmit("CODE", slot.file_name, tx.line.wave)
            ELSE NoTransmission
  /\ TxGoto("wipe")
  /\ UNCHANGED <<fileVars, slotVars, rxVars, rxEnable, plant, runs, chanVars>>

\* RAW: the durations of value_cmd itself.
TxRaw ==
  /\ ~panic /\ tx.pc = "raw"
  /\ Transmit("RAW", "", slot.value_cmd.wave)
  /\ TxGoto("wipeAll")
  /\ UNCHANGED <<fileVars, slotVars, rxVars, rxEnable, plant, runs, chanVars>>

\* LEARN: logger_file_save_string_cmd appends value_cmd to the remote's file.
TxOpen ==
  /\ ~panic /\ tx.pc = "open"
  /\ OpenAppend(slot.file_name)
  /\ tx' = [tx EXCEPT !.pc = IF FreeHandles = {} THEN "wipeAll" ELSE "write",
                      !.file = slot.file_name]
  /\ UNCHANGED <<slotVars, rxVars, recvVars, sent, runs, chanVars>>

TxWrite ==
  /\ ~panic /\ tx.pc = "write"
  /\ PutLine(slot.value_cmd)
  /\ TxGoto("close")
  /\ UNCHANGED <<slotVars, rxVars, recvVars, sent, runs, chanVars>>

TxClose ==
  /\ ~panic /\ tx.pc = "close"
  /\ CloseFile
  /\ TxGoto("wipeAll")
  /\ UNCHANGED <<slotVars, rxVars, recvVars, sent, runs, chanVars>>

\* RAW and LEARN clear all four text fields, then every command the two names
\* (those two once more), one memset after the other.
TxWipe ==
  /\ ~panic
  /\ \/ /\ tx.pc = "wipeAll" /\ TxGoto("wipeFile")
        /\ slot' = [slot EXCEPT !.function_name = ""]
     \/ /\ tx.pc = "wipeFile" /\ TxGoto("wipeValue")
        /\ slot' = [slot EXCEPT !.file_name = ""]
     \/ /\ tx.pc = "wipeValue" /\ TxGoto("wipeType")
        /\ slot' = [slot EXCEPT !.value_cmd = NoLine]
     \/ /\ tx.pc = "wipeType" /\ TxGoto("wipe")
        /\ slot' = [slot EXCEPT !.type_cmd = ""]
     \/ /\ tx.pc = "wipe" /\ TxGoto("wipeName")
        /\ slot' = [slot EXCEPT !.file_name = ""]
     \/ /\ tx.pc = "wipeName" /\ TxGoto("done")
        /\ slot' = [slot EXCEPT !.function_name = ""]
  /\ UNCHANGED <<fileVars, cmd, irState, rxVars, recvVars, sent, runs, chanVars>>

\* Mutant: new_ctrl_cmd is not reset.
TxDoneNoReset ==
  /\ ~panic /\ tx.pc = "done"
  /\ TxGoto("idle")
  /\ UNCHANGED <<fileVars, slotVars, rxVars, recvVars, sent, runs, chanVars>>

\* new_ctrl_cmd is reset whatever it has become since the command was taken.
TxDone ==
  /\ ~panic /\ tx.pc = "done"
  /\ cmd' = "NONE"
  /\ TxGoto("idle")
  /\ UNCHANGED <<fileVars, slot, irState, rxVars, recvVars, sent, runs, chanVars>>

TxStep ==
  \/ TxStart \/ TxDispatch \/ TxHavc \/ TxLookup \/ TxMatch \/ TxEmit \/ TxRaw
  \/ TxOpen \/ TxWrite \/ TxClose \/ TxWipe \/ TxDone

----------------------------------------------------------------------------
(* ir_driver_rx_task.                                                      *)

RxGoto(pc) == rx' = [rx EXCEPT !.pc = pc]

\* A capture is taken from the ring buffer; it counts in learning mode only,
\* and a short one is thrown away.
RxCapture ==
  /\ ~panic /\ rx.pc = "poll"
  /\ ring # << >>
  /\ ring' = Tail(ring)
  /\ \/ /\ cmd = "LEARN"
        /\ newCmd' = (Head(ring) \notin ShortWaves)
        /\ raw' = IF Head(ring) \in ShortWaves THEN NoWave ELSE Head(ring)
     \/ /\ cmd # "LEARN"
        /\ UNCHANGED <<newCmd, raw>>
  /\ RxGoto("switch")
  /\ UNCHANGED <<fileVars, slotVars, recvVars, txVars, chanVars>>

\* xRingbufferReceive gives up after 1000 ticks.
RxTimeout ==
  /\ ~panic /\ rx.pc = "poll"
  /\ ring = << >>
  /\ RxGoto("switch")
  /\ UNCHANGED <<fileVars, slotVars, raw, newCmd, ring, recvVars, txVars, chanVars>>

\* The switch reads new_ctrl_cmd again, some time after the capture.
RxSwitch ==
  /\ ~panic /\ rx.pc = "switch"
  /\ \/ /\ cmd = "LEARN" /\ newCmd
        /\ newCmd' = FALSE
        /\ RxGoto("setwait")
        /\ UNCHANGED raw
     \/ /\ cmd = "LEARN" /\ ~newCmd
        /\ raw' = NoWave
        /\ RxGoto("poll")
        /\ UNCHANGED newCmd
     \/ /\ cmd = "ACCEPT"
        /\ RxGoto("check")
        /\ UNCHANGED <<raw, newCmd>>
     \/ /\ cmd \notin {"LEARN", "ACCEPT"}
        /\ RxGoto("poll")
        /\ UNCHANGED <<raw, newCmd>>
  /\ UNCHANGED <<fileVars, slotVars, ring, recvVars, txVars, chanVars>>

RxSetWait ==
  /\ ~panic /\ rx.pc = "setwait"
  /\ cmd' = "WATTING"
  /\ RxGoto("poll")
  /\ UNCHANGED <<fileVars, slot, irState, raw, newCmd, ring, recvVars, txVars, chanVars>>

\* logger_file_save_cmd: a name the file has already is refused; the file is
\* then opened, the line written and the stream closed through the shared f.
RxCheck ==
  /\ ~panic /\ rx.pc = "check"
  /\ RxGoto(IF HasCommand(slot.file_name, slot.function_name) THEN "finish" ELSE "open")
  /\ UNCHANGED <<fileVars, slotVars, raw, newCmd, ring, recvVars, txVars, chanVars>>

RxOpen ==
  /\ ~panic /\ rx.pc = "open"
  /\ OpenAppend(slot.file_name)
  /\ rx' = [pc |-> IF FreeHandles = {} THEN "finish" ELSE "write", file |-> slot.file_name]
  /\ UNCHANGED <<slotVars, raw, newCmd, ring, recvVars, txVars, chanVars>>

RxWrite ==
  /\ ~panic /\ rx.pc = "write"
  /\ PutLine([name |-> slot.function_name, proto |-> "RAW", wave |-> raw])
  /\ RxGoto("close")
  /\ UNCHANGED <<slotVars, raw, newCmd, ring, recvVars, txVars, chanVars>>

\* Mutant: the file is not closed.
RxCloseForgotten ==
  /\ ~panic /\ rx.pc = "close"
  /\ RxGoto("finish")
  /\ UNCHANGED <<fileVars, slotVars, raw, newCmd, ring, recvVars, txVars, chanVars>>

RxClose ==
  /\ ~panic /\ rx.pc = "close"
  /\ CloseFile
  /\ RxGoto("finish")
  /\ UNCHANGED <<slotVars, raw, newCmd, ring, recvVars, txVars, chanVars>>

\* Mutant: new_ctrl_cmd stays E_CMD_ACCEPT.
RxFinishNoReset ==
  /\ ~panic /\ rx.pc = "finish"
  /\ raw' = NoWave
  /\ RxGoto("poll")
  /\ UNCHANGED <<fileVars, slotVars, newCmd, ring, recvVars, txVars, chanVars>>

\* The capture is dropped and learning goes on, whatever new_ctrl_cmd is now.
RxFinish ==
  /\ ~panic /\ rx.pc = "finish"
  /\ raw' = NoWave
  /\ cmd' = "LEARN"
  /\ RxGoto("poll")
  /\ UNCHANGED <<fileVars, slot, irState, newCmd, ring, recvVars, txVars, chanVars>>

RxStep ==
  \/ RxCapture \/ RxTimeout \/ RxSwitch \/ RxSetWait
  \/ RxCheck \/ RxOpen \/ RxWrite \/ RxClose \/ RxFinish

----------------------------------------------------------------------------
(* plant_check_irState, with ir_driver_start and ir_driver_stop.           *)

\* Mutant: the flag is set but the RMT channel is not started.
PlantEnableOnly ==
  /\ ~panic /\ plant = "loop" /\ irState = "LEARN" /\ ~rxEnable
  /\ rxEnable' = TRUE
  /\ UNCHANGED <<fileVars, slotVars, rxVars, rxRunning, plant, txVars, chanVars>>

PlantEnable ==
  /\ ~panic /\ plant = "loop" /\ irState = "LEARN" /\ ~rxEnable
  /\ rxEnable' = TRUE
  /\ plant' = "start"
  /\ UNCHANGED <<fileVars, slotVars, rxVars, rxRunning, txVars, chanVars>>

PlantStart ==
  /\ ~panic /\ plant = "start"
  /\ rxRunning' = TRUE
  /\ plant' = "loop"
  /\ UNCHANGED <<fileVars, slotVars, rxVars, rxEnable, txVars, chanVars>>

\* Mutant: the flag is cleared but the RMT channel is not stopped.
PlantDisableOnly ==
  /\ ~panic /\ plant = "loop" /\ irState = "END" /\ rxEnable
  /\ rxEnable' = FALSE
  /\ UNCHANGED <<fileVars, slotVars, rxVars, rxRunning, plant, txVars, chanVars>>

PlantDisable ==
  /\ ~panic /\ plant = "loop" /\ irState = "END" /\ rxEnable
  /\ rxEnable' = FALSE
  /\ plant' = "stop"
  /\ UNCHANGED <<fileVars, slotVars, rxVars, rxRunning, txVars, chanVars>>

PlantStop ==
  /\ ~panic /\ plant = "stop"
  /\ rxRunning' = FALSE
  /\ plant' = "loop"
  /\ UNCHANGED <<fileVars, slotVars, rxVars, rxEnable, txVars, chanVars>>

PlantStep == PlantEnable \/ PlantStart \/ PlantDisable \/ PlantStop

----------------------------------------------------------------------------
\* A remote is pointed at the receiver: the RMT interrupt queues the frame.
FrameArrives ==
  /\ ~panic /\ rxRunning
  /\ env.frames < MaxFrames
  /\ Len(ring) < RingCap
  /\ Spaced => Settled
  /\ \E w \in Waves : ring' = Append(ring, w)
  /\ env' = [env EXCEPT !.frames = @ + 1]
  /\ UNCHANGED <<fileVars, slotVars, raw, newCmd, rx, recvVars, txVars, chan, asked, stores>>

ChanStep ==
  \/ ChanType \/ ChanFault \/ ChanNames \/ ChanSecond \/ ChanPayload
  \/ ChanIrState \/ ChanControl \/ ChanLearn \/ ChanEndLearn \/ ChanLook \/ ChanAccept

Next ==
  \/ ChanReceive \/ ChanStep \/ BleMessage
  \/ TxStep \/ RxStep \/ PlantStep \/ FrameArrives

Spec == Init /\ [][Next]_vars

\* FreeRTOS runs every ready task: the tasks that loop for ever are fair.
\* What the user, the network and the remotes do is not.
Fairness ==
  /\ WF_vars(ChanStep)
  /\ WF_vars(TxStep)
  /\ WF_vars(RxStep)
  /\ WF_vars(PlantStep)

FairSpec == Spec /\ Fairness

----------------------------------------------------------------------------
LongWaves == Waves \ ShortWaves

\* While the user is asked whether to keep a capture, has accepted it, or it
\* is on its way to the file, a complete capture is in ir_raw_data: no
\* learn_cmd, end_learn, control or further frame, at whatever moment it
\* comes, makes the receive task save an empty or cleared buffer.
CaptureKept ==
  (cmd \in {"WATTING", "ACCEPT"} \/ rx.pc \in {"check", "open", "write"})
     => raw \in LongWaves

\* The inductive form of CaptureKept.  From the moment the user is asked until
\* the capture is dropped the receive task neither captures nor clears: it
\* polls while the question stands, and acts on an answer only afterwards.
CaptureInv ==
  /\ cmd = "WATTING" \/ chan.pc = "accept" =>
       rx.pc \in {"poll", "switch"} /\ raw \in LongWaves /\ ~newCmd
  /\ chan.pc = "accept" => cmd \in {"WATTING", "NONE"}
  /\ cmd = "ACCEPT" => rx.pc # "setwait" /\ raw \in LongWaves /\ ~newCmd
  /\ rx.pc \notin {"poll", "switch"} => raw \in LongWaves /\ ~newCmd
  /\ newCmd => raw \in LongWaves

\* The transmit task never executes a command twice: it has taken up no more
\* commands than control and save_file messages were stored, although three
\* tasks write new_ctrl_cmd.
AtMostOnce == runs <= stores

\* Its inductive form: what an idle transmit task finds has not been counted.
OnceInv == AtMostOnce /\ (cmd = "CTRL" /\ tx.pc = "idle" => runs < stores)

\* The receiver never runs with ir_driver_rx_enable false, the state in which
\* ir_driver_stop would refuse to stop it: the transmit task only ever stops it.
RunningOnlyIfEnabled == rxRunning => rxEnable \/ plant = "stop"

\* logger_file_save_cmd writes the learned line to the file it opened: the
\* shared handle f is still its own between fopen, fputs and fclose.
SaveUsesOwnFile ==
  rx.pc \in {"write", "close"} =>
     /\ f # NULL
     /\ stream[f].open
     /\ stream[f].file = rx.file

\* What a remote's file asks the transmitter to emit for a name: its newest
\* line of that name, as pulses or as a code of the remote's protocol; a line
\* without any pulse asks for nothing.
StoredRequest(file, name) ==
  LET named  == {i \in DOMAIN flash[file] : flash[file][i].name = name}
      newest == flash[file][CHOOSE i \in named : \A j \in named : j <= i]
  IN  CASE named # {} /\ newest.wave # NoWave /\ newest.proto = "RAW" ->
             [how |-> "RAW", file |-> "", data |-> newest.wave]
        [] named # {} /\ newest.wave # NoWave /\ newest.proto = "NORMAL"
              /\ file \in CommandProtocols ->
             [how |-> "CODE", file |-> file, data |-> newest.wave]
        [] OTHER -> NothingSent

\* What message m asks the transmitter to emit.
Request(m) ==
  CASE m.complete /\ m.trans = "HAVC" /\ m.file \in HavcProtocols ->
         [how |-> "HAVC", file |-> m.file, data |-> m.ac]
    [] m.complete /\ m.trans = "RAW" -> [how |-> "RAW", file |-> "", data |-> m.line.wave]
    [] m.complete /\ m.trans = "NORMAL" -> StoredRequest(m.file, m.name)
    [] OTHER -> NothingSent

\* A control command sent to a settled device is executed as it was asked:
\* this remote, this command, this setting, and nothing when there is none.
Wiping == {"wipeAll", "wipeFile", "wipeValue", "wipeType", "wipe", "wipeName"}
SentIsAsked ==
  tx.pc \in Wiping /\ asked.kind = "control" => sent = Request(asked)

\* A new_cmd the receive task acts on ends in one of two ways: the remote's
\* file is one line longer, the asked name with the very capture the user was
\* asked about, and has no other line of that name; or it had the name before
\* and nothing was written.  No other file changes.
Known(file, name) == \E i \in DOMAIN flash[file] : flash[file][i].name = name

LearnedIsStored ==
  [][rx.pc # "finish" /\ rx'.pc = "finish" /\ asked.kind = "new_cmd" =>
       IF Known(asked.file, asked.name)
       THEN UNCHANGED flash
       ELSE flash' = [flash EXCEPT ![asked.file] =
                        Append(@, [name |-> asked.name, proto |-> "RAW", wave |-> raw])]]_vars

\* Every command stored for the transmit task leaves the slot.
ControlConsumed == cmd = "CTRL" ~> cmd # "CTRL"

\* An accepted capture leads back to learning or out of it.
AcceptConsumed == cmd = "ACCEPT" ~> cmd # "ACCEPT"

\* learn_cmd makes the receiver listen, unless end_learn comes.
LearnModeListens ==
  irState = "LEARN" /\ ~rxRunning ~> rxRunning \/ irState # "LEARN"

=============================================================================
