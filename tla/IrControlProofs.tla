-------------------------- MODULE IrControlProofs --------------------------
(***************************************************************************)
(* Proofs about the learn/control pipeline, for every value of the         *)
(* constants: first what holds whatever the user does, then what the       *)
(* pipeline promises a user who waits until the device has settled before  *)
(* the next action (Spaced).                                               *)
(***************************************************************************)
EXTENDS IrControl, SequenceTheorems, WellFoundedInduction, TLAPS

\* fopen for append leaves files and streams well formed (logger_file.c).
LEMMA OpenAppendType ==
  ASSUME FileTypeOK, NEW file \in FileNames, OpenAppend(file)
  PROVE  FileTypeOK'
  <1>1. CASE FreeHandles # {}
    <2>1. (CHOOSE h \in FreeHandles : TRUE) \in FreeHandles
      BY <1>1
    <2>2. PICK h \in Handles : f' = h /\ stream' = [stream EXCEPT ![h] = [open |-> TRUE, file |-> file, pending |-> << >>]]
      BY <1>1, <2>1 DEF OpenAppend, FreeHandles
    <2>3. [open |-> TRUE, file |-> file, pending |-> << >>] \in Stream
      BY DEF Stream
    <2> QED
      BY <2>2, <2>3 DEF OpenAppend, FileTypeOK
  <1>2. CASE FreeHandles = {}
    BY <1>2 DEF OpenAppend, FileTypeOK
  <1> QED
    BY <1>1, <1>2

\* So does fputs, on whatever stream f is.
LEMMA PutLineType ==
  ASSUME FileTypeOK, NEW line \in Line, PutLine(line)
  PROVE  FileTypeOK'
  <1>1. CASE f # NULL /\ stream[f].open
    <2>1. f \in Handles /\ stream[f] \in Stream
      BY <1>1 DEF FileTypeOK
    <2>2. [stream[f] EXCEPT !.pending = Append(@, line)] \in Stream
      BY SMTT(30), <2>1 DEF Stream
    <2> QED
      BY <1>1, <2>1, <2>2 DEF PutLine, FileTypeOK
  <1>2. CASE ~(f # NULL /\ stream[f].open)
    BY <1>2 DEF PutLine, FileTypeOK
  <1> QED
    BY <1>1, <1>2

\* So does fclose, which moves the pending lines into the file.
LEMMA CloseFileType ==
  ASSUME FileTypeOK, CloseFile
  PROVE  FileTypeOK'
  <1>1. CASE f # NULL /\ stream[f].open
    <2>1. f \in Handles /\ stream[f] \in Stream
      BY <1>1 DEF FileTypeOK
    <2>2. [open |-> FALSE, file |-> stream[f].file, pending |-> << >>] \in Stream
      BY <2>1 DEF Stream
    <2>3. flash[stream[f].file] \o stream[f].pending \in Seq(Line)
      BY <2>1 DEF Stream, FileTypeOK
    <2>4. flash' = [flash EXCEPT ![stream[f].file] = @ \o stream[f].pending]
      BY <1>1 DEF CloseFile
    <2>5. flash' \in [FileNames -> Seq(Line)]
      BY <2>3, <2>4 DEF FileTypeOK
    <2> QED
      BY <1>1, <2>1, <2>2, <2>5 DEF CloseFile, FileTypeOK
  <1>2. CASE ~(f # NULL /\ stream[f].open)
    BY <1>2 DEF CloseFile, FileTypeOK
  <1> QED
    BY <1>1, <1>2

\* What logger_file_read_cmd returns is a line, found or empty.
LEMMA ReadCommandType ==
  ASSUME FileTypeOK, NEW file \in FileNames, NEW name
  PROVE  ReadCommand(file, name) \in Line
  <1> DEFINE IsLast(i) == /\ flash[file][i].name = name
                          /\ \A j \in DOMAIN flash[file] : flash[file][j].name = name => j <= i
  <1>1. NoLine \in Line
    BY FileAssumption DEF NoLine, Line
  <1>2. CASE FreeHandles # {} /\ \E i \in DOMAIN flash[file] : IsLast(i)
    <2> DEFINE last == CHOOSE i \in DOMAIN flash[file] : IsLast(i)
    <2>1. last \in DOMAIN flash[file]
      BY <1>2
    <2>2. flash[file] \in Seq(Line)
      BY DEF FileTypeOK
    <2>3. ReadCommand(file, name) = flash[file][last]
      BY <1>2 DEF ReadCommand
    <2> HIDE DEF last
    <2>4. flash[file][last] \in Line
      BY <2>1, <2>2
    <2> QED
      BY <2>3, <2>4
  <1>3. CASE ~(FreeHandles # {} /\ \E i \in DOMAIN flash[file] : IsLast(i))
    BY <1>1, <1>3 DEF ReadCommand
  <1> QED
    BY <1>2, <1>3

----------------------------------------------------------------------------
(* Type correctness, by groups of variables: what an action leaves alone     *)
(* keeps its type.                                                           *)

\* A group of variables that a step leaves alone keeps its type.
LEMMA Untouched ==
  /\ FileTypeOK /\ UNCHANGED fileVars => FileTypeOK'
  /\ SlotTypeOK /\ UNCHANGED slotVars => SlotTypeOK'
  /\ RxTypeOK /\ UNCHANGED rxVars => RxTypeOK'
  /\ RecvTypeOK /\ UNCHANGED recvVars => RecvTypeOK'
  /\ TxTypeOK /\ UNCHANGED txVars => TxTypeOK'
  /\ ChanTypeOK /\ UNCHANGED chanVars => ChanTypeOK'
  <1>1. FileTypeOK /\ UNCHANGED fileVars => FileTypeOK'
    BY DEF FileTypeOK, fileVars
  <1>2. SlotTypeOK /\ UNCHANGED slotVars => SlotTypeOK'
    BY DEF SlotTypeOK, slotVars
  <1>3. RxTypeOK /\ UNCHANGED rxVars => RxTypeOK'
    BY DEF RxTypeOK, rxVars
  <1>4. RecvTypeOK /\ UNCHANGED recvVars => RecvTypeOK'
    BY DEF RecvTypeOK, recvVars
  <1>5. TxTypeOK /\ UNCHANGED txVars => TxTypeOK'
    BY DEF TxTypeOK, txVars
  <1>6. ChanTypeOK /\ UNCHANGED chanVars => ChanTypeOK'
    BY DEF ChanTypeOK, chanVars
  <1> QED
    BY <1>1, <1>2, <1>3, <1>4, <1>5, <1>6

\* A message's remote and command may stand in the slot.
LEMMA MessageIsTyped ==
  \A m \in Messages : m \in Message /\ m.file \in FileNames /\ m.name \in LineNames
  BY IrAssumption DEF Message

\* The bounds are numbers.
LEMMA BoundsAreNat == MaxMsgs \in Nat /\ MaxFrames \in Nat /\ MaxBle \in Nat
  BY IrAssumption

\* The empty line is a line.
LEMMA NoLineIsLine == NoLine \in Line
  BY FileAssumption DEF NoLine, Line

\* What json_parser_command_contrl has tested before it stores the names.
NamesAreKeywords ==
  chan.pc \in {"names", "second", "payload"} /\ chan.msg.kind # "new_cmd" => chan.msg.trans \in Keywords

TypeInv == TypeOK /\ NamesAreKeywords

\* app_main leaves everything well formed.
LEMMA InitType == Init => TypeInv
  <1> SUFFICES ASSUME Init PROVE TypeInv
    OBVIOUS
  <1>1. << >> \in Seq(Line) /\ << >> \in Seq(Waves)
    BY EmptySeq
  <1>2. FileTypeOK
    <2>1. [open |-> FALSE, file |-> "", pending |-> << >>] \in Stream
      BY <1>1, FileAssumption DEF Stream
    <2> QED
      BY <1>1, <2>1, FileAssumption DEF Init, FileInit, FileTypeOK, NULL
  <1>3. SlotTypeOK
    <2>1. PICK ac \in AcSettings :
            slot = [file_name |-> "", function_name |-> "", type_cmd |-> "",
                    value_cmd |-> NoLine, ac |-> ac]
      BY DEF Init
    <2>2. cmd \in CmdStates /\ irState \in {"NORMAL", "LEARN", "END"}
      BY DEF Init, CmdStates
    <2> QED
      BY <2>1, <2>2, NoLineIsLine, FileAssumption DEF SlotTypeOK
  <1>4. RxTypeOK
    BY <1>1, FileAssumption DEF Init, RxTypeOK, RxPcs
  <1>5. RecvTypeOK
    BY DEF Init, RecvTypeOK, PlantPcs
  <1>6. TxTypeOK
    BY NoLineIsLine, FileAssumption DEF Init, TxTypeOK, TxPcs, NothingSent
  <1>7. ChanTypeOK /\ NamesAreKeywords
    <2>1. PICK m \in Messages : chan = [pc |-> "idle", msg |-> m] /\ asked = m
      BY DEF Init
    <2>2. env \in [msgs : 0 .. MaxMsgs, frames : 0 .. MaxFrames, ble : 0 .. MaxBle]
      <3>1. env = [msgs |-> 0, frames |-> 0, ble |-> 0]
        BY DEF Init
      <3> QED
        BY <3>1, BoundsAreNat
    <2>3. stores = 0
      BY DEF Init
    <2>4. NamesAreKeywords
      BY <2>1 DEF NamesAreKeywords
    <2>5. chan \in [pc : ChanPcs, msg : Messages]
      BY <2>1 DEF ChanPcs
    <2> QED
      BY <2>1, <2>2, <2>3, <2>4, <2>5 DEF ChanTypeOK
  <1> QED
    BY <1>2, <1>3, <1>4, <1>5, <1>6, <1>7 DEF TypeInv, TypeOK, Init

\* A message that arrives keeps the types.
LEMMA ChanReceiveType == TypeInv /\ ChanReceive => TypeInv'
  <1> SUFFICES ASSUME TypeInv, ChanReceive PROVE TypeInv'
    OBVIOUS
  <1>1. env' \in [msgs : 0 .. MaxMsgs, frames : 0 .. MaxFrames, ble : 0 .. MaxBle]
    BY BoundsAreNat DEF TypeInv, TypeOK, ChanTypeOK, ChanReceive
  <1>2. PICK m \in Messages :
          /\ chan' = [pc |-> IF m.mine THEN "type" ELSE "idle", msg |-> m]
          /\ asked' = m
    BY DEF ChanReceive
  <1>3. ChanTypeOK' /\ NamesAreKeywords'
    BY <1>1, <1>2 DEF TypeInv, TypeOK, ChanTypeOK, NamesAreKeywords, ChanReceive, ChanPcs
  <1> QED
    BY <1>3, Untouched DEF TypeInv, TypeOK, ChanReceive

\* So does one over Bluetooth.
LEMMA BleMessageType == TypeInv /\ BleMessage => TypeInv'
  <1> SUFFICES ASSUME TypeInv, BleMessage PROVE TypeInv'
    OBVIOUS
  <1>1. ChanTypeOK' /\ NamesAreKeywords'
    <2>1. env' \in [msgs : 0 .. MaxMsgs, frames : 0 .. MaxFrames, ble : 0 .. MaxBle]
      BY BoundsAreNat DEF TypeInv, TypeOK, ChanTypeOK, BleMessage
    <2> QED
      BY <2>1 DEF TypeInv, TypeOK, ChanTypeOK, NamesAreKeywords, BleMessage
  <1>2. SlotTypeOK'
    BY NoLineIsLine DEF TypeInv, TypeOK, SlotTypeOK, BleMessage, StoreType
  <1> QED
    BY <1>1, <1>2, Untouched DEF TypeInv, TypeOK, BleMessage

\* The parser stores what the fields of the slot may hold (json_parser.c).
LEMMA ChanStepType == TypeInv /\ ChanStep => TypeInv'
  <1> SUFFICES ASSUME TypeInv, ChanStep PROVE TypeInv'
    OBVIOUS
  <1> USE DEF ChanGoto
  <1>1. chan.msg \in Messages /\ chan.msg \in Message
    BY MessageIsTyped DEF TypeInv, TypeOK, ChanTypeOK
  <1>2. CASE ChanType
    <2>1. /\ AfterType(chan.msg) \in ChanPcs \ {"second", "payload"}
          /\ AfterType(chan.msg) = "names" /\ chan.msg.kind # "new_cmd" => chan.msg.trans \in Keywords
      BY <1>1 DEF AfterType, Message, ChanPcs
    <2>2. SlotTypeOK'
      BY <1>1, <1>2, NoLineIsLine DEF TypeInv, TypeOK, SlotTypeOK, ChanType, StoreType, Message
    <2>3. ChanTypeOK' /\ NamesAreKeywords'
      BY <1>2, <2>1 DEF TypeInv, TypeOK, ChanTypeOK, NamesAreKeywords, ChanType
    <2> QED
      BY <1>2, <2>2, <2>3, Untouched DEF TypeInv, TypeOK, ChanType
  <1>3. CASE ChanNames \/ ChanSecond
    <2> USE DEF ChanNames, ChanSecond
    <2>1. /\ chan.msg.file \in FileNames /\ chan.msg.name \in LineNames
          /\ chan.msg.kind # "new_cmd" => chan.msg.trans \in LineNames
      BY <1>1, <1>3, MessageIsTyped, IrAssumption DEF TypeInv, NamesAreKeywords
    <2>2. SlotTypeOK'
      BY <1>3, <2>1 DEF TypeInv, TypeOK, SlotTypeOK, StoreFile, StoreFunction
    <2>3. ChanTypeOK' /\ NamesAreKeywords'
      BY <1>3 DEF TypeInv, TypeOK, ChanTypeOK, NamesAreKeywords, ChanPcs
    <2> QED
      BY <1>3, <2>2, <2>3, Untouched DEF TypeInv, TypeOK
  <1>0. CASE ChanFault
    <2>1. FileTypeOK'
      BY <1>0 DEF TypeInv, TypeOK, FileTypeOK, ChanFault
    <2> QED
      BY <1>0, <2>1, Untouched DEF TypeInv, TypeOK, NamesAreKeywords, ChanFault, chanVars
  <1>4. CASE ChanPayload
    <2>1. SlotTypeOK'
      BY <1>1, <1>4 DEF TypeInv, TypeOK, SlotTypeOK, ChanPayload, Message
    <2>2. ChanTypeOK' /\ NamesAreKeywords'
      BY <1>4 DEF TypeInv, TypeOK, ChanTypeOK, NamesAreKeywords, ChanPayload, ChanPcs
    <2> QED
      BY <1>4, <2>1, <2>2, Untouched DEF TypeInv, TypeOK, ChanPayload
  <1>5. CASE ChanIrState \/ ChanControl \/ ChanLearn \/ ChanEndLearn \/ ChanLook \/ ChanAccept
    <2> USE DEF ChanIrState, ChanControl, ChanLearn, ChanEndLearn, ChanLook, ChanAccept
    <2>1. SlotTypeOK'
      BY <1>5 DEF TypeInv, TypeOK, SlotTypeOK, CmdStates, slotVars
    <2>2. ChanTypeOK'
      BY <1>5 DEF TypeInv, TypeOK, ChanTypeOK, ChanPcs
    <2>3. NamesAreKeywords'
      BY <1>5 DEF TypeInv, TypeOK, ChanTypeOK, NamesAreKeywords
    <2> QED
      BY <1>5, <2>1, <2>2, <2>3, Untouched DEF TypeInv, TypeOK
  <1> QED
    BY <1>0, <1>2, <1>3, <1>4, <1>5 DEF ChanStep

\* The transmit task keeps the types (ir_driver_tx_task).
LEMMA TxStepType == TypeInv /\ TxStep => TypeInv'
  <1> SUFFICES ASSUME TypeInv, TxStep PROVE TypeInv'
    OBVIOUS
  <1> USE DEF TxGoto
  <1>1. NamesAreKeywords' /\ ChanTypeOK'
    BY Untouched DEF TypeInv, TypeOK, NamesAreKeywords, chanVars, TxStep, TxStart, TxDispatch, TxHavc,
       TxLookup, TxMatch, TxEmit, TxRaw, TxOpen, TxWrite, TxClose, TxWipe, TxDone
  <1>2. CASE TxStart \/ TxDispatch \/ TxLookup \/ TxDone
    <2> USE DEF TxStart, TxDispatch, TxLookup, TxDone
    <2>1. TxTypeOK'
      <3>1. NothingSent \in [how : {"none", "HAVC", "CODE", "RAW"}, file : FileNames,
                             data : Waves \union AcSettings \union {NoWave}]
        BY FileAssumption DEF NothingSent
      <3>2. slot.file_name \in FileNames
        BY DEF TypeInv, TypeOK, SlotTypeOK
      <3>3. tx' \in [pc : TxPcs, file : FileNames, line : Line]
        BY <1>2, <3>2 DEF TypeInv, TypeOK, TxTypeOK, TxPcs
      <3>4. runs' \in Nat /\ (sent' = NothingSent \/ sent' = sent)
        BY <1>2 DEF TypeInv, TypeOK, TxTypeOK
      <3> QED
        BY <3>1, <3>3, <3>4 DEF TypeInv, TypeOK, TxTypeOK
    <2>2. SlotTypeOK'
      BY <1>2 DEF TypeInv, TypeOK, SlotTypeOK, slotVars, CmdStates
    <2> QED
      BY <1>1, <1>2, <2>1, <2>2, Untouched DEF TypeInv, TypeOK
  <1>3. CASE TxHavc \/ TxEmit \/ TxRaw
    <2> USE DEF TxHavc, TxEmit, TxRaw, Transmit, NoTransmission
    <2>1. /\ slot.value_cmd.wave \in Waves \union {NoWave}
          /\ tx.line.wave \in Waves \union {NoWave}
          /\ tx.line.proto \in {"RAW", "NORMAL"}
      BY DEF TypeInv, TypeOK, SlotTypeOK, TxTypeOK, Line
    <2>2. TxTypeOK'
      <3>1. tx' \in [pc : TxPcs, file : FileNames, line : Line] /\ runs' \in Nat
        <4>1. tx' = [tx EXCEPT !.pc = "wipe"] \/ tx' = [tx EXCEPT !.pc = "wipeAll"]
          BY <1>3
        <4>2. runs' = runs
          BY <1>3
        <4> QED
          BY <4>1, <4>2 DEF TypeInv, TypeOK, TxTypeOK, TxPcs
      <3>2. sent' \in [how : {"none", "HAVC", "CODE", "RAW"}, file : FileNames,
                       data : Waves \union AcSettings \union {NoWave}]
        <4>1. slot.file_name \in FileNames /\ slot.ac \in AcSettings
          BY DEF TypeInv, TypeOK, SlotTypeOK
        <4>2. \/ sent' = sent
              \/ \E how \in {"HAVC", "CODE", "RAW"}, file \in FileNames,
                    data \in Waves \union AcSettings \union {NoWave} :
                   sent' = [how |-> how, file |-> file, data |-> data]
          BY <1>3, <2>1, <4>1, FileAssumption
        <4> QED
          BY <4>2 DEF TypeInv, TypeOK, TxTypeOK
      <3> QED
        BY <3>1, <3>2 DEF TxTypeOK
    <2>3. RecvTypeOK'
      BY <1>3, <2>1 DEF TypeInv, TypeOK, RecvTypeOK
    <2> QED
      BY <1>1, <1>3, <2>2, <2>3, Untouched DEF TypeInv, TypeOK
  <1>4. CASE TxMatch
    <2>1. ReadCommand(tx.file, slot.type_cmd) \in Line
      BY ReadCommandType DEF TypeInv, TypeOK, TxTypeOK
    <2>2. TxTypeOK'
      BY <1>4, <2>1 DEF TypeInv, TypeOK, TxTypeOK, TxMatch, TxPcs
    <2> QED
      BY <1>1, <1>4, <2>2, Untouched DEF TypeInv, TypeOK, TxMatch
  <1>5. CASE TxOpen \/ TxWrite \/ TxClose
    <2> USE DEF TxOpen, TxWrite, TxClose
    <2>1. slot.file_name \in FileNames /\ slot.value_cmd \in Line
      BY DEF TypeInv, TypeOK, SlotTypeOK
    <2>2. FileTypeOK'
      BY <1>5, <2>1, OpenAppendType, PutLineType, CloseFileType DEF TypeInv, TypeOK
    <2>3. TxTypeOK'
      BY <1>5, <2>1 DEF TypeInv, TypeOK, TxTypeOK, TxPcs
    <2> QED
      BY <1>1, <1>5, <2>2, <2>3, Untouched DEF TypeInv, TypeOK
  <1>6. CASE TxWipe
    <2>1. SlotTypeOK'
      BY <1>6, NoLineIsLine, FileAssumption DEF TypeInv, TypeOK, SlotTypeOK, TxWipe
    <2>2. TxTypeOK'
      BY <1>6 DEF TypeInv, TypeOK, TxTypeOK, TxWipe, TxPcs
    <2> QED
      BY <1>1, <1>6, <2>1, <2>2, Untouched DEF TypeInv, TypeOK, TxWipe
  <1> QED
    BY <1>2, <1>3, <1>4, <1>5, <1>6 DEF TxStep

\* The receive task keeps the types (ir_driver_rx_task).
LEMMA RxStepType == TypeInv /\ RxStep => TypeInv'
  <1> SUFFICES ASSUME TypeInv, RxStep PROVE TypeInv'
    OBVIOUS
  <1> USE DEF RxGoto, TypeInv, TypeOK
  <1>1. NamesAreKeywords' /\ ChanTypeOK'
    BY Untouched DEF NamesAreKeywords, chanVars, RxStep, RxCapture, RxTimeout, RxSwitch, RxSetWait,
       RxCheck, RxOpen, RxWrite, RxClose, RxFinish
  <1>2. CASE RxCapture
    <2>1. Head(ring) \in Waves /\ Tail(ring) \in Seq(Waves)
      BY <1>2 DEF RxTypeOK, RxCapture
    <2>2. RxTypeOK'
      BY <1>2, <2>1 DEF RxTypeOK, RxCapture, RxPcs
    <2> QED
      BY <1>1, <1>2, <2>2, Untouched DEF RxCapture
  <1>3. CASE RxTimeout \/ RxSwitch \/ RxSetWait \/ RxCheck \/ RxFinish
    <2> USE DEF RxTimeout, RxSwitch, RxSetWait, RxCheck, RxFinish
    <2>1. RxTypeOK'
      BY <1>3 DEF RxTypeOK, RxPcs
    <2>2. SlotTypeOK'
      BY <1>3 DEF SlotTypeOK, slotVars, CmdStates
    <2> QED
      BY <1>1, <1>3, <2>1, <2>2, Untouched
  <1>4. CASE RxOpen \/ RxWrite \/ RxClose
    <2> USE DEF RxOpen, RxWrite, RxClose
    <2>1. /\ slot.file_name \in FileNames
          /\ [name |-> slot.function_name, proto |-> "RAW", wave |-> raw] \in Line
      BY DEF SlotTypeOK, RxTypeOK, Line
    <2>2. FileTypeOK'
      BY <1>4, <2>1, OpenAppendType, PutLineType, CloseFileType
    <2>3. RxTypeOK'
      BY <1>4, <2>1 DEF RxTypeOK, RxPcs
    <2> QED
      BY <1>1, <1>4, <2>2, <2>3, Untouched
  <1> QED
    BY <1>2, <1>3, <1>4 DEF RxStep

\* plant_check_irState keeps the types.
LEMMA PlantStepType == TypeInv /\ PlantStep => TypeInv'
  <1> SUFFICES ASSUME TypeInv, PlantStep PROVE TypeInv'
    OBVIOUS
  <1> USE DEF TypeInv, TypeOK, PlantStep, PlantEnable, PlantStart, PlantDisable, PlantStop
  <1>1. RecvTypeOK'
    BY DEF RecvTypeOK, PlantPcs
  <1>2. NamesAreKeywords'
    BY DEF NamesAreKeywords, chanVars
  <1> QED
    BY <1>1, <1>2, Untouched

\* A frame in the ring buffer keeps the types.
LEMMA FrameArrivesType == TypeInv /\ FrameArrives => TypeInv'
  <1> SUFFICES ASSUME TypeInv, FrameArrives PROVE TypeInv'
    OBVIOUS
  <1> USE DEF TypeInv, TypeOK, FrameArrives
  <1>1. RxTypeOK'
    BY DEF RxTypeOK
  <1>2. ChanTypeOK' /\ NamesAreKeywords'
    <2>1. env' \in [msgs : 0 .. MaxMsgs, frames : 0 .. MaxFrames, ble : 0 .. MaxBle]
      BY SMTT(30), BoundsAreNat DEF ChanTypeOK
    <2> QED
      BY <2>1 DEF ChanTypeOK, NamesAreKeywords
  <1> QED
    BY <1>1, <1>2, Untouched

\* Every step keeps the types and the keywords of the parser.
LEMMA NextType == TypeInv /\ [Next]_vars => TypeInv'
  <1> SUFFICES ASSUME TypeInv, [Next]_vars PROVE TypeInv'
    OBVIOUS
  <1>1. CASE UNCHANGED vars
    BY <1>1, Untouched DEF TypeInv, TypeOK, NamesAreKeywords, vars, chanVars
  <1> QED
    BY <1>1, ChanReceiveType, ChanStepType, BleMessageType, TxStepType, RxStepType, PlantStepType,
       FrameArrivesType
       DEF Next

\* Every shared field keeps to the values the tasks test it against, whatever
\* the messages, the remotes and the order in which the four tasks run.
THEOREM TypeCorrect == Spec => []TypeOK
  <1>1. Init => TypeInv
    BY InitType
  <1>2. TypeInv /\ [Next]_vars => TypeInv'
    BY NextType
  <1>3. TypeInv => TypeOK
    BY DEF TypeInv
  <1> QED
    BY <1>1, <1>2, <1>3, PTL DEF Spec
----------------------------------------------------------------------------
(* What the steps of the other tasks leave alone.                            *)

\* The transmit task touches neither the capture nor the channel, and stores
\* E_CMD_NONE or nothing in new_ctrl_cmd.
LEMMA TxKeeps ==
  TxStep => UNCHANGED <<rxVars, chanVars>> /\ (cmd' = cmd \/ cmd' = "NONE")
  BY DEF TxStep, TxStart, TxDispatch, TxHavc, TxLookup, TxMatch, TxEmit, TxRaw, TxOpen,
         TxWrite, TxClose, TxWipe, TxDone, slotVars

\* The receive task touches neither the channel, the transmitter nor the
\* receiver.
LEMMA RxKeeps == RxStep => UNCHANGED <<chanVars, txVars, recvVars>>
  BY DEF RxStep, RxCapture, RxTimeout, RxSwitch, RxSetWait, RxCheck, RxOpen, RxWrite,
         RxClose, RxFinish

\* The parser touches neither the capture, the transmitter nor the receiver.
LEMMA ChanKeeps == ChanStep => UNCHANGED <<rxVars, txVars, recvVars>>
  BY DEF ChanStep, ChanType, ChanFault, ChanNames, ChanSecond, ChanPayload, ChanIrState,
         ChanControl, ChanLearn, ChanEndLearn, ChanLook, ChanAccept

\* Nor the files; a payload that is missing resets the chip.
LEMMA ChanKeepsFiles == ChanStep => UNCHANGED <<flash, f, stream>>
  BY DEF ChanStep, ChanType, ChanFault, ChanNames, ChanSecond, ChanPayload, ChanIrState,
         ChanControl, ChanLearn, ChanEndLearn, ChanLook, ChanAccept, fileVars

\* It acts on a message only.
LEMMA ChanActs == ChanStep => chan.pc # "idle"
  BY DEF ChanStep, ChanType, ChanFault, ChanNames, ChanSecond, ChanPayload, ChanIrState,
         ChanControl, ChanLearn, ChanEndLearn, ChanLook, ChanAccept

\* plant touches only the receiver and its flag.
LEMMA PlantKeeps == PlantStep => UNCHANGED <<slotVars, rxVars, txVars, chanVars>>
  BY DEF PlantStep, PlantEnable, PlantStart, PlantDisable, PlantStop

----------------------------------------------------------------------------
(* The capture is kept until it is saved.                                    *)

\* A message being parsed does not lose the capture the user is asked about:
\* the accept step was entered in E_CMD_LEARN_WATTING.
LEMMA ChanStepCapture ==
  ASSUME TypeOK, CaptureInv, ChanStep
  PROVE  CaptureInv'
  <1> USE DEF CaptureInv, ChanGoto
  <1>1. chan \in [pc : ChanPcs, msg : Messages]
    BY DEF TypeOK, ChanTypeOK
  <1>2. UNCHANGED <<raw, newCmd, rx>>
    BY ChanKeeps DEF rxVars
  <1>3. CASE ChanType
    <2>1. AfterType(chan.msg) # "accept"
      BY MessageIsTyped, <1>1 DEF AfterType, Message
    <2> QED
      BY <1>1, <1>2, <1>3, <2>1 DEF ChanType
  <1>4. CASE ChanNames \/ ChanSecond \/ ChanPayload \/ ChanIrState
    BY <1>1, <1>2, <1>4 DEF ChanNames, ChanSecond, ChanPayload, ChanIrState
  <1>0. CASE ChanFault
    BY <1>2, <1>0 DEF ChanFault, slotVars, chanVars
  <1>5. CASE ChanControl \/ ChanLearn \/ ChanEndLearn
    BY <1>1, <1>2, <1>5 DEF ChanControl, ChanLearn, ChanEndLearn
  <1>6. CASE ChanLook
    BY <1>1, <1>2, <1>6 DEF ChanLook, slotVars
  <1>7. CASE ChanAccept
    BY <1>1, <1>2, <1>7 DEF ChanAccept
  <1> QED
    BY <1>0, <1>3, <1>4, <1>5, <1>6, <1>7 DEF ChanStep

\* The receive task clears the capture only when nobody waits for it.
LEMMA RxStepCapture ==
  ASSUME TypeOK, CaptureInv, RxStep
  PROVE  CaptureInv'
  <1> USE DEF CaptureInv, RxGoto, slotVars, chanVars
  <1>1. rx \in [pc : RxPcs, file : FileNames] /\ ring \in Seq(Waves)
    BY DEF TypeOK, RxTypeOK
  <1>2. UNCHANGED chan
    BY RxKeeps
  <1>3. CASE RxCapture
    <2>1. Head(ring) \in Waves
      BY <1>1, <1>3 DEF RxCapture
    <2>2. UNCHANGED cmd /\ rx.pc = "poll" /\ rx'.pc = "switch"
      BY <1>1, <1>3 DEF RxCapture
    <2>3. CASE cmd = "LEARN"
      <3>1. newCmd' => raw' \in LongWaves
        BY <1>3, <2>1, <2>3 DEF RxCapture, LongWaves
      <3> QED
        BY <1>2, <2>2, <2>3, <3>1
    <2>4. CASE cmd # "LEARN"
      <3>1. UNCHANGED <<raw, newCmd>>
        BY <1>3, <2>4 DEF RxCapture
      <3> QED
        BY <1>2, <2>2, <3>1
    <2> QED
      BY <2>3, <2>4
  <1>4. CASE RxTimeout
    BY <1>1, <1>2, <1>4 DEF RxTimeout
  <1>5. CASE RxSwitch
    BY <1>1, <1>2, <1>5 DEF RxSwitch
  <1>6. CASE RxSetWait
    BY <1>1, <1>2, <1>6 DEF RxSetWait
  <1>7. CASE RxCheck \/ RxOpen \/ RxWrite \/ RxClose
    BY <1>1, <1>2, <1>7 DEF RxCheck, RxOpen, RxWrite, RxClose
  <1>8. CASE RxFinish
    BY <1>1, <1>2, <1>8 DEF RxFinish
  <1> QED
    BY <1>3, <1>4, <1>5, <1>6, <1>7, <1>8 DEF RxStep

\* Every step keeps CaptureInv.
LEMMA NextCapture ==
  ASSUME TypeOK, CaptureInv, [Next]_vars
  PROVE  CaptureInv'
  <1> USE DEF CaptureInv
  <1>1. CASE ChanReceive
    BY <1>1 DEF ChanReceive, slotVars, rxVars, TypeOK, ChanTypeOK
  <1>2. CASE BleMessage \/ FrameArrives
    BY <1>2 DEF BleMessage, FrameArrives, slotVars, rxVars
  <1>3. CASE TxStep
    BY <1>3, TxKeeps DEF rxVars, chanVars
  <1>4. CASE PlantStep
    BY <1>4, PlantKeeps DEF slotVars, rxVars, chanVars
  <1>5. CASE UNCHANGED vars
    BY <1>5 DEF vars, slotVars, rxVars, chanVars
  <1> QED
    BY <1>1, <1>2, <1>3, <1>4, <1>5, ChanStepCapture, RxStepCapture DEF Next

\* While the user is asked about a capture, has accepted it or it is being
\* saved, a complete capture is in ir_raw_data, for any number of messages,
\* frames and Bluetooth clients.
THEOREM CaptureIsKept == Spec => []CaptureKept
  <1>1. Init => CaptureInv
    <2> SUFFICES ASSUME Init PROVE CaptureInv
      OBVIOUS
    <2>1. chan.pc = "idle"
      <3>1. PICK m \in Messages : chan = [pc |-> "idle", msg |-> m]
        BY DEF Init
      <3> QED
        BY <3>1
    <2>2. cmd = "NONE" /\ ~newCmd /\ rx.pc = "poll"
      BY DEF Init
    <2> QED
      BY <2>1, <2>2 DEF CaptureInv
  <1>2. TypeOK /\ CaptureInv /\ [Next]_vars => CaptureInv'
    BY NextCapture
  <1>3. CaptureInv => CaptureKept
    BY DEF CaptureInv, CaptureKept
  <1> QED
    BY <1>1, <1>2, <1>3, TypeCorrect, PTL DEF Spec

----------------------------------------------------------------------------
(* A command is executed at most once.                                       *)

\* Every step keeps OnceInv: what is taken up was stored and not yet counted.
LEMMA NextOnce ==
  ASSUME TypeOK, OnceInv, [Next]_vars
  PROVE  OnceInv'
  <1> USE DEF OnceInv, AtMostOnce
  <1>1. stores \in Nat /\ runs \in Nat /\ tx \in [pc : TxPcs, file : FileNames, line : Line]
    BY DEF TypeOK, ChanTypeOK, TxTypeOK
  <1>2. CASE ChanReceive \/ BleMessage \/ FrameArrives
    BY <1>2 DEF ChanReceive, BleMessage, FrameArrives, slotVars, txVars
  <1>3. CASE ChanStep
    <2>1. UNCHANGED <<tx, runs>>
      BY <1>3, ChanKeeps DEF txVars
    <2>2. \/ cmd' = "CTRL" /\ stores' = stores + 1
          \/ (cmd' = cmd \/ cmd' # "CTRL") /\ stores' = stores
      BY <1>3 DEF ChanStep, ChanType, ChanFault, ChanNames, ChanSecond, ChanPayload, ChanIrState,
           ChanControl, ChanLearn, ChanEndLearn, ChanLook, ChanAccept, slotVars, chanVars
    <2> QED
      BY <1>1, <2>1, <2>2
  <1>4. CASE TxStep
    <2>1. UNCHANGED stores
      BY <1>4, TxKeeps DEF chanVars
    <2>2. \/ tx.pc = "idle" /\ cmd = "CTRL" /\ runs' = runs + 1 /\ tx'.pc = "dispatch"
          \/ runs' = runs /\ (cmd' = "NONE" \/ tx'.pc # "idle")
      <3> USE DEF TxGoto
      <3>1. CASE TxStart
        BY <1>1, <3>1 DEF TxStart
      <3>2. CASE TxDispatch
        BY <1>1, <3>2 DEF TxDispatch
      <3>3. CASE TxHavc \/ TxLookup \/ TxMatch \/ TxEmit \/ TxRaw
        BY <1>1, <3>3 DEF TxHavc, TxLookup, TxMatch, TxEmit, TxRaw
      <3>4. CASE TxOpen \/ TxWrite \/ TxClose \/ TxWipe \/ TxDone
        BY <1>1, <3>4 DEF TxOpen, TxWrite, TxClose, TxWipe, TxDone
      <3> QED
        BY <1>4, <3>1, <3>2, <3>3, <3>4 DEF TxStep
    <2> QED
      BY <1>1, <2>1, <2>2
  <1>5. CASE RxStep
    <2>1. UNCHANGED <<stores, tx, runs>>
      BY <1>5, RxKeeps DEF chanVars, txVars
    <2>2. cmd' = cmd \/ cmd' # "CTRL"
      BY <1>5 DEF RxStep, RxCapture, RxTimeout, RxSwitch, RxSetWait, RxCheck, RxOpen, RxWrite,
           RxClose, RxFinish, slotVars
    <2> QED
      BY <2>1, <2>2
  <1>6. CASE PlantStep
    BY <1>6, PlantKeeps DEF slotVars, txVars, chanVars
  <1>7. CASE UNCHANGED vars
    BY <1>7 DEF vars, slotVars, txVars, chanVars
  <1> QED
    BY <1>2, <1>3, <1>4, <1>5, <1>6, <1>7 DEF Next

\* The transmit task executes no control message twice, although new_ctrl_cmd
\* is written by three tasks and reset only when the command has ended.
THEOREM ExecutedAtMostOnce == Spec => []AtMostOnce
  <1>1. Init => OnceInv
    <2>1. Init => runs = 0 /\ stores = 0 /\ cmd = "NONE"
      BY DEF Init
    <2> QED
      BY <2>1 DEF OnceInv, AtMostOnce
  <1>2. TypeOK /\ OnceInv /\ [Next]_vars => OnceInv'
    BY NextOnce
  <1>3. OnceInv => AtMostOnce
    BY DEF OnceInv
  <1> QED
    BY <1>1, <1>2, <1>3, TypeCorrect, PTL DEF Spec

----------------------------------------------------------------------------
(* The receiver runs only where ir_driver_stop can stop it.                  *)

RunningInv == RunningOnlyIfEnabled /\ (plant = "start" => rxEnable)

\* Every step keeps RunningOnlyIfEnabled.
LEMMA NextRunning ==
  ASSUME TypeOK, RunningInv, [Next]_vars
  PROVE  RunningInv'
  <1> USE DEF RunningInv, RunningOnlyIfEnabled
  <1>1. CASE ChanReceive \/ BleMessage \/ FrameArrives
    BY <1>1 DEF ChanReceive, BleMessage, FrameArrives, recvVars
  <1>2. CASE ChanStep \/ RxStep
    BY <1>2, ChanKeeps, RxKeeps DEF recvVars
  <1>3. CASE TxStep
    <2>1. UNCHANGED <<rxEnable, plant>> /\ (rxRunning' => rxRunning)
      <3>1. CASE TxStart \/ TxDispatch \/ TxLookup \/ TxMatch \/ TxOpen \/ TxWrite
                 \/ TxClose \/ TxDone
        BY <3>1 DEF TxStart, TxDispatch, TxLookup, TxMatch, TxOpen, TxWrite, TxClose, TxDone, recvVars
      <3>4. CASE TxWipe
        BY <3>4 DEF TxWipe, recvVars
      <3>2. CASE TxHavc \/ TxRaw
        BY <3>2 DEF TxHavc, TxRaw, Transmit, NoTransmission
      <3>3. CASE TxEmit
        <4>1. tx.line.proto \in {"RAW", "NORMAL"}
          BY DEF TypeOK, TxTypeOK, Line
        <4> QED
          BY <3>3, <4>1 DEF TxEmit, Transmit, NoTransmission
      <3> QED
        BY <1>3, <3>1, <3>2, <3>3, <3>4 DEF TxStep
    <2> QED
      BY <2>1
  <1>4. CASE PlantStep
    BY <1>4 DEF PlantStep, PlantEnable, PlantStart, PlantDisable, PlantStop
  <1>5. CASE UNCHANGED vars
    BY <1>5 DEF vars, recvVars
  <1> QED
    BY <1>1, <1>2, <1>3, <1>4, <1>5 DEF Next

\* The receiver never runs while ir_driver_rx_enable says it is off, the case
\* in which nothing would ever stop it.
THEOREM NeverRunsUnmanaged == Spec => []RunningOnlyIfEnabled
  <1>1. Init => RunningInv
    BY DEF Init, RunningInv, RunningOnlyIfEnabled
  <1>2. TypeOK /\ RunningInv /\ [Next]_vars => RunningInv'
    BY NextRunning
  <1>3. RunningInv => RunningOnlyIfEnabled
    BY DEF RunningInv
  <1> QED
    BY <1>1, <1>2, <1>3, TypeCorrect, PTL DEF Spec

----------------------------------------------------------------------------
(* A user who waits, and the shared file handle f whatever the user does.    *)

\* Type correctness with what the parser has tested, as an invariant.
LEMMA TypeInvHolds == Spec => []TypeInv
  <1>1. Init => TypeInv
    BY InitType
  <1>2. TypeInv /\ [Next]_vars => TypeInv'
    BY NextType
  <1> QED
    BY <1>1, <1>2, PTL DEF Spec

----------------------------------------------------------------------------
(* Which message the parser can hold at which of its steps.                  *)

\* A control or save_file the parser stores with its names and its payload.
Executable(m) == m.kind \in {"control", "save_file"} /\ AfterType(m) = "names"

ParserAt ==
  /\ chan.pc \in {"names", "second"} => chan.msg.kind = "new_cmd" \/ Executable(chan.msg)
  /\ chan.pc = "payload" => Executable(chan.msg)
  /\ chan.pc \in {"look", "accept"} => chan.msg.kind = "new_cmd"

\* Every step keeps ParserAt.
LEMMA NextParser ==
  ASSUME TypeInv, ParserAt, [Next]_vars
  PROVE  ParserAt'
  <1> USE DEF ParserAt
  <1>1. chan \in [pc : ChanPcs, msg : Messages] /\ chan.msg \in Message
    BY MessageIsTyped DEF TypeInv, TypeOK, ChanTypeOK
  <1>2. CASE ChanReceive
    BY <1>1, <1>2 DEF ChanReceive
  <1>3. CASE ChanStep
    <2> USE DEF ChanGoto
    <2>1. CASE ChanType
      <3>1. /\ AfterType(chan.msg) \notin {"second", "payload", "look", "accept"}
            /\ AfterType(chan.msg) = "names" => chan.msg.kind \in {"new_cmd", "control", "save_file"}
        BY <1>1 DEF AfterType, Message, Kinds
      <3> QED
        BY <1>1, <2>1, <3>1 DEF ChanType, Executable
    <2>2. CASE ChanNames \/ ChanSecond
      BY <1>1, <2>2 DEF ChanNames, ChanSecond
    <2>5. CASE ChanFault
      BY <2>5 DEF ChanFault, chanVars
    <2>3. CASE ChanPayload \/ ChanIrState \/ ChanControl \/ ChanLearn \/ ChanEndLearn \/ ChanAccept
      BY <1>1, <2>3 DEF ChanPayload, ChanIrState, ChanControl, ChanLearn, ChanEndLearn, ChanAccept
    <2>4. CASE ChanLook
      BY <1>1, <2>4 DEF ChanLook
    <2> QED
      BY <1>3, <2>1, <2>2, <2>3, <2>4, <2>5 DEF ChanStep
  <1>4. CASE BleMessage \/ FrameArrives
    BY <1>4 DEF BleMessage, FrameArrives
  <1>5. CASE TxStep \/ RxStep \/ PlantStep
    BY <1>5, TxKeeps, RxKeeps, PlantKeeps DEF chanVars
  <1>6. CASE UNCHANGED vars
    BY <1>6 DEF vars, chanVars
  <1> QED
    BY <1>2, <1>3, <1>4, <1>5, <1>6 DEF Next

\* So the parser holds it for ever.
LEMMA ParserAtHolds == Spec => []ParserAt
  <1>1. Init => ParserAt
    <2> SUFFICES ASSUME Init PROVE ParserAt
      OBVIOUS
    <2>1. PICK m \in Messages : chan = [pc |-> "idle", msg |-> m]
      BY DEF Init
    <2> QED
      BY <2>1 DEF ParserAt
  <1>2. TypeInv /\ ParserAt /\ [Next]_vars => ParserAt'
    BY NextParser
  <1> QED
    BY <1>1, <1>2, TypeInvHolds, PTL DEF Spec

----------------------------------------------------------------------------
(* One activity at a time.                                                   *)

\* ir_driver_rx_task has no capture in hand and none to come.
RxQuiet == rx.pc \in {"poll", "switch"} /\ ring = << >> /\ ~newCmd

\* Of a message, the transmission of a command and the saving of a capture,
\* one is under way, and the last message of the client is its cause.
TurnInv ==
  /\ chan.pc # "idle" =>
       tx.pc = "idle" /\ RxQuiet /\ cmd \notin {"CTRL", "ACCEPT"} /\ asked = chan.msg
  /\ cmd = "CTRL" \/ tx.pc # "idle" =>
       chan.pc = "idle" /\ RxQuiet /\ cmd = "CTRL" /\ asked.kind \in {"control", "save_file"}
  /\ cmd = "ACCEPT" \/ rx.pc \notin {"poll", "switch", "setwait"} =>
       /\ chan.pc = "idle" /\ tx.pc = "idle" /\ cmd = "ACCEPT" /\ asked.kind = "new_cmd"
       /\ ring = << >> /\ ~newCmd
  /\ rx.pc = "setwait" => cmd = "LEARN"
  /\ chan.pc = "accept" => cmd = "WATTING"
  /\ chan.pc = "cmd" /\ chan.msg.kind = "learn_cmd" => irState = "LEARN"

\* The parser takes its turn alone (json_parser_message).
LEMMA ChanStepTurn ==
  ASSUME TypeInv, ParserAt, TurnInv, ChanStep
  PROVE  TurnInv'
  <1> USE DEF TurnInv, RxQuiet, ChanGoto
  <1>1. chan \in [pc : ChanPcs, msg : Messages] /\ chan.msg \in Message
    BY MessageIsTyped DEF TypeInv, TypeOK, ChanTypeOK
  <1>2. UNCHANGED <<tx, rx, ring, newCmd>>
    BY ChanKeeps DEF rxVars, txVars
  <1>3. CASE ChanType
    <2>1. /\ AfterType(chan.msg) \notin {"look", "accept"}
          /\ AfterType(chan.msg) = "cmd" => chan.msg.kind # "learn_cmd"
      BY <1>1 DEF AfterType, Message
    <2>2. UNCHANGED <<cmd, irState, asked>> /\ chan' = [chan EXCEPT !.pc = AfterType(chan.msg)] /\ chan.pc = "type"
      BY <1>3 DEF ChanType
    <2> QED
      BY <1>1, <1>2, <2>1, <2>2
  <1>4. CASE ChanNames \/ ChanSecond
    <2>1. UNCHANGED <<cmd, irState, asked>> /\ chan.pc \in {"names", "second"}
      BY <1>4 DEF ChanNames, ChanSecond
    <2> QED
      BY <1>1, <1>2, <1>4, <2>1 DEF ChanNames, ChanSecond
  <1>0. CASE ChanFault
    BY <1>2, <1>0 DEF ChanFault, slotVars, chanVars
  <1>5. CASE ChanPayload
    <2>1. chan.msg.kind # "learn_cmd"
      BY <1>5 DEF ChanPayload, ParserAt, Executable
    <2> QED
      BY <1>1, <1>2, <1>5, <2>1 DEF ChanPayload
  <1>6. CASE ChanIrState
    BY <1>1, <1>2, <1>6 DEF ChanIrState
  <1>7. CASE ChanControl
    BY <1>1, <1>2, <1>7 DEF ChanControl
  <1>8. CASE ChanLearn \/ ChanEndLearn
    BY <1>1, <1>2, <1>8 DEF ChanLearn, ChanEndLearn
  <1>9. CASE ChanLook
    BY <1>1, <1>2, <1>9 DEF ChanLook, slotVars
  <1>10. CASE ChanAccept
    BY <1>1, <1>2, <1>10 DEF ChanAccept, ParserAt
  <1> QED
    BY <1>0, <1>3, <1>4, <1>5, <1>6, <1>7, <1>8, <1>9, <1>10 DEF ChanStep

\* So does the transmit task: it ends with E_CMD_NONE and idle.
LEMMA TxStepTurn ==
  ASSUME TypeInv, TurnInv, TxStep
  PROVE  TurnInv'
  <1> USE DEF TurnInv, RxQuiet
  <1>1. UNCHANGED <<rx, ring, newCmd, chan, asked>>
    BY TxKeeps DEF rxVars, chanVars
  <1>2. tx \in [pc : TxPcs, file : FileNames, line : Line]
    BY DEF TypeInv, TypeOK, TxTypeOK
  <1>3. UNCHANGED irState
    BY DEF TxStep, TxStart, TxDispatch, TxHavc, TxLookup, TxMatch, TxEmit, TxRaw, TxOpen,
       TxWrite, TxClose, TxWipe, TxDone, slotVars
  <1>4. \/ UNCHANGED cmd /\ (cmd = "CTRL" \/ tx.pc # "idle")
        \/ tx.pc # "idle" /\ cmd' = "NONE" /\ tx'.pc = "idle"
    <2>1. CASE TxDone
      BY <1>2, <2>1 DEF TxDone, TxGoto
    <2>2. CASE TxStart \/ TxDispatch \/ TxHavc \/ TxLookup \/ TxMatch \/ TxEmit \/ TxRaw
               \/ TxOpen \/ TxWrite \/ TxClose \/ TxWipe
      BY <2>2 DEF TxStart, TxDispatch, TxHavc, TxLookup, TxMatch, TxEmit, TxRaw, TxOpen,
         TxWrite, TxClose, TxWipe, slotVars
    <2> QED
      BY <2>1, <2>2 DEF TxStep
  <1> QED
    BY <1>1, <1>3, <1>4

\* And the receive task: it saves in E_CMD_ACCEPT only and returns to learning.
LEMMA RxStepTurn ==
  ASSUME TypeInv, TurnInv, RxStep
  PROVE  TurnInv'
  <1> USE DEF TurnInv, RxQuiet, RxGoto, slotVars
  <1>1. UNCHANGED <<chan, asked, tx>>
    BY RxKeeps DEF chanVars, txVars
  <1>2. rx \in [pc : RxPcs, file : FileNames]
    BY DEF TypeInv, TypeOK, RxTypeOK
  <1>3. UNCHANGED irState
    BY DEF RxStep, RxCapture, RxTimeout, RxSwitch, RxSetWait, RxCheck, RxOpen, RxWrite, RxClose, RxFinish
  <1>4. CASE RxCapture
    BY <1>1, <1>2, <1>3, <1>4 DEF RxCapture
  <1>5. CASE RxTimeout
    BY <1>1, <1>2, <1>3, <1>5 DEF RxTimeout
  <1>6. CASE RxSwitch
    BY <1>1, <1>2, <1>3, <1>6 DEF RxSwitch
  <1>7. CASE RxSetWait
    BY <1>1, <1>2, <1>3, <1>7 DEF RxSetWait
  <1>8. CASE RxCheck \/ RxOpen \/ RxWrite \/ RxClose
    BY <1>1, <1>2, <1>3, <1>8 DEF RxCheck, RxOpen, RxWrite, RxClose
  <1>9. CASE RxFinish
    BY <1>1, <1>2, <1>3, <1>9 DEF RxFinish
  <1> QED
    BY <1>4, <1>5, <1>6, <1>7, <1>8, <1>9 DEF RxStep

\* A user who waits starts something only when nothing is under way.
LEMMA NextTurn ==
  ASSUME Spaced, TypeInv, ParserAt, TurnInv, [Next]_vars
  PROVE  TurnInv'
  <1> USE DEF TurnInv, RxQuiet
  <1>1. CASE ChanReceive
    <2>1. Settled
      BY <1>1 DEF ChanReceive
    <2>2. UNCHANGED <<cmd, irState, rx, ring, newCmd, tx>>
      BY <1>1 DEF ChanReceive, slotVars, rxVars, txVars
    <2>3. PICK m \in Messages : chan' = [pc |-> IF m.mine THEN "type" ELSE "idle", msg |-> m] /\ asked' = m
      BY <1>1 DEF ChanReceive
    <2> QED
      BY <2>1, <2>2, <2>3 DEF Settled
  <1>2. CASE BleMessage
    BY <1>2 DEF BleMessage, rxVars, txVars
  <1>3. CASE FrameArrives
    BY <1>3 DEF FrameArrives, Settled, slotVars, txVars
  <1>4. CASE PlantStep
    BY <1>4, PlantKeeps DEF slotVars, rxVars, txVars, chanVars
  <1>5. CASE UNCHANGED vars
    BY <1>5 DEF vars, slotVars, rxVars, txVars, chanVars
  <1> QED
    BY <1>1, <1>2, <1>3, <1>4, <1>5, ChanStepTurn, TxStepTurn, RxStepTurn DEF Next

\* With such a user, then, TurnInv holds for ever.
LEMMA TurnInvHolds ==
  ASSUME Spaced
  PROVE  Spec => []TurnInv
  <1>1. Init => TurnInv
    <2> SUFFICES ASSUME Init PROVE TurnInv
      OBVIOUS
    <2>1. PICK m \in Messages : chan = [pc |-> "idle", msg |-> m]
      BY DEF Init
    <2>2. chan.pc = "idle" /\ cmd = "NONE" /\ tx.pc = "idle" /\ rx.pc = "poll"
      BY <2>1 DEF Init
    <2> QED
      BY <2>2 DEF TurnInv
  <1>2. TypeInv /\ ParserAt /\ TurnInv /\ [Next]_vars => TurnInv'
    BY NextTurn
  <1> QED
    BY <1>1, <1>2, TypeInvHolds, ParserAtHolds, PTL DEF Spec

----------------------------------------------------------------------------
(* The shared file handle f.                                                 *)

\* A task between the test of its command and the end of the save.
TxSaving == tx.pc \in {"open", "write", "close"}
RxSaving == rx.pc \in {"open", "write", "close"}

\* The tasks do not save at the same time.
Exclusive == ~(TxSaving /\ RxSaving)

\* A stream is open only while its task writes to it, and f is that stream.
FilesInv ==
  /\ \A h \in Handles :
       stream[h].open => h = f /\ (tx.pc \in {"write", "close"} \/ rx.pc \in {"write", "close"})
  /\ tx.pc \in {"write", "close"} => f # NULL /\ stream[f].open /\ stream[f].file = tx.file
  /\ SaveUsesOwnFile

\* fopen finds a free stream when none is open, and f is that stream.
LEMMA OpenAppendOpens ==
  ASSUME FileTypeOK, NEW file \in FileNames, OpenAppend(file),
         \A h \in Handles : ~stream[h].open
  PROVE  /\ FreeHandles # {} /\ f' \in Handles /\ f' # NULL
         /\ stream' = [stream EXCEPT ![f'] = [open |-> TRUE, file |-> file, pending |-> << >>]]
  <1>1. FreeHandles = Handles /\ Handles # {}
    <2>1. 1 \in Handles
      <3>1. MaxOpen \in Nat \ {0}
        BY FileAssumption
      <3> QED
        BY <3>1 DEF Handles
    <2>2. FreeHandles = Handles
      BY DEF FreeHandles
    <2> QED
      BY <2>1, <2>2
  <1>2. (CHOOSE h \in FreeHandles : TRUE) \in FreeHandles
    BY <1>1
  <1>3. f' = (CHOOSE h \in FreeHandles : TRUE)
    BY <1>1 DEF OpenAppend
  <1>4. stream' = [stream EXCEPT ![f'] = [open |-> TRUE, file |-> file, pending |-> << >>]]
    BY <1>1, <1>3 DEF OpenAppend
  <1> QED
    BY <1>1, <1>2, <1>3, <1>4 DEF Handles, NULL

\* fputs on an open f adds the line to what is pending.
LEMMA PutLineAppends ==
  ASSUME FileTypeOK, NEW line \in Line, PutLine(line), f # NULL, stream[f].open
  PROVE  /\ UNCHANGED <<f, flash>>
         /\ stream' = [stream EXCEPT ![f].pending = Append(@, line)]
  BY DEF PutLine

\* fclose on an open f moves what is pending into the file.
LEMMA CloseFileMoves ==
  ASSUME FileTypeOK, CloseFile, f # NULL, stream[f].open
  PROVE  /\ UNCHANGED f
         /\ stream' = [stream EXCEPT ![f] = [open |-> FALSE, file |-> stream[f].file, pending |-> << >>]]
         /\ flash' = [flash EXCEPT ![stream[f].file] = @ \o stream[f].pending]
  BY DEF CloseFile, FileTypeOK

\* Every step keeps FilesInv while the two tasks do not save at once.
LEMMA NextFiles ==
  ASSUME TypeInv, Exclusive, FilesInv, [Next]_vars
  PROVE  FilesInv'
  <1> USE DEF FilesInv, SaveUsesOwnFile, Exclusive, TxSaving, RxSaving
  <1>1. /\ FileTypeOK /\ stream \in [Handles -> Stream] /\ f \in Handles \union {NULL}
        /\ tx \in [pc : TxPcs, file : FileNames, line : Line]
        /\ rx \in [pc : RxPcs, file : FileNames]
        /\ slot.file_name \in FileNames /\ slot.value_cmd \in Line
        /\ [name |-> slot.function_name, proto |-> "RAW", wave |-> raw] \in Line
    BY DEF TypeInv, TypeOK, FileTypeOK, TxTypeOK, RxTypeOK, SlotTypeOK, Line
  <1>2. CASE TxOpen \/ TxWrite \/ TxClose
    <2>1. UNCHANGED rx
      BY <1>2, TxKeeps DEF TxStep, rxVars
    <2>2. CASE TxOpen
      <3>1. \A h \in Handles : ~stream[h].open
        BY <2>2 DEF TxOpen
      <3>2. /\ FreeHandles # {} /\ f' \in Handles /\ f' # NULL
            /\ stream' = [stream EXCEPT ![f'] = [open |-> TRUE, file |-> slot.file_name, pending |-> << >>]]
        BY <1>1, <2>2, <3>1, OpenAppendOpens DEF TxOpen
      <3>3. tx'.pc = "write" /\ tx'.file = slot.file_name /\ tx.pc = "open"
        BY <1>1, <2>2, <3>2 DEF TxOpen
      <3> QED
        BY <1>1, <2>1, <3>1, <3>2, <3>3
    <2>3. CASE TxWrite
      <3>1. tx.pc = "write" /\ tx'.pc = "close" /\ tx'.file = tx.file
        BY <1>1, <2>3 DEF TxWrite, TxGoto
      <3>2. UNCHANGED f /\ stream' = [stream EXCEPT ![f].pending = Append(@, slot.value_cmd)]
        BY <1>1, <2>3, <3>1, PutLineAppends DEF TxWrite
      <3> QED
        BY <1>1, <2>1, <3>1, <3>2 DEF Stream
    <2>4. CASE TxClose
      <3>1. tx.pc = "close" /\ tx'.pc = "wipeAll"
        BY <1>1, <2>4 DEF TxClose, TxGoto
      <3>2. /\ UNCHANGED f
            /\ stream' = [stream EXCEPT ![f] = [open |-> FALSE, file |-> stream[f].file, pending |-> << >>]]
        BY <1>1, <2>4, <3>1, CloseFileMoves DEF TxClose
      <3> QED
        BY <1>1, <2>1, <3>1, <3>2
    <2> QED
      BY <1>2, <2>2, <2>3, <2>4
  <1>3. CASE RxOpen \/ RxWrite \/ RxClose
    <2>1. UNCHANGED tx
      BY <1>3, RxKeeps DEF RxStep, txVars
    <2>2. CASE RxOpen
      <3>1. \A h \in Handles : ~stream[h].open
        BY <2>2 DEF RxOpen
      <3>2. /\ FreeHandles # {} /\ f' \in Handles /\ f' # NULL
            /\ stream' = [stream EXCEPT ![f'] = [open |-> TRUE, file |-> slot.file_name, pending |-> << >>]]
        BY <1>1, <2>2, <3>1, OpenAppendOpens DEF RxOpen
      <3>3. rx' = [pc |-> "write", file |-> slot.file_name] /\ rx.pc = "open"
        BY <2>2, <3>2 DEF RxOpen
      <3> QED
        BY <1>1, <2>1, <3>1, <3>2, <3>3
    <2>3. CASE RxWrite
      <3>1. rx.pc = "write" /\ rx'.pc = "close" /\ rx'.file = rx.file
        BY <1>1, <2>3 DEF RxWrite, RxGoto
      <3>2. /\ UNCHANGED f
            /\ stream' = [stream EXCEPT ![f].pending =
                            Append(@, [name |-> slot.function_name, proto |-> "RAW", wave |-> raw])]
        BY <1>1, <2>3, <3>1, PutLineAppends DEF RxWrite
      <3> QED
        BY <1>1, <2>1, <3>1, <3>2 DEF Stream
    <2>4. CASE RxClose
      <3>1. rx.pc = "close" /\ rx'.pc = "finish"
        BY <1>1, <2>4 DEF RxClose, RxGoto
      <3>2. /\ UNCHANGED f
            /\ stream' = [stream EXCEPT ![f] = [open |-> FALSE, file |-> stream[f].file, pending |-> << >>]]
        BY <1>1, <2>4, <3>1, CloseFileMoves DEF RxClose
      <3> QED
        BY <1>1, <2>1, <3>1, <3>2
    <2> QED
      BY <1>3, <2>2, <2>3, <2>4
  <1>4. CASE TxStart \/ TxDispatch \/ TxHavc \/ TxLookup \/ TxMatch \/ TxEmit \/ TxRaw \/ TxWipe \/ TxDone
    <2>1. UNCHANGED <<f, stream, rx>>
      BY <1>4, TxKeeps DEF TxStep, rxVars, fileVars, TxStart, TxDispatch, TxHavc, TxLookup, TxMatch,
         TxEmit, TxRaw, TxWipe, TxDone
    <2>2. tx.pc \notin {"write", "close"} /\ tx'.pc \notin {"write", "close"}
      BY <1>1, <1>4 DEF TxStart, TxDispatch, TxHavc, TxLookup, TxMatch, TxEmit, TxRaw, TxWipe, TxDone, TxGoto
    <2> QED
      BY <2>1, <2>2
  <1>5. CASE RxCapture \/ RxTimeout \/ RxSwitch \/ RxSetWait \/ RxCheck \/ RxFinish
    <2>1. UNCHANGED <<f, stream, tx>>
      BY <1>5, RxKeeps DEF RxStep, txVars, fileVars, RxCapture, RxTimeout, RxSwitch, RxSetWait, RxCheck, RxFinish
    <2>2. rx.pc \notin {"write", "close"} /\ rx'.pc \notin {"write", "close"}
      BY <1>1, <1>5 DEF RxCapture, RxTimeout, RxSwitch, RxSetWait, RxCheck, RxFinish, RxGoto
    <2> QED
      BY <2>1, <2>2
  <1>6. CASE ChanStep
    <2>1. UNCHANGED <<flash, f, stream>>
      BY <1>6, ChanKeepsFiles
    <2> QED
      BY <1>6, <2>1, ChanKeeps DEF rxVars, txVars
  <1>7. CASE PlantStep
    <2>1. UNCHANGED fileVars
      BY <1>7 DEF PlantStep, PlantEnable, PlantStart, PlantDisable, PlantStop
    <2> QED
      BY <1>7, <2>1, PlantKeeps DEF fileVars, rxVars, txVars
  <1>8. CASE ChanReceive \/ BleMessage \/ FrameArrives \/ UNCHANGED vars
    BY <1>8 DEF ChanReceive, BleMessage, FrameArrives, vars, fileVars, rxVars, txVars
  <1> QED
    BY <1>2, <1>3, <1>4, <1>5, <1>6, <1>7, <1>8 DEF Next, TxStep, RxStep

\* Initially every stream is closed.
LEMMA InitFiles == Init => FilesInv
  <1> SUFFICES ASSUME Init PROVE FilesInv
    OBVIOUS
  <1>1. stream = [h \in Handles |-> [open |-> FALSE, file |-> "", pending |-> << >>]]
    BY DEF Init, FileInit
  <1>2. tx.pc = "idle" /\ rx.pc = "poll"
    BY DEF Init
  <1>3. \A h \in Handles : ~stream[h].open
    BY <1>1
  <1> QED
    BY <1>2, <1>3 DEF FilesInv, SaveUsesOwnFile

\* The shared handle is all that can go wrong between fopen and fclose: in
\* every behaviour in which the transmit and the receive task never save at
\* the same time, logger_file_save_cmd writes to the file it opened.
THEOREM OwnFileUnlessBothSave == Spec /\ []Exclusive => []SaveUsesOwnFile
  <1>1. Init => FilesInv
    BY InitFiles
  <1>2. TypeInv /\ Exclusive /\ FilesInv /\ [Next]_vars => FilesInv'
    BY NextFiles
  <1>3. FilesInv => SaveUsesOwnFile
    BY DEF FilesInv
  <1> QED
    BY <1>1, <1>2, <1>3, TypeInvHolds, PTL DEF Spec

\* With a user who waits the two tasks save in turns.
LEMMA FilesInvHolds ==
  ASSUME Spaced
  PROVE  Spec => []FilesInv
  <1>1. TurnInv => Exclusive
    BY DEF TurnInv, Exclusive, TxSaving, RxSaving
  <1>2. Init => FilesInv
    BY InitFiles
  <1>3. TypeInv /\ Exclusive /\ FilesInv /\ [Next]_vars => FilesInv'
    BY NextFiles
  <1> QED
    BY <1>1, <1>2, <1>3, TypeInvHolds, TurnInvHolds, PTL DEF Spec

\* So a learned line goes to its own file for a user who waits, who may send
\* commands and save lines too.
THEOREM WaitingUserOwnFile ==
  ASSUME Spaced
  PROVE  Spec => []SaveUsesOwnFile
  <1>1. FilesInv => SaveUsesOwnFile
    BY DEF FilesInv
  <1> QED
    BY <1>1, FilesInvHolds, PTL

----------------------------------------------------------------------------
(* What was learned is stored.                                               *)

\* The line a new_cmd stores: the asked name with what is in ir_raw_data.
LearnedLine == [name |-> asked.name, proto |-> "RAW", wave |-> raw]

\* The slot holds the names of the new_cmd being saved; the remote's file does
\* not know the name, and the stream it was opened with holds nothing before
\* fputs and the learned line after it.
LearnInv ==
  /\ chan.pc = "second" /\ chan.msg.kind = "new_cmd" => slot.file_name = chan.msg.file
  /\ chan.pc \in {"look", "accept"} =>
       slot.file_name = chan.msg.file /\ slot.function_name = chan.msg.name
  /\ cmd = "ACCEPT" => slot.file_name = asked.file /\ slot.function_name = asked.name
  /\ rx.pc \in {"write", "close"} => rx.file = asked.file
  /\ rx.pc \in {"open", "write", "close"} => ~Known(asked.file, asked.name)
  /\ rx.pc = "write" => stream[f].pending = << >>
  /\ rx.pc = "close" => stream[f].pending = <<LearnedLine>>

\* While nothing is being written fopen finds a free stream.
LEMMA RestFindsStream ==
  ASSUME FilesInv, tx.pc \notin {"write", "close"}, rx.pc \notin {"write", "close"}
  PROVE  FreeHandles # {} /\ \A h \in Handles : ~stream[h].open
  <1>1. \A h \in Handles : ~stream[h].open
    BY DEF FilesInv
  <1>2. MaxOpen \in Nat \ {0}
    BY FileAssumption
  <1>3. 1 \in Handles
    BY <1>2 DEF Handles
  <1> QED
    BY <1>1, <1>3 DEF FreeHandles

\* What the receive task finds when it tests the name, and what fputs leaves
\* pending.
LEMMA RxStepLearn ==
  ASSUME TypeInv, TurnInv, FilesInv, LearnInv, RxStep
  PROVE  LearnInv'
  <1> USE DEF LearnInv, RxGoto
  <1>1. UNCHANGED <<chan, asked, slot>>
    <2>1. UNCHANGED <<chan, asked>>
      BY RxKeeps DEF chanVars
    <2>2. UNCHANGED slot
      BY DEF RxStep, RxCapture, RxTimeout, RxSwitch, RxSetWait, RxCheck, RxOpen, RxWrite, RxClose,
         RxFinish, slotVars
    <2> QED
      BY <2>1, <2>2
  <1>2. /\ rx \in [pc : RxPcs, file : FileNames]
        /\ stream \in [Handles -> Stream] /\ f \in Handles \union {NULL}
        /\ FileTypeOK /\ slot.file_name \in FileNames
        /\ [name |-> slot.function_name, proto |-> "RAW", wave |-> raw] \in Line
    BY DEF TypeInv, TypeOK, FileTypeOK, RxTypeOK, SlotTypeOK, Line
  <1>3. CASE RxCapture \/ RxTimeout \/ RxSetWait
    <2>1. rx'.pc \in {"poll", "switch"} /\ (cmd' = cmd \/ cmd' = "WATTING")
      BY <1>2, <1>3 DEF RxCapture, RxTimeout, RxSetWait, slotVars
    <2> QED
      BY <1>1, <2>1
  <1>4. CASE RxSwitch
    <2>1. rx'.pc \in {"setwait", "poll", "check"} /\ cmd' = cmd
      BY <1>2, <1>4 DEF RxSwitch, slotVars
    <2> QED
      BY <1>1, <2>1
  <1>5. CASE RxCheck
    <2>1. CASE HasCommand(slot.file_name, slot.function_name)
      <3>1. rx'.pc = "finish" /\ cmd' = cmd
        BY <1>2, <1>5, <2>1 DEF RxCheck, slotVars
      <3> QED
        BY <1>1, <3>1
    <2>2. cmd = "ACCEPT" /\ UNCHANGED <<cmd, flash>> /\ tx.pc = "idle" /\ rx.pc = "check"
      BY <1>5 DEF RxCheck, slotVars, fileVars, TurnInv
    <2>3. slot.file_name = asked.file /\ slot.function_name = asked.name
      BY <2>2
    <2>4. FreeHandles # {}
      BY <2>2, RestFindsStream
    <2>5. CASE ~HasCommand(slot.file_name, slot.function_name)
      <3>1. rx'.pc = "open"
        BY <1>2, <1>5, <2>5 DEF RxCheck
      <3>2. ~Known(asked.file, asked.name)'
        BY <1>1, <2>2, <2>3, <2>4, <2>5 DEF HasCommand, Known
      <3> QED
        BY <1>1, <2>2, <3>1, <3>2
    <2> QED
      BY <2>1, <2>5
  <1>6. CASE RxOpen
    <2>1. rx.pc = "open" /\ tx.pc = "idle" /\ cmd = "ACCEPT" /\ cmd' = cmd
      BY <1>6 DEF RxOpen, TurnInv, slotVars
    <2>2. FreeHandles # {} /\ \A h \in Handles : ~stream[h].open
      BY <2>1, RestFindsStream
    <2>3. /\ f' \in Handles
          /\ stream' = [stream EXCEPT ![f'] = [open |-> TRUE, file |-> slot.file_name, pending |-> << >>]]
      BY <1>2, <1>6, <2>2, OpenAppendOpens DEF RxOpen
    <2>4. stream'[f'].pending = << >>
      BY <1>2, <2>3
    <2>5. rx' = [pc |-> "write", file |-> slot.file_name] /\ UNCHANGED flash
      BY <1>6, <2>2 DEF RxOpen, OpenAppend
    <2> QED
      BY <1>1, <2>1, <2>4, <2>5 DEF Known
  <1>7. CASE RxWrite
    <2> DEFINE line == [name |-> slot.function_name, proto |-> "RAW", wave |-> raw]
    <2>1. rx.pc = "write" /\ rx'.pc = "close" /\ rx'.file = rx.file /\ cmd = "ACCEPT" /\ cmd' = cmd
          /\ UNCHANGED raw
      BY <1>2, <1>7 DEF RxWrite, TurnInv, slotVars
    <2>2. UNCHANGED <<f, flash>> /\ stream' = [stream EXCEPT ![f].pending = Append(@, line)]
      BY <1>2, <1>7, <2>1, PutLineAppends DEF RxWrite, FilesInv, SaveUsesOwnFile
    <2>3. f \in Handles /\ stream[f].pending = << >>
      BY <1>2, <2>1 DEF FilesInv, SaveUsesOwnFile
    <2>4. stream'[f'].pending = Append(stream[f].pending, line)
      BY <1>2, <2>2, <2>3 DEF Stream
    <2>5. line = LearnedLine'
      BY <1>1, <2>1 DEF LearnedLine
    <2>6. Append(<< >>, line) = <<line>>
      OBVIOUS
    <2>7. stream'[f'].pending = <<LearnedLine'>>
      BY <2>3, <2>4, <2>5, <2>6
    <2> QED
      BY <1>1, <2>1, <2>2, <2>7 DEF Known
  <1>8. CASE RxClose \/ RxFinish
    <2>1. rx'.pc \in {"finish", "poll"} /\ (cmd' = cmd \/ cmd' = "LEARN")
      BY <1>2, <1>8 DEF RxClose, RxFinish, slotVars
    <2> QED
      BY <1>1, <2>1
  <1> QED
    BY <1>3, <1>4, <1>5, <1>6, <1>7, <1>8 DEF RxStep

\* Every step of a device with a user who waits keeps LearnInv.
LEMMA NextLearn ==
  ASSUME Spaced, TypeInv, ParserAt, TurnInv, FilesInv, LearnInv, [Next]_vars
  PROVE  LearnInv'
  <1> USE DEF LearnInv
  <1>1. CASE ChanReceive
    <2>1. rx'.pc = "poll" /\ cmd' # "ACCEPT"
      BY <1>1 DEF ChanReceive, Settled, rxVars, slotVars
    <2>2. chan'.pc \in {"type", "idle"}
      BY <1>1 DEF ChanReceive
    <2> QED
      BY <2>1, <2>2
  <1>2. CASE BleMessage \/ FrameArrives
    <2>1. rx'.pc = "poll" /\ cmd' # "ACCEPT" /\ chan'.pc = "idle"
      BY <1>2 DEF BleMessage, FrameArrives, Settled, rxVars, slotVars
    <2> QED
      BY <2>1
  <1>3. CASE ChanStep
    <2> USE DEF ChanGoto
    <2>1. chan \in [pc : ChanPcs, msg : Messages] /\ chan.msg \in Message
      BY MessageIsTyped DEF TypeInv, TypeOK, ChanTypeOK
    <2>2. UNCHANGED <<rx, asked>> /\ rx.pc \in {"poll", "switch"} /\ cmd # "ACCEPT" /\ asked = chan.msg
      <3>1. UNCHANGED <<rx, asked>>
        BY <1>3, ChanKeeps DEF rxVars, ChanStep, ChanType, ChanFault, ChanNames, ChanSecond,
           ChanPayload, ChanIrState, ChanControl, ChanLearn, ChanEndLearn, ChanLook, ChanAccept, chanVars
      <3> QED
        BY <1>3, <3>1, ChanActs DEF TurnInv, RxQuiet
    <2>7. slot \in [file_name : FileNames, function_name : LineNames,
                    type_cmd : Kinds \union Names \union {""}, value_cmd : Line, ac : AcSettings]
      BY DEF TypeInv, TypeOK, SlotTypeOK
    <2>3. CASE ChanType
      <3>1. AfterType(chan.msg) \notin {"second", "look", "accept"}
        BY <2>1 DEF AfterType, Message
      <3> QED
        BY <2>1, <2>2, <2>3, <3>1 DEF ChanType
    <2>4. CASE ChanNames
      <3>1. chan'.pc = "second" /\ chan'.msg = chan.msg /\ cmd' = cmd
        BY <2>1, <2>4 DEF ChanNames
      <3>2. chan.msg.kind = "new_cmd" => slot'.file_name = chan.msg.file
        BY <2>4, <2>7 DEF ChanNames, FileFirst, StoreFile
      <3> QED
        BY <2>2, <3>1, <3>2
    <2>8. CASE ChanSecond
      <3>1. chan'.pc \in {"look", "payload"} /\ chan'.msg = chan.msg /\ cmd' = cmd
            /\ (chan'.pc = "look" => chan.msg.kind = "new_cmd") /\ chan.pc = "second"
        BY <2>1, <2>8 DEF ChanSecond
      <3>2. chan.msg.kind = "new_cmd" =>
              slot'.function_name = chan.msg.name /\ slot'.file_name = slot.file_name
        BY <2>7, <2>8 DEF ChanSecond, FileFirst, StoreFunction
      <3> QED
        BY <2>2, <3>1, <3>2
    <2>9. CASE ChanFault
      BY <2>2, <2>9 DEF ChanFault, slotVars, chanVars
    <2>5. CASE ChanPayload \/ ChanIrState \/ ChanControl \/ ChanLearn \/ ChanEndLearn
      <3>1. chan'.pc \in {"idle", "cmd", "irState"} /\ cmd' # "ACCEPT"
        BY <2>1, <2>2, <2>5 DEF ChanPayload, ChanIrState, ChanControl, ChanLearn, ChanEndLearn
      <3> QED
        BY <2>2, <3>1
    <2>6. CASE ChanLook
      BY <2>1, <2>2, <2>6 DEF ChanLook, slotVars
    <2>10. CASE ChanAccept
      BY <2>1, <2>2, <2>10 DEF ChanAccept
    <2> QED
      BY <1>3, <2>3, <2>4, <2>5, <2>6, <2>8, <2>9, <2>10 DEF ChanStep
  <1>4. CASE TxStep
    <2>1. cmd = "CTRL"
      BY <1>4 DEF TurnInv, TxStep, TxStart, TxDispatch, TxHavc, TxLookup, TxMatch, TxEmit, TxRaw, TxOpen,
         TxWrite, TxClose, TxWipe, TxDone
    <2>2. UNCHANGED <<rx, chan>> /\ cmd' # "ACCEPT"
      BY <1>4, <2>1, TxKeeps DEF rxVars, chanVars
    <2> QED
      BY <2>1, <2>2 DEF TurnInv, RxQuiet
  <1>5. CASE PlantStep \/ UNCHANGED vars
    <2>1. UNCHANGED <<fileVars, slot, cmd, rx, raw, chan, asked>>
      BY <1>5, PlantKeeps DEF PlantStep, PlantEnable, PlantStart, PlantDisable, PlantStop,
         vars, slotVars, rxVars, chanVars
    <2> QED
      BY <2>1 DEF Known, LearnedLine, fileVars
  <1> QED
    BY <1>1, <1>2, <1>3, <1>4, <1>5, RxStepLearn DEF Next

\* The receive task reaches the end of a new_cmd by the test of the name, which
\* found it, or by fclose, which appends what is pending.
LEMMA NextLearned ==
  ASSUME TypeInv, TurnInv, FilesInv, LearnInv, [Next]_vars, rx.pc # "finish", rx'.pc = "finish"
  PROVE  IF Known(asked.file, asked.name)
         THEN UNCHANGED flash
         ELSE flash' = [flash EXCEPT ![asked.file] = Append(@, LearnedLine)]
  <1>1. RxCheck \/ RxOpen \/ RxClose
    <2>1. rx \in [pc : RxPcs, file : FileNames]
      BY DEF TypeInv, TypeOK, RxTypeOK
    <2>2. UNCHANGED rx => FALSE
      OBVIOUS
    <2>3. RxStep
      BY <2>2, ChanKeeps, TxKeeps, PlantKeeps
         DEF Next, ChanReceive, BleMessage, FrameArrives, rxVars, vars
    <2>4. ~(RxCapture \/ RxTimeout \/ RxSwitch \/ RxSetWait \/ RxWrite \/ RxFinish)
      BY <2>1 DEF RxCapture, RxTimeout, RxSwitch, RxSetWait, RxWrite, RxFinish, RxGoto
    <2> QED
      BY <2>3, <2>4 DEF RxStep
  <1>2. /\ rx.pc \in {"check", "open", "close"} /\ tx.pc = "idle"
        /\ slot.file_name = asked.file /\ slot.function_name = asked.name
    BY <1>1 DEF RxCheck, RxOpen, RxClose, TurnInv, LearnInv
  <1>3. CASE RxCheck
    <2>1. rx \in [pc : RxPcs, file : FileNames]
      BY DEF TypeInv, TypeOK, RxTypeOK
    <2>2. HasCommand(slot.file_name, slot.function_name) /\ UNCHANGED flash
      BY <1>3, <2>1 DEF RxCheck, RxGoto, fileVars
    <2> QED
      BY <1>2, <2>2 DEF HasCommand, Known
  <1>4. CASE RxOpen
    <2>1. FreeHandles # {}
      BY <1>2, <1>4, RestFindsStream DEF RxOpen
    <2> QED
      BY <1>4, <2>1 DEF RxOpen
  <1>5. CASE RxClose
    <2>1. /\ rx.pc = "close" /\ ~Known(asked.file, asked.name)
          /\ f # NULL /\ stream[f].open /\ stream[f].file = asked.file
          /\ stream[f].pending = <<LearnedLine>>
      BY <1>5 DEF RxClose, LearnInv, FilesInv, SaveUsesOwnFile
    <2>2. flash' = [flash EXCEPT ![asked.file] = @ \o <<LearnedLine>>]
      BY <1>5, <2>1, CloseFileMoves DEF RxClose, TypeInv, TypeOK
    <2>3. flash[asked.file] \in Seq(Line) /\ LearnedLine \in Line
      <3>1. asked.file \in FileNames /\ asked.name \in LineNames
        BY MessageIsTyped DEF TypeInv, TypeOK, ChanTypeOK
      <3> QED
        BY <3>1 DEF TypeInv, TypeOK, FileTypeOK, RxTypeOK, LearnedLine, Line
    <2>4. flash[asked.file] \o <<LearnedLine>> = Append(flash[asked.file], LearnedLine)
      BY <2>3
    <2> QED
      BY <2>1, <2>2, <2>4
  <1> QED
    BY <1>1, <1>3, <1>4, <1>5

\* A new_cmd of a user who waits ends with the captured pulses as the one line
\* of the asked name in the asked remote's file, or finds the name there and
\* writes nothing (logger_file_save_cmd).
THEOREM WhatIsLearnedIsStored ==
  ASSUME Spaced
  PROVE  Spec => LearnedIsStored
  <1>1. Init => LearnInv
    <2> SUFFICES ASSUME Init PROVE LearnInv
      OBVIOUS
    <2>1. PICK m \in Messages : chan = [pc |-> "idle", msg |-> m]
      BY DEF Init
    <2>2. chan.pc = "idle" /\ cmd = "NONE" /\ rx.pc = "poll"
      BY <2>1 DEF Init
    <2> QED
      BY <2>2 DEF LearnInv
  <1>2. TypeInv /\ ParserAt /\ TurnInv /\ FilesInv /\ LearnInv /\ [Next]_vars => LearnInv'
    BY NextLearn
  <1>3. TypeInv /\ TurnInv /\ FilesInv /\ LearnInv /\ [Next]_vars
          => [rx.pc # "finish" /\ rx'.pc = "finish" /\ asked.kind = "new_cmd" =>
                IF Known(asked.file, asked.name)
                THEN UNCHANGED flash
                ELSE flash' = [flash EXCEPT ![asked.file] =
                        Append(@, [name |-> asked.name, proto |-> "RAW", wave |-> raw])]]_vars
    BY NextLearned DEF LearnedLine
  <1> QED
    BY <1>1, <1>2, <1>3, TypeInvHolds, ParserAtHolds, TurnInvHolds, FilesInvHolds, PTL
       DEF Spec, LearnedIsStored

----------------------------------------------------------------------------
(* What is sent was asked.                                                   *)

\* A set of positions in a file has a last one.
LEMMA LastPosition ==
  ASSUME NEW n \in Nat, NEW S \in SUBSET (1 .. n), S # {}
  PROVE  \E i \in S : \A j \in S : j <= i
  <1> DEFINE T == {n - i : i \in S}
  <1>1. T \subseteq Nat /\ T # {}
    <2>1. \A i \in S : i \in 1 .. n /\ n - i \in Nat /\ n - i \in T
      OBVIOUS
    <2>2. T \subseteq Nat
      BY <2>1
    <2> QED
      BY <2>1, <2>2
  <1>2. PICK x \in T : \A y \in T : ~(<<y, x>> \in OpToRel(<, Nat))
    BY <1>1, WFMin, NatLessThanWellFounded
  <1>3. PICK i \in S : x = n - i
    BY <1>2
  <1>4. \A j \in S : ~(n - j < x)
    BY <1>1, <1>2 DEF OpToRel
  <1>5. \A j \in S : j \in Nat /\ i \in Nat /\ ~(n - j < n - i)
    BY <1>3, <1>4
  <1>6. \A j \in S : j <= i
    <2> HIDE DEF T
    <2> QED BY <1>5
  <1> QED
    BY <1>6

\* logger_file_read_cmd returns the newest line of a name, or an empty line.
LEMMA ReadsNewest ==
  ASSUME FileTypeOK, FreeHandles # {}, NEW file \in FileNames, NEW name,
         NEW named, named = {i \in DOMAIN flash[file] : flash[file][i].name = name}
  PROVE  /\ named = {} => ReadCommand(file, name) = NoLine
         /\ named # {} => ReadCommand(file, name) =
                            flash[file][CHOOSE i \in named : \A j \in named : j <= i]
  <1> DEFINE IsLast(i) == /\ flash[file][i].name = name
                          /\ \A j \in DOMAIN flash[file] : flash[file][j].name = name => j <= i
  <1>1. flash[file] \in Seq(Line)
    BY DEF FileTypeOK
  <1>2. CASE named = {}
    BY <1>2 DEF ReadCommand
  <1>3. CASE named # {}
    <2>1. named \in SUBSET (1 .. Len(flash[file])) /\ Len(flash[file]) \in Nat
      BY <1>1
    <2>2. PICK i \in named : \A j \in named : j <= i
      BY <1>3, <2>1, LastPosition
    <2>3. i \in DOMAIN flash[file] /\ IsLast(i)
      BY <2>2
    <2>4. \A k \in DOMAIN flash[file] : IsLast(k) => k = i
      BY <2>1, <2>2, <2>3
    <2>5. (CHOOSE k \in DOMAIN flash[file] : IsLast(k)) = i
      BY <2>3, <2>4
    <2>6. \A k \in named : (\A j \in named : j <= k) => k = i
      BY <2>1, <2>2
    <2>7. (CHOOSE k \in named : \A j \in named : j <= k) = i
      BY <2>2, <2>6
    <2>8. ReadCommand(file, name) = flash[file][i]
      BY <2>3, <2>5 DEF ReadCommand
    <2> QED
      BY <1>3, <2>7, <2>8
  <1> QED
    BY <1>2, <1>3

\* The fields of the slot that the execution of message m reads.
Carries(m) ==
  /\ slot.file_name = m.file /\ slot.function_name = m.trans
  /\ m.trans = "HAVC" => slot.ac = m.ac
  /\ m.trans = "NORMAL" => slot.type_cmd = m.name
  /\ m.trans \in {"RAW", "LEARN"} => slot.value_cmd = m.line

\* The steps of the transmit task up to the first memset: from the names on,
\* the slot follows the message; a keyword stands in it
\* only on the way to the transmit task and until that task has wiped it.
Intact == {"idle", "dispatch", "havc", "lookup", "match", "emit", "raw", "open", "write", "close"}

SlotInv ==
  /\ chan.pc = "second" =>
       IF FileFirst(chan.msg) THEN slot.file_name = chan.msg.file
       ELSE slot.function_name = chan.msg.trans
  /\ chan.pc = "payload" => slot.file_name = chan.msg.file /\ slot.function_name = chan.msg.trans
  /\ chan.pc = "cmd" /\ Executable(chan.msg) => Carries(chan.msg)
  /\ cmd = "CTRL" /\ tx.pc \in Intact /\ Executable(asked) => Carries(asked)
  /\ slot.function_name \in Keywords =>
       \/ chan.pc \in {"second", "payload", "cmd"} /\ Executable(chan.msg)
       \/ cmd = "CTRL" /\ tx.pc # "done" /\ Executable(asked)

\* The transmit task's step and locals are those the message asked for.
SentInv ==
  /\ tx.pc \in {"dispatch", "havc", "lookup", "match", "emit", "raw"} => sent = NothingSent
  /\ tx.pc = "havc" => Executable(asked) /\ asked.trans = "HAVC"
  /\ tx.pc \in {"lookup", "match", "emit"} => Executable(asked) /\ asked.trans = "NORMAL"
  /\ tx.pc = "match" => tx.file = asked.file
  /\ tx.pc = "emit" => tx.line = ReadCommand(asked.file, asked.name)
  /\ tx.pc = "raw" => Executable(asked) /\ asked.trans = "RAW"
  /\ tx.pc \in {"open", "write", "close"} => asked.kind = "save_file"
  /\ SentIsAsked

\* The parser stores the message in the slot before it stores E_CMD_CTRL.
LEMMA ChanStepSlot ==
  ASSUME Names \cap Keywords = {}, TypeInv, ParserAt, TurnInv, SlotInv, ChanStep
  PROVE  SlotInv'
  <1> USE DEF SlotInv, ChanGoto
  <1>1. chan \in [pc : ChanPcs, msg : Messages] /\ chan.msg \in Message
    BY MessageIsTyped DEF TypeInv, TypeOK, ChanTypeOK
  <1>2. slot \in [file_name : FileNames, function_name : LineNames,
                  type_cmd : Kinds \union Names \union {""}, value_cmd : Line, ac : AcSettings]
    BY DEF TypeInv, TypeOK, SlotTypeOK
  <1>3. UNCHANGED <<tx, asked>> /\ tx.pc = "idle" /\ cmd \notin {"CTRL", "ACCEPT"} /\ asked = chan.msg
    <2>1. UNCHANGED <<tx, asked>>
      BY ChanKeeps DEF txVars, chanVars, ChanStep, ChanType, ChanFault, ChanNames, ChanSecond,
         ChanPayload, ChanIrState, ChanControl, ChanLearn, ChanEndLearn, ChanLook, ChanAccept
    <2> QED
      BY <2>1, ChanActs DEF TurnInv
  <1>4. CASE ChanType
    <2>1. AfterType(chan.msg) = "cmd" => ~Executable(chan.msg)
      BY DEF Executable
    <2>2. AfterType(chan.msg) \notin {"second", "payload"}
      BY <1>1 DEF AfterType, Message
    <2>3. slot.function_name \notin Keywords
      BY <1>3, <1>4 DEF ChanType
    <2>4. UNCHANGED cmd /\ chan' = [chan EXCEPT !.pc = AfterType(chan.msg)]
          /\ slot'.function_name = slot.function_name
      BY <1>2, <1>4 DEF ChanType, StoreType
    <2> QED
      BY <1>1, <1>3, <2>1, <2>2, <2>3, <2>4
  <1>0. chan.pc \in {"names", "second"} /\ chan.msg.kind # "new_cmd" => Executable(chan.msg)
    BY DEF ParserAt
  <1>5. CASE ChanNames
    <2>1. chan'.pc = "second" /\ chan'.msg = chan.msg /\ UNCHANGED cmd /\ chan.pc = "names"
      BY <1>1, <1>5 DEF ChanNames
    <2>2. slot.function_name \notin Keywords
      BY <1>3, <2>1
    <2>3. CASE FileFirst(chan.msg)
      <3>1. slot'.file_name = chan.msg.file /\ slot'.function_name = slot.function_name
        BY <1>2, <1>5, <2>3 DEF ChanNames, StoreFile
      <3> QED
        BY <1>3, <2>1, <2>2, <2>3, <3>1
    <2>4. CASE ~FileFirst(chan.msg)
      <3>1. chan.msg.kind # "new_cmd"
        BY <2>4 DEF FileFirst
      <3>2. slot'.function_name = chan.msg.trans
        BY <1>2, <1>5, <2>4, <3>1 DEF ChanNames, StoreFunction
      <3> QED
        BY <1>0, <1>3, <2>1, <2>4, <3>1, <3>2
    <2> QED
      BY <2>3, <2>4
  <1>11. CASE ChanSecond
    <2>1. /\ chan'.pc = (IF chan.msg.kind = "new_cmd" THEN "look" ELSE "payload")
          /\ chan'.msg = chan.msg /\ UNCHANGED cmd /\ chan.pc = "second"
      BY <1>1, <1>11 DEF ChanSecond
    <2>2. CASE chan.msg.kind = "new_cmd"
      <3>1. slot'.function_name \in Names
        BY <1>1, <1>2, <1>11, <2>2 DEF ChanSecond, FileFirst, StoreFunction, Message
      <3> QED
        BY <1>3, <2>1, <2>2, <3>1
    <2>3. CASE chan.msg.kind # "new_cmd"
      <3>1. slot'.file_name = chan.msg.file /\ slot'.function_name = chan.msg.trans
        BY <1>2, <1>11, <2>1, <2>3 DEF ChanSecond, FileFirst, StoreFile, StoreFunction
      <3> QED
        BY <1>0, <1>3, <2>1, <2>3, <3>1
    <2> QED
      BY <2>2, <2>3
  <1>12. CASE ChanFault
    BY <1>3, <1>12 DEF ChanFault, slotVars, chanVars, Carries
  <1>6. CASE ChanPayload
    <2>1. Executable(chan.msg)
      BY <1>6 DEF ChanPayload, ParserAt
    <2>2. chan'.pc = "cmd" /\ chan'.msg = chan.msg /\ cmd' = cmd
      BY <1>1, <1>6 DEF ChanPayload
    <2>3. Carries(chan.msg)'
      <3>1. slot.file_name = chan.msg.file /\ slot.function_name = chan.msg.trans
        BY <1>6 DEF ChanPayload
      <3>2. CASE chan.msg.trans = "HAVC"
        BY <1>2, <1>6, <2>2, <3>1, <3>2 DEF ChanPayload, Carries
      <3>3. CASE chan.msg.trans = "NORMAL"
        BY <1>2, <1>6, <2>2, <3>1, <3>3 DEF ChanPayload, Carries
      <3>4. CASE chan.msg.trans \in {"RAW", "LEARN"}
        BY <1>2, <1>6, <2>2, <3>1, <3>4 DEF ChanPayload, Carries
      <3> QED
        BY <1>6, <3>2, <3>3, <3>4 DEF ChanPayload
    <2> QED
      BY <1>3, <2>1, <2>2, <2>3 DEF Executable, Carries
  <1>7. CASE ChanIrState
    <2>1. chan'.pc \in {"cmd", "idle"} /\ chan'.msg = chan.msg /\ UNCHANGED <<cmd, slot>> /\ chan.pc = "irState"
      BY <1>1, <1>7 DEF ChanIrState
    <2>2. chan'.pc = "cmd" => ~Executable(chan.msg)
      BY <1>1, <1>7 DEF ChanIrState, Executable
    <2> QED
      BY <1>3, <2>1, <2>2
  <1>8. CASE ChanControl
    <2>1. /\ cmd' = "CTRL" /\ UNCHANGED slot /\ chan'.pc = "idle" /\ chan.pc = "cmd"
      BY <1>1, <1>8 DEF ChanControl
    <2>2. Executable(asked) => Carries(asked)'
      BY <1>3, <2>1 DEF Carries
    <2>3. slot.function_name \in Keywords => Executable(asked)
      BY <1>3, <2>1
    <2> QED
      BY <1>3, <2>1, <2>2, <2>3
  <1>9. CASE ChanLearn \/ ChanEndLearn
    <2>1. cmd' # "CTRL" /\ UNCHANGED slot /\ chan'.pc \in {"idle", "irState"} /\ chan.pc = "cmd"
          /\ ~Executable(chan.msg)
      BY <1>1, <1>9 DEF ChanLearn, ChanEndLearn, Executable
    <2> QED
      BY <1>3, <2>1
  <1>10. CASE ChanLook \/ ChanAccept
    <2>1. cmd' # "CTRL" /\ UNCHANGED slot /\ chan'.pc \in {"idle", "accept"} /\ chan.pc \in {"look", "accept"}
      BY <1>1, <1>3, <1>10 DEF ChanLook, ChanAccept, slotVars
    <2> QED
      BY <1>3, <2>1
  <1> QED
    BY <1>4, <1>5, <1>6, <1>7, <1>8, <1>9, <1>10, <1>11, <1>12 DEF ChanStep

\* The transmit task wipes the slot before it is done.
LEMMA TxStepSlot ==
  ASSUME TypeInv, TurnInv, SlotInv, TxStep
  PROVE  SlotInv'
  <1> USE DEF SlotInv
  <1>1. /\ tx \in [pc : TxPcs, file : FileNames, line : Line]
        /\ slot \in [file_name : FileNames, function_name : LineNames,
                     type_cmd : Kinds \union Names \union {""}, value_cmd : Line, ac : AcSettings]
    BY DEF TypeInv, TypeOK, TxTypeOK, SlotTypeOK
  <1>2. UNCHANGED <<chan, asked>> /\ cmd = "CTRL" /\ chan.pc = "idle"
    BY TxKeeps DEF chanVars, TurnInv, TxStep, TxStart, TxDispatch, TxHavc, TxLookup, TxMatch, TxEmit,
       TxRaw, TxOpen, TxWrite, TxClose, TxWipe, TxDone
  <1>3. CASE TxStart \/ TxDispatch \/ TxHavc \/ TxLookup \/ TxMatch \/ TxEmit \/ TxRaw
             \/ TxOpen \/ TxWrite \/ TxClose
    <2>1. UNCHANGED <<slot, cmd>> /\ tx.pc \in Intact
      BY <1>3 DEF TxStart, TxDispatch, TxHavc, TxLookup, TxMatch, TxEmit, TxRaw, TxOpen, TxWrite,
         TxClose, slotVars, Intact
    <2>2. tx'.pc # "done"
      BY <1>1, <1>3 DEF TxStart, TxDispatch, TxHavc, TxLookup, TxMatch, TxEmit, TxRaw, TxOpen,
         TxWrite, TxClose, TxGoto
    <2> QED
      BY <1>2, <2>1, <2>2 DEF Carries
  <1>4. CASE TxWipe
    <2>1. /\ tx'.pc \notin Intact /\ UNCHANGED cmd /\ tx.pc # "done"
          /\ \/ slot'.function_name = slot.function_name /\ tx'.pc # "done"
             \/ slot'.function_name = ""
      BY <1>1, <1>4 DEF TxWipe, TxGoto, Intact
    <2> QED
      BY <1>2, <2>1 DEF Keywords
  <1>5. CASE TxDone
    <2>1. cmd' = "NONE" /\ UNCHANGED slot /\ tx.pc = "done"
      BY <1>5 DEF TxDone
    <2> QED
      BY <1>2, <2>1
  <1> QED
    BY <1>3, <1>4, <1>5 DEF TxStep

\* Every step of a device with a user who waits keeps SlotInv.
LEMMA NextSlot ==
  ASSUME Spaced, Names \cap Keywords = {}, TypeInv, ParserAt, TurnInv, SlotInv, [Next]_vars
  PROVE  SlotInv'
  <1> USE DEF SlotInv
  <1>1. CASE ChanReceive
    <2>1. Settled /\ UNCHANGED <<cmd, slot, tx>>
      BY <1>1 DEF ChanReceive, slotVars, txVars
    <2>2. chan'.pc \in {"type", "idle"}
      BY <1>1 DEF ChanReceive
    <2> QED
      BY <2>1, <2>2 DEF Settled
  <1>2. CASE BleMessage
    <2>1. Settled /\ UNCHANGED <<cmd, chan>>
      BY <1>2 DEF BleMessage
    <2>2. slot'.function_name = slot.function_name
      BY <1>2 DEF BleMessage, StoreType, TypeInv, TypeOK, SlotTypeOK
    <2> QED
      BY <2>1, <2>2 DEF Settled
  <1>3. CASE FrameArrives \/ PlantStep \/ UNCHANGED vars
    <2>1. UNCHANGED <<slot, cmd, tx, chan, asked>>
      BY <1>3, PlantKeeps DEF FrameArrives, vars, slotVars, txVars, chanVars
    <2> QED
      BY <2>1 DEF Carries
  <1>4. CASE RxStep
    <2>1. UNCHANGED <<slot, tx, chan, asked>>
      BY <1>4, RxKeeps DEF chanVars, txVars, RxStep, RxCapture, RxTimeout, RxSwitch, RxSetWait, RxCheck,
         RxOpen, RxWrite, RxClose, RxFinish, slotVars
    <2>2. \/ cmd' = cmd
          \/ cmd' # "CTRL" /\ rx.pc \in {"setwait", "finish"}
      BY <1>4 DEF RxStep, RxCapture, RxTimeout, RxSwitch, RxSetWait, RxCheck,
         RxOpen, RxWrite, RxClose, RxFinish, slotVars
    <2>3. rx.pc \in {"setwait", "finish"} => cmd # "CTRL"
      BY DEF TurnInv
    <2> QED
      BY <2>1, <2>2, <2>3 DEF Carries
  <1> QED
    BY <1>1, <1>2, <1>3, <1>4, ChanStepSlot, TxStepSlot DEF Next

\* With a user who waits, SlotInv holds for ever.
LEMMA SlotInvHolds ==
  ASSUME Spaced, Names \cap Keywords = {}
  PROVE  Spec => []SlotInv
  <1>1. Init => SlotInv
    <2> SUFFICES ASSUME Init PROVE SlotInv
      OBVIOUS
    <2>1. PICK m \in Messages : chan = [pc |-> "idle", msg |-> m]
      BY DEF Init
    <2>2. PICK ac \in AcSettings :
            slot = [file_name |-> "", function_name |-> "", type_cmd |-> "",
                    value_cmd |-> NoLine, ac |-> ac]
      BY DEF Init
    <2>3. chan.pc = "idle" /\ cmd = "NONE" /\ slot.function_name = ""
      BY <2>1, <2>2 DEF Init
    <2> QED
      BY <2>3 DEF SlotInv, Keywords
  <1>2. TypeInv /\ ParserAt /\ TurnInv /\ SlotInv /\ [Next]_vars => SlotInv'
    BY NextSlot
  <1> QED
    BY <1>1, <1>2, TypeInvHolds, ParserAtHolds, TurnInvHolds, PTL DEF Spec

\* A control message the parser does not take to its end asks for nothing.
LEMMA RefusedAsksNothing ==
  ASSUME NEW m \in Message, m.kind = "control", ~Executable(m)
  PROVE  Request(m) = NothingSent
  <1>1. ~m.complete \/ m.trans \in {"OTHER", "LEARN"}
    BY DEF Executable, AfterType
  <1> QED
    BY <1>1 DEF Request

\* One taken to its end is complete and names what the transmit task can do.
LEMMA ExecutedIsComplete ==
  ASSUME NEW m \in Message, Executable(m)
  PROVE  /\ m.complete
         /\ m.kind = "control" => m.trans \in {"HAVC", "NORMAL", "RAW"}
         /\ m.kind = "save_file" => m.trans = "LEARN"
  BY DEF Executable, AfterType, Message, Keywords

\* The transmit task emits of a line what the remote's file asks for.
LEMMA EmitsStored ==
  ASSUME TypeInv, FreeHandles # {}, NEW file \in FileNames, NEW name, TxEmit,
         sent = NothingSent, slot.file_name = file, tx.line = ReadCommand(file, name)
  PROVE  sent' = StoredRequest(file, name)
  <1> DEFINE named  == {i \in DOMAIN flash[file] : flash[file][i].name = name}
             newest == flash[file][CHOOSE i \in named : \A j \in named : j <= i]
  <1>1. FileTypeOK
    BY DEF TypeInv, TypeOK
  <1>2. /\ named = {} => ReadCommand(file, name) = NoLine
        /\ named # {} => ReadCommand(file, name) = newest
    <2>1. named = {i \in DOMAIN flash[file] : flash[file][i].name = name}
      OBVIOUS
    <2> HIDE DEF named
    <2> QED
      BY <1>1, <2>1, ReadsNewest
  <1>3. tx.line \in Line
    BY DEF TypeInv, TypeOK, TxTypeOK
  <1>4. CASE named = {}
    <2>1. tx.line.wave = NoWave
      <3>1. tx.line = NoLine
        BY <1>2, <1>4
      <3>2. NoLine.wave = NoWave
        BY DEF NoLine
      <3> QED
        BY <3>1, <3>2
    <2>2. sent' = NothingSent
      BY <2>1 DEF TxEmit, NoTransmission
    <2>3. StoredRequest(file, name) = NothingSent
      BY <1>4 DEF StoredRequest
    <2> QED
      BY <2>2, <2>3
  <1>5. CASE named # {}
    <2>1. tx.line = newest
      BY <1>2, <1>5
    <2>2. StoredRequest(file, name) =
            CASE newest.wave # NoWave /\ newest.proto = "RAW" ->
                   [how |-> "RAW", file |-> "", data |-> newest.wave]
              [] newest.wave # NoWave /\ newest.proto = "NORMAL" /\ file \in CommandProtocols ->
                   [how |-> "CODE", file |-> file, data |-> newest.wave]
              [] OTHER -> NothingSent
      BY <1>5 DEF StoredRequest
    <2> HIDE DEF newest, named
    <2>3. newest.proto \in {"RAW", "NORMAL"}
      BY <1>3, <2>1 DEF Line
    <2> QED
      BY <2>1, <2>2, <2>3 DEF TxEmit, Transmit, NoTransmission
  <1> QED
    BY <1>4, <1>5

\* What the files ask for changes only with the files.
LEMMA SameFilesSameRequest ==
  ASSUME UNCHANGED <<fileVars, asked>>
  PROVE  /\ Request(asked)' = Request(asked)
         /\ ReadCommand(asked.file, asked.name)' = ReadCommand(asked.file, asked.name)
  BY DEF fileVars, Request, StoredRequest, ReadCommand, FreeHandles

\* The transmit task executes the message that was asked.
LEMMA TxStepSent ==
  ASSUME TypeInv, TurnInv, FilesInv, SlotInv, SentInv, TxStep
  PROVE  SentInv'
  <1> USE DEF SentInv, SentIsAsked, Wiping, Intact
  <1>1. /\ tx \in [pc : TxPcs, file : FileNames, line : Line]
        /\ asked \in Message /\ asked.file \in FileNames
    BY MessageIsTyped DEF TypeInv, TypeOK, TxTypeOK, ChanTypeOK
  <1>2. UNCHANGED asked /\ cmd = "CTRL" /\ asked.kind \in {"control", "save_file"}
    BY TxKeeps DEF chanVars, TurnInv, TxStep, TxStart, TxDispatch, TxHavc, TxLookup, TxMatch, TxEmit,
       TxRaw, TxOpen, TxWrite, TxClose, TxWipe, TxDone
  <1>3. tx.pc \in Intact /\ Executable(asked) => Carries(asked)
    BY <1>2 DEF SlotInv
  <1>4. tx.pc \notin {"write", "close"} => FreeHandles # {}
    <2>1. rx.pc \in {"poll", "switch"}
      BY <1>2 DEF TurnInv, RxQuiet
    <2>2. tx.pc \notin {"write", "close"} => \A h \in Handles : ~stream[h].open
      BY <2>1 DEF FilesInv
    <2>3. MaxOpen \in Nat \ {0}
      BY FileAssumption
    <2>4. 1 \in Handles
      BY <2>3 DEF Handles
    <2> QED
      BY <2>2, <2>4 DEF FreeHandles
  <1>5. CASE TxStart
    BY <1>1, <1>5 DEF TxStart, TxGoto
  <1>6. CASE TxDispatch
    <2>1. tx.pc = "dispatch" /\ sent' = NothingSent
      BY <1>6 DEF TxDispatch
    <2>2. CASE Executable(asked)
      <3>1. slot.function_name = asked.trans
        BY <1>3, <2>1, <2>2 DEF Carries
      <3>2. /\ asked.kind = "control" => asked.trans \in {"HAVC", "NORMAL", "RAW"}
            /\ asked.kind = "save_file" => asked.trans = "LEARN"
        BY <1>1, <2>2, ExecutedIsComplete
      <3>3. /\ asked.trans = "HAVC" => tx'.pc = "havc"
            /\ asked.trans = "NORMAL" => tx'.pc = "lookup"
            /\ asked.trans = "RAW" => tx'.pc = "raw"
            /\ asked.trans = "LEARN" => tx'.pc = "open"
        BY <1>1, <1>6, <3>1 DEF TxDispatch, TxGoto
      <3> QED
        BY <1>2, <2>1, <2>2, <3>2, <3>3 DEF Executable
    <2>3. CASE ~Executable(asked)
      <3>1. slot.function_name \notin Keywords
        BY <1>2, <2>1, <2>3 DEF SlotInv, TurnInv
      <3>2. tx'.pc = "wipe"
        BY <1>1, <1>6, <3>1 DEF TxDispatch, TxGoto, Keywords
      <3>3. UNCHANGED <<fileVars, asked>>
        BY <1>2, <1>6 DEF TxDispatch
      <3>4. asked.kind = "control" => Request(asked)' = NothingSent
        BY <1>1, <2>3, <3>3, RefusedAsksNothing, SameFilesSameRequest
      <3> QED
        BY <1>2, <2>1, <3>2, <3>4
    <2> QED
      BY <2>2, <2>3
  <1>7. CASE TxHavc
    <2>1. tx.pc = "havc" /\ Executable(asked) /\ asked.trans = "HAVC" /\ sent = NothingSent
      BY <1>7 DEF TxHavc
    <2>2. asked.complete /\ slot.file_name = asked.file /\ slot.ac = asked.ac
      BY <1>1, <1>3, <2>1, ExecutedIsComplete DEF Carries
    <2>3. sent' = Request(asked)
      BY <1>7, <2>1, <2>2 DEF TxHavc, Transmit, NoTransmission, Request
    <2>4. Request(asked)' = Request(asked)
      BY <1>2, <1>7, SameFilesSameRequest DEF TxHavc
    <2>5. tx'.pc = "wipe"
      BY <1>1, <1>7 DEF TxHavc, TxGoto
    <2> QED
      BY <2>3, <2>4, <2>5
  <1>8. CASE TxLookup
    <2>1. slot.file_name = asked.file
      BY <1>3, <1>8 DEF TxLookup, Carries
    <2>2. tx'.pc = "match" /\ tx'.file = asked.file /\ tx.pc = "lookup" /\ sent' = sent
      BY <1>1, <1>8, <2>1 DEF TxLookup
    <2> QED
      BY <1>2, <2>2 DEF Executable
  <1>9. CASE TxMatch
    <2>1. tx.pc = "match" /\ tx.file = asked.file /\ slot.type_cmd = asked.name
      BY <1>3, <1>9 DEF TxMatch, Carries
    <2>2. tx'.pc = "emit" /\ tx'.line = ReadCommand(asked.file, asked.name) /\ sent' = sent
      BY <1>1, <1>9, <2>1 DEF TxMatch
    <2>3. ReadCommand(asked.file, asked.name)' = ReadCommand(asked.file, asked.name)
      BY <1>2, <1>9, SameFilesSameRequest DEF TxMatch
    <2> QED
      BY <1>2, <2>1, <2>2, <2>3 DEF Executable
  <1>10. CASE TxEmit
    <2>1. /\ tx.pc = "emit" /\ Executable(asked) /\ asked.trans = "NORMAL" /\ sent = NothingSent
          /\ tx.line = ReadCommand(asked.file, asked.name)
      BY <1>10 DEF TxEmit
    <2>2. asked.complete /\ slot.file_name = asked.file
      BY <1>1, <1>3, <2>1, ExecutedIsComplete DEF Carries
    <2>3. sent' = StoredRequest(asked.file, asked.name)
      BY <1>1, <1>4, <1>10, <2>1, <2>2, EmitsStored
    <2>4. Request(asked) = StoredRequest(asked.file, asked.name)
      BY <2>1, <2>2 DEF Request
    <2>5. Request(asked)' = Request(asked)
      BY <1>2, <1>10, SameFilesSameRequest DEF TxEmit
    <2>6. tx'.pc = "wipe"
      BY <1>1, <1>10 DEF TxEmit, TxGoto
    <2> QED
      BY <2>3, <2>4, <2>5, <2>6
  <1>11. CASE TxRaw
    <2>1. tx.pc = "raw" /\ Executable(asked) /\ asked.trans = "RAW"
      BY <1>11 DEF TxRaw
    <2>2. asked.complete /\ slot.value_cmd = asked.line
      BY <1>1, <1>3, <2>1, ExecutedIsComplete DEF Carries
    <2>3. sent' = Request(asked)
      BY <1>11, <2>1, <2>2 DEF TxRaw, Transmit, Request
    <2>4. Request(asked)' = Request(asked)
      BY <1>2, <1>11, SameFilesSameRequest DEF TxRaw
    <2>5. tx'.pc = "wipeAll"
      BY <1>1, <1>11 DEF TxRaw, TxGoto
    <2> QED
      BY <2>3, <2>4, <2>5
  <1>12. CASE TxOpen \/ TxWrite \/ TxClose
    <2>1. tx.pc \in {"open", "write", "close"} /\ tx'.pc \in {"write", "close", "wipeAll"}
      BY <1>1, <1>12 DEF TxOpen, TxWrite, TxClose, TxGoto
    <2> QED
      BY <1>2, <2>1
  <1>13. CASE TxWipe \/ TxDone
    <2>1. tx'.pc \in Wiping \union {"done", "idle"} /\ UNCHANGED <<fileVars, sent>>
          /\ (tx'.pc \in Wiping => tx.pc \in Wiping)
      BY <1>1, <1>13 DEF TxWipe, TxDone, TxGoto
    <2>2. UNCHANGED <<fileVars, asked>>
      BY <1>2, <2>1
    <2> QED
      BY <2>1, <2>2, SameFilesSameRequest
  <1> QED
    BY <1>5, <1>6, <1>7, <1>8, <1>9, <1>10, <1>11, <1>12, <1>13 DEF TxStep

\* While it does, nothing else touches its locals, the files or the message.
LEMMA NextSent ==
  ASSUME Spaced, TypeInv, TurnInv, FilesInv, SlotInv, SentInv, [Next]_vars
  PROVE  SentInv'
  <1>1. CASE UNCHANGED tx /\ tx.pc = "idle"
    BY <1>1 DEF SentInv, SentIsAsked, Wiping
  <1>2. CASE UNCHANGED <<fileVars, tx, sent, asked>>
    BY <1>2, SameFilesSameRequest DEF SentInv, SentIsAsked, Executable
  <1>3. CASE ChanReceive \/ BleMessage \/ FrameArrives
    BY <1>1, <1>3 DEF ChanReceive, BleMessage, FrameArrives, Settled, txVars
  <1>4. CASE ChanStep
    <2>1. chan.pc # "idle"
      BY <1>4, ChanActs
    <2> QED
      BY <1>1, <1>4, <2>1, ChanKeeps DEF TurnInv, txVars
  <1>5. CASE RxStep
    <2>1. UNCHANGED <<tx, sent, asked>>
      BY <1>5, RxKeeps DEF txVars, chanVars
    <2>2. UNCHANGED fileVars \/ rx.pc \in {"open", "write", "close"}
      BY <1>5 DEF RxStep, RxCapture, RxTimeout, RxSwitch, RxSetWait, RxCheck, RxOpen, RxWrite,
         RxClose, RxFinish
    <2>3. rx.pc \in {"open", "write", "close"} => tx.pc = "idle"
      BY DEF TurnInv
    <2> QED
      BY <1>1, <1>2, <2>1, <2>2, <2>3
  <1>6. CASE PlantStep \/ UNCHANGED vars
    <2>1. UNCHANGED <<fileVars, tx, sent, asked>>
      BY <1>6, PlantKeeps DEF PlantStep, PlantEnable, PlantStart, PlantDisable, PlantStop,
         vars, txVars, chanVars
    <2> QED
      BY <1>2, <2>1
  <1> QED
    BY <1>3, <1>4, <1>5, <1>6, TxStepSent DEF Next

\* A control command of a user who waits is executed as it was asked, with any
\* remotes, commands and settings.  The names of commands are not the keywords
\* of the protocol: a refused new_cmd leaves its name in function_name, and an
\* incomplete control message after it would be executed under that name.
THEOREM WhatIsAskedIsSent ==
  ASSUME Spaced, Names \cap Keywords = {}
  PROVE  Spec => []SentIsAsked
  <1>1. Init => SentInv
    <2> SUFFICES ASSUME Init PROVE SentInv
      OBVIOUS
    <2>1. tx.pc = "idle"
      BY DEF Init
    <2> QED
      BY <2>1 DEF SentInv, SentIsAsked, Wiping
  <1>2. TypeInv /\ TurnInv /\ FilesInv /\ SlotInv /\ SentInv /\ [Next]_vars => SentInv'
    BY NextSent
  <1>3. SentInv => SentIsAsked
    BY DEF SentInv
  <1> QED
    BY <1>1, <1>2, <1>3, TypeInvHolds, TurnInvHolds, FilesInvHolds, SlotInvHolds, PTL DEF Spec
=============================================================================
