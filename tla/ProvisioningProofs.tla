-------------------------- MODULE ProvisioningProofs --------------------------
(***************************************************************************)
(* Provisioning for any set of accounts and any number of starts: the      *)
(* invariants of the model are invariants of Spec.  TypeOK is inductive as *)
(* it stands; for the others IInv adds which activity may be under way     *)
(* while another one is, who has the file open, and that the start state   *)
(* is never stored again.                                                  *)
(***************************************************************************)
EXTENDS Provisioning, SequenceTheorems, TLAPS

FileType ==
  /\ file \in [there : BOOLEAN, of : Configs, lines : 0 .. 3]
  /\ writer \in [who : {"none", "boot", "ble"}, lines : 0 .. 3]
  /\ boot \in BootPcs
  /\ ble \in [pc : BlePcs, msg : Configs, cut : BOOLEAN]
  /\ boot = "put" => writer.lines < 3
  /\ ble.pc = "put" => writer.lines < 3
  /\ acked \in Configs \union {NoConfig}
  /\ env \in [boots : 0 .. MaxBoots, drops : 0 .. MaxDrops]

RamType ==
  /\ settings \in Settings /\ loaded \in Settings
  /\ wifi \in [driver : {"off", "idle", "trying", "up", "online"}, inits : Nat,
               user : Users, pass : Passwords, bit : BOOLEAN]
  /\ channels \subseteq Controls

TaskType ==
  /\ eStateDevice \in States /\ changeState \in BOOLEAN /\ smartConfig \in BOOLEAN
  /\ plant \in [pc : PlantPcs, seen : States]
  /\ ev \in EvPcs
  /\ led \in [pc : LedPcs, shows : {"none", "connected", "reconnect", "smart"}, doing : BOOLEAN]
  /\ events \in Seq({"connected", "gotIp", "disconnected"})

TypeInv == FileType /\ RamType /\ TaskType

\* Which step may be next while another activity has reached its own.
Order ==
  /\ boot # "done" => plant.pc = "poll" /\ led.pc = "look" /\ ble.pc = "off" /\ wifi.inits = 0
  /\ ble.pc # "off" => wifi.inits > 0
  /\ led.pc \in {"state", "ble"} => wifi.inits > 0 /\ ~led.doing
  /\ ~led.doing => ble.pc = "off"

\* Who has config.txt open, and what is in it meanwhile.
Store ==
  /\ boot \in {"put", "close"} <=> writer.who = "boot"
  /\ ble.pc \in {"put", "close"} <=> writer.who = "ble"
  /\ boot \in {"create", "put", "close"} => acked = NoConfig
  /\ ble.pc \in {"put", "close"} => acked = NoConfig /\ file.there /\ file.of = ble.msg
  /\ ble.pc = "close" => writer.lines = 3
  /\ ble.pc = "reply" /\ ~ble.cut => file = [there |-> TRUE, of |-> ble.msg, lines |-> 3]
  /\ ~file.there => acked = NoConfig

\* The set-up runs at most once because WIFI_AP_DISCONNECT is left for good.
SetUp ==
  /\ wifi.inits \in {0, 1}
  /\ plant.pc \in {"wifi", "delay", "wait", "channel", "state"} => ~changeState
  /\ plant.pc \in {"delay", "wait", "channel", "state", "flag"} => wifi.inits = 1
  /\ plant.pc = "flag" => eStateDevice # "WIFI_AP_DISCONNECT"
  /\ wifi.inits = 1 => ~changeState \/ eStateDevice # "WIFI_AP_DISCONNECT"
  /\ wifi.inits = 0 \/ plant.pc \in {"wifi", "delay", "wait", "channel"} => channels = {}
  /\ plant.pc = "wifi" => wifi.inits = 0
  /\ ble.pc \in {"off", "idle"} => settings = loaded

IInv == TypeInv /\ Order /\ Store /\ SetUp /\ NeverMixed /\ AckedIsStored /\ SetUpOnce

\* The parts of the type invariant are all of it.
LEMMA TypeInvIsTypeOK == TypeInv => TypeOK
BY DEF TypeInv, FileType, RamType, TaskType, TypeOK

\* The settings a start can find in RAM, load or store.
LEMMA SettingsTypes ==
  /\ Blank \in Settings /\ Default \in Settings /\ Default \in Configs
  /\ \A c \in Configs, n \in 0 .. 3 : Prefix(c, n) \in Settings
  /\ \A c \in Configs : c.user \in Users /\ c.pass \in Passwords /\ c.ctrl \in Controls
  /\ NoText \in Users /\ NoText \in Passwords
BY ProvisioningAssumption
DEF NoText, Blank, Settings, Configs, Prefix, Users, Passwords, Controls

\* The compiled-in account and the blank settings are those of a file, whole
\* or empty.
LEMMA DefaultIsWhole == Default = Prefix(Default, 3) /\ Blank = Prefix(Default, 0)
<1> DEFINE Copy == [user |-> Default.user, pass |-> Default.pass, ctrl |-> Default.ctrl]
<1>1. Default \in [user : STRING, pass : STRING, ctrl : Controls]
  BY ProvisioningAssumption
<1>2. Default = Copy
  BY <1>1
<1>3. Prefix(Default, 3) = Copy
  BY DEF Prefix
<1>4. Blank = Prefix(Default, 0)
  BY DEF Prefix, Blank
<1> QED BY <1>2, <1>3, <1>4

\* A device that was never started is well formed.
LEMMA InitType == Init => TypeInv
<1> SUFFICES ASSUME Init PROVE TypeInv
  OBVIOUS
<1>1. FileType
  BY ProvisioningAssumption
  DEF Init, FileType, Configs, NoWriter, BleStart, BootPcs, BlePcs
<1>2. RamType
  BY SettingsTypes DEF Init, RamType, WifiStart
<1>3. TaskType
  BY EmptySeq DEF Init, TaskType, PlantStart, LedStart, States, PlantPcs, EvPcs, LedPcs
<1> QED BY <1>1, <1>2, <1>3 DEF TypeInv

\* The invariant holds before the first start (app_main).
LEMMA InitInv == Init => IInv
<1> SUFFICES ASSUME Init PROVE IInv
  OBVIOUS
<1>1. TypeInv
  BY InitType
<1>2a. Order
  BY DEF Init, Order, PlantStart, LedStart, BleStart, WifiStart
<1>2b. Store
  BY DEF Init, Store, BleStart, NoWriter
<1>2c. SetUp
  BY DEF Init, SetUp, PlantStart, BleStart, WifiStart
<1>2. Order /\ Store /\ SetUp
  BY <1>2a, <1>2b, <1>2c
<1>3. NeverMixed
  BY DefaultIsWhole, SettingsTypes DEF Init, NeverMixed, WifiStart
<1>4. AckedIsStored /\ SetUpOnce
  BY DEF Init, AckedIsStored, SetUpOnce, WifiStart
<1> QED BY <1>1, <1>2, <1>3, <1>4 DEF IInv

\* FileType is kept: the writer never passes the third line.
LEMMA FileTypeStep == FileType /\ Store /\ [Next]_vars => FileType'
<1> SUFFICES ASSUME FileType /\ Store, [Next]_vars PROVE FileType'
  OBVIOUS
<1>1. CASE BootLoad
  BY <1>1, ProvisioningAssumption
  DEF FileType, BootPcs, BlePcs, Configs, BootLoad, storeVars, stateVars, netVars,
      histVars
<1>2. CASE BootCreate
  BY <1>2, ProvisioningAssumption
  DEF FileType, BootPcs, BlePcs, Configs, BootCreate, OpenForWriting, storeVars,
      stateVars, netVars, histVars
<1>3. CASE BootPut
  <2>1. writer' = [writer EXCEPT !.lines = @ + 1] /\ boot = "put"
    BY <1>3 DEF BootPut, PutLine
  <2>2. writer.lines \in 0 .. 2 /\ writer \in [who : {"none", "boot", "ble"}, lines : 0 .. 3]
    BY <2>1 DEF FileType
  <2>3. /\ writer' \in [who : {"none", "boot", "ble"}, lines : 0 .. 3]
        /\ writer'.lines # 3 => writer'.lines < 3
    BY <2>1, <2>2

  <2>4. boot' \in {"put", "close"} /\ (boot' = "put" => writer'.lines # 3)
    BY <1>3 DEF BootPut
  <2>5. UNCHANGED <<file, ble, acked, env>> /\ ble.pc # "put"
    BY <1>3, <2>1 DEF BootPut, PutLine, histVars, Store
  <2> QED BY <2>3, <2>4, <2>5 DEF FileType, BootPcs
<1>4. CASE BootClose
  BY <1>4, ProvisioningAssumption
  DEF FileType, BootPcs, BlePcs, Configs, BootClose, CloseFile, NoWriter, storeVars,
      stateVars, netVars, histVars
<1>5. CASE Plant
  BY <1>5, ProvisioningAssumption
  DEF Plant, FileType, BootPcs, BlePcs, Configs, PlantPoll, plantUnchanged, storeVars,
      stateVars, netVars, histVars, PlantCheck, PlantDoing, PlantWifi, PlantWait,
      PlantChannel, PlantState, PlantFlag
<1>6. CASE Ev
  BY <1>6, ProvisioningAssumption
  DEF Ev, FileType, BootPcs, BlePcs, Configs, EvConnected, netUnchanged, storeVars,
      stateVars, netVars, histVars, EvConnBits, EvGotIp, EvDisconnected, EvReconnect,
      EvClearBits
<1>7. CASE Driver
  BY <1>7, ProvisioningAssumption
  DEF Driver, FileType, BootPcs, BlePcs, Configs, DriverConnects, netUnchanged, storeVars,
      stateVars, netVars, histVars, DriverFails, DriverGotIp, DriverDrops, Associated
<1>8. CASE Led
  BY <1>8, ProvisioningAssumption
  DEF Led, FileType, BootPcs, BlePcs, Configs, LedLook, ledUnchanged, storeVars,
      stateVars, netVars, histVars, LedNoButton, LedHeld, LedState, LedBle
<1>9. CASE BleUser
  BY <1>9, ProvisioningAssumption
  DEF FileType, BootPcs, BlePcs, Configs, BleUser, bleUnchanged, storeVars, stateVars,
      netVars, histVars
<1>10. CASE BlePass
  BY <1>10, ProvisioningAssumption
  DEF FileType, BootPcs, BlePcs, Configs, BlePass, bleUnchanged, storeVars, stateVars,
      netVars, histVars
<1>11. CASE BleCtrl
  BY <1>11, ProvisioningAssumption
  DEF FileType, BootPcs, BlePcs, Configs, BleCtrl, bleUnchanged, storeVars, stateVars,
      netVars, histVars
<1>12. CASE BleOpen
  BY <1>12, ProvisioningAssumption
  DEF FileType, BootPcs, BlePcs, Configs, BleOpen, bleUnchanged, OpenForWriting,
      storeVars, stateVars, netVars, histVars
<1>13. CASE BlePanics \/ BleRestart \/ PowerLoss
  <2>1. file' \in [there : BOOLEAN, of : Configs, lines : 0 .. 3]
    <3>1. CASE UNCHANGED file
      BY <3>1 DEF FileType
    <3>2. CASE ~ UNCHANGED file
      <4>1. PICK n \in 0 .. writer.lines : file' = [file EXCEPT !.lines = n]
        BY <1>13, <3>2 DEF BlePanics, BleRestart, PowerLoss
      <4>2. n \in 0 .. 3
        BY DEF FileType
      <4> QED BY <4>1, <4>2 DEF FileType
    <3> QED BY <3>1, <3>2
  <2>2. Restart
    BY <1>13 DEF BlePanics, BleRestart, PowerLoss
  <2>3. writer' = NoWriter /\ boot' = "load" /\ ble' = BleStart /\ UNCHANGED acked
    BY <2>2 DEF Restart
  <2>4. env' \in [boots : 0 .. MaxBoots, drops : 0 .. MaxDrops]
    BY <2>2, ProvisioningAssumption DEF Restart, FileType
  <2>5. ble' \in [pc : BlePcs, msg : Configs, cut : BOOLEAN] /\ ble'.pc # "put"
    BY <2>3 DEF BleStart, BlePcs, Configs
  <2>6. writer' \in [who : {"none", "boot", "ble"}, lines : 0 .. 3]
    BY <2>3 DEF NoWriter
  <2>7. boot' \in BootPcs /\ boot' # "put" /\ acked' \in Configs \union {NoConfig}
    BY <2>3 DEF BootPcs, FileType
  <2> QED BY <2>1, <2>4, <2>5, <2>6, <2>7 DEF FileType
<1>14. CASE BlePut
  <2>1. writer' = [writer EXCEPT !.lines = @ + 1] /\ ble.pc = "put"
    BY <1>14 DEF BlePut, PutLine
  <2>2. writer.lines \in 0 .. 2 /\ writer \in [who : {"none", "boot", "ble"}, lines : 0 .. 3]
    BY <2>1 DEF FileType
  <2>3. /\ writer' \in [who : {"none", "boot", "ble"}, lines : 0 .. 3]
        /\ writer'.lines # 3 => writer'.lines < 3
    BY <2>1, <2>2

  <2>4. ble' \in [pc : BlePcs, msg : Configs,
      cut : BOOLEAN] /\ (ble'.pc = "put" => writer'.lines # 3)
    BY <1>14 DEF BlePut, FileType, BlePcs
  <2>5. UNCHANGED <<file, boot, acked, env>> /\ boot # "put"
    BY <1>14, <2>1 DEF BlePut, PutLine, bleUnchanged, Store
  <2> QED BY <2>3, <2>4, <2>5 DEF FileType
<1>15. CASE BleClose
  <2>1. PICK n \in 0 .. writer.lines : file' = [file EXCEPT !.lines = n]
    BY <1>15 DEF BleClose, CloseFile
  <2>2. file' \in [there : BOOLEAN, of : Configs, lines : 0 .. 3]
    <3>1. n \in 0 .. 3
      BY DEF FileType
    <3> QED BY <2>1, <3>1 DEF FileType
  <2>3. ble' \in [pc : BlePcs, msg : Configs, cut : BOOLEAN] /\ ble'.pc # "put"
    BY <1>15 DEF BleClose, FileType, BlePcs
  <2>4. writer' \in [who : {"none", "boot", "ble"}, lines : 0 .. 3]
    BY <1>15 DEF BleClose, CloseFile, NoWriter
  <2>5. boot # "put" /\ UNCHANGED <<boot, acked, env>>
    BY <1>15 DEF BleClose, CloseFile, bleUnchanged, Store
  <2> QED BY <2>2, <2>3, <2>4, <2>5 DEF FileType
<1>16. CASE BleReply
  BY <1>16, ProvisioningAssumption
  DEF FileType, BootPcs, BlePcs, Configs, BleReply, bleUnchanged, storeVars, stateVars,
      netVars, histVars
<1>17. CASE UNCHANGED vars
  BY <1>17 DEF FileType, BootPcs, BlePcs, Configs, vars, storeVars, stateVars, netVars, histVars
<1> QED
  BY <1>1, <1>2, <1>3, <1>4, <1>5, <1>6, <1>7, <1>8, <1>9, <1>10, <1>11, <1>12, <1>13,
     <1>14, <1>15, <1>16, <1>17
  DEF Next, Boot, Plant, Ev, Driver, Led, BleSave, Ble

\* RamType is kept.
LEMMA RamTypeStep == TypeInv /\ [Next]_vars => RamType'
<1> SUFFICES ASSUME TypeInv, [Next]_vars PROVE RamType'
  OBVIOUS
<1>1. CASE Boot
  BY <1>1, SettingsTypes
  DEF Boot, TypeInv, FileType, RamType, Settings, BootLoad, storeVars, stateVars, netVars,
      histVars, BootCreate, OpenForWriting, BootPut, PutLine, BootClose, CloseFile,
      NoWriter
<1>2. CASE PlantPoll
  BY <1>2, SettingsTypes
  DEF TypeInv, FileType, RamType, Settings, PlantPoll, plantUnchanged, storeVars,
      stateVars, netVars, histVars
<1>3. CASE PlantCheck
  BY <1>3, SettingsTypes
  DEF TypeInv, FileType, RamType, Settings, PlantCheck, plantUnchanged, storeVars,
      stateVars, netVars, histVars
<1>4. CASE PlantDoing
  BY <1>4, SettingsTypes
  DEF TypeInv, FileType, RamType, Settings, PlantDoing, plantUnchanged, storeVars,
      stateVars, netVars, histVars
<1>5. CASE PlantWifi
  BY <1>5, SettingsTypes
  DEF TypeInv, FileType, RamType, Settings, PlantWifi, plantUnchanged, storeVars,
      stateVars, netVars, histVars
<1>6. CASE PlantWait
  BY <1>6, SettingsTypes
  DEF TypeInv, FileType, RamType, Settings, PlantWait, plantUnchanged, storeVars,
      stateVars, netVars, histVars
<1>7. CASE PlantChannel
  BY <1>7, SettingsTypes
  DEF TypeInv, FileType, RamType, Settings, PlantChannel, plantUnchanged, storeVars,
      stateVars, netVars, histVars
<1>8. CASE PlantState
  BY <1>8, SettingsTypes
  DEF TypeInv, FileType, RamType, Settings, PlantState, plantUnchanged, storeVars,
      stateVars, netVars, histVars
<1>9. CASE PlantFlag
  BY <1>9, SettingsTypes
  DEF TypeInv, FileType, RamType, Settings, PlantFlag, plantUnchanged, storeVars,
      stateVars, netVars, histVars
<1>10. CASE EvConnected
  BY <1>10, SettingsTypes
  DEF TypeInv, FileType, RamType, Settings, EvConnected, netUnchanged, storeVars,
      stateVars, netVars, histVars
<1>11. CASE EvConnBits \/ EvGotIp
  BY <1>11, SettingsTypes
  DEF TypeInv, FileType, RamType, Settings, EvConnBits, EvGotIp, netUnchanged, storeVars,
      stateVars, netVars, histVars
<1>12. CASE EvDisconnected
  BY <1>12, SettingsTypes
  DEF TypeInv, FileType, RamType, Settings, EvDisconnected, netUnchanged, storeVars,
      stateVars, netVars, histVars
<1>13. CASE EvReconnect
  BY <1>13, SettingsTypes
  DEF TypeInv, FileType, RamType, Settings, EvReconnect, netUnchanged, storeVars,
      stateVars, netVars, histVars
<1>14. CASE EvClearBits
  BY <1>14, SettingsTypes
  DEF TypeInv, FileType, RamType, Settings, EvClearBits, netUnchanged, storeVars,
      stateVars, netVars, histVars
<1>15. CASE DriverConnects
  BY <1>15, SettingsTypes
  DEF TypeInv, FileType, RamType, Settings, DriverConnects, netUnchanged, storeVars,
      stateVars, netVars, histVars
<1>16. CASE DriverFails
  BY <1>16, SettingsTypes
  DEF TypeInv, FileType, RamType, Settings, DriverFails, netUnchanged, storeVars,
      stateVars, netVars, histVars
<1>17. CASE DriverDrops \/ DriverGotIp
  BY <1>17, SettingsTypes
  DEF TypeInv, FileType, RamType, Settings, DriverDrops, DriverGotIp, Associated,
      netUnchanged, storeVars,
      stateVars, netVars, histVars
<1>18. CASE Led
  BY <1>18, SettingsTypes
  DEF Led, TypeInv, FileType, RamType, Settings, LedLook, ledUnchanged, storeVars,
      stateVars, netVars, histVars, LedNoButton, LedHeld, LedState, LedBle
<1>19. CASE BleUser
  <2>1. PICK c \in Wanted : settings' = [settings EXCEPT !.user = c.user]
    BY <1>19 DEF BleUser
  <2>2. c.user \in Users
    BY SettingsTypes DEF Configs
  <2>3. settings' \in Settings
    BY <2>1, <2>2 DEF TypeInv, RamType, Settings
  <2>4. UNCHANGED <<loaded, wifi, channels>>
    BY <1>19 DEF BleUser, bleUnchanged, netVars
  <2> QED BY <2>3, <2>4 DEF TypeInv, RamType
<1>20. CASE BleSave
  BY <1>20, SettingsTypes
  DEF BleSave, TypeInv, FileType, RamType, Settings, BlePass, bleUnchanged, storeVars,
      stateVars, netVars, histVars, BleCtrl, BleOpen, OpenForWriting, BlePut, PutLine,
      BleClose, CloseFile, NoWriter, BleReply
<1>21. CASE BlePanics \/ BleRestart \/ PowerLoss
  <2>1. Restart
    BY <1>21 DEF BlePanics, BleRestart, PowerLoss
  <2> QED BY <2>1, SettingsTypes DEF Restart, RamType, WifiStart
<1>22. CASE UNCHANGED vars
  BY <1>22
  DEF TypeInv, FileType, RamType, Settings, vars, storeVars, stateVars, netVars, histVars
<1> QED
  BY <1>1, <1>2, <1>3, <1>4, <1>5, <1>6, <1>7, <1>8, <1>9, <1>10, <1>11, <1>12, <1>13,
     <1>14, <1>15, <1>16, <1>17, <1>18, <1>19, <1>20, <1>21, <1>22
  DEF Next, Boot, Plant, Ev, Driver, Led, BleSave, Ble

\* TaskType is kept.
LEMMA TaskTypeStep == TypeInv /\ [Next]_vars => TaskType'
<1> SUFFICES ASSUME TypeInv, [Next]_vars PROVE TaskType'
  OBVIOUS
<1>1. CASE Boot
  BY <1>1, EmptySeq
  DEF Boot, TypeInv, TaskType, States, PlantPcs, EvPcs, LedPcs, BootLoad, storeVars,
      stateVars, netVars, histVars, BootCreate, OpenForWriting, BootPut, PutLine,
      BootClose, CloseFile, NoWriter
<1>2. CASE PlantPoll
  BY <1>2, EmptySeq
  DEF TypeInv, TaskType, States, PlantPcs, EvPcs, LedPcs, PlantPoll, plantUnchanged,
      storeVars, stateVars, netVars, histVars
<1>3. CASE PlantCheck
  <2>1. changeState' \in BOOLEAN /\ UNCHANGED <<eStateDevice, smartConfig, ev, led, events>>
    BY <1>3 DEF PlantCheck, plantUnchanged, TypeInv, TaskType
  <2>2. \/ plant' = [plant EXCEPT !.pc = "doing"]
        \/ plant' = [plant EXCEPT !.pc = "wifi"]
        \/ plant' = [plant EXCEPT !.pc = "poll"]
    BY <1>3 DEF PlantCheck
  <2>3. plant' \in [pc : PlantPcs, seen : States]
    BY <2>2 DEF TypeInv, TaskType, PlantPcs
  <2> QED BY <2>1, <2>3 DEF TypeInv, TaskType
<1>4. CASE PlantDoing
  BY <1>4, EmptySeq
  DEF TypeInv, TaskType, States, PlantPcs, EvPcs, LedPcs, PlantDoing, plantUnchanged,
      storeVars, stateVars, netVars, histVars
<1>5. CASE PlantWifi
  BY <1>5, EmptySeq
  DEF TypeInv, TaskType, States, PlantPcs, EvPcs, LedPcs, PlantWifi, plantUnchanged,
      storeVars, stateVars, netVars, histVars
<1>6. CASE PlantWait
  BY <1>6, EmptySeq
  DEF TypeInv, TaskType, States, PlantPcs, EvPcs, LedPcs, PlantWait, plantUnchanged,
      storeVars, stateVars, netVars, histVars
<1>7. CASE PlantChannel
  BY <1>7, EmptySeq
  DEF TypeInv, TaskType, States, PlantPcs, EvPcs, LedPcs, PlantChannel, plantUnchanged,
      storeVars, stateVars, netVars, histVars
<1>8. CASE PlantState
  BY <1>8, EmptySeq
  DEF TypeInv, TaskType, States, PlantPcs, EvPcs, LedPcs, PlantState, plantUnchanged,
      storeVars, stateVars, netVars, histVars
<1>9. CASE PlantFlag
  BY <1>9, EmptySeq
  DEF TypeInv, TaskType, States, PlantPcs, EvPcs, LedPcs, PlantFlag, plantUnchanged,
      storeVars, stateVars, netVars, histVars
<1>10. CASE EvConnected
  BY <1>10, EmptySeq
  DEF TypeInv, TaskType, States, PlantPcs, EvPcs, LedPcs, EvConnected, netUnchanged,
      storeVars, stateVars, netVars, histVars
<1>11. CASE EvConnBits \/ EvGotIp
  BY <1>11, EmptySeq
  DEF TypeInv, TaskType, States, PlantPcs, EvPcs, LedPcs, EvConnBits, EvGotIp, netUnchanged,
      storeVars, stateVars, netVars, histVars
<1>12. CASE EvDisconnected
  BY <1>12, EmptySeq
  DEF TypeInv, TaskType, States, PlantPcs, EvPcs, LedPcs, EvDisconnected, netUnchanged,
      storeVars, stateVars, netVars, histVars
<1>13. CASE EvReconnect
  BY <1>13, EmptySeq
  DEF TypeInv, TaskType, States, PlantPcs, EvPcs, LedPcs, EvReconnect, netUnchanged,
      storeVars, stateVars, netVars, histVars
<1>14. CASE EvClearBits
  BY <1>14, EmptySeq
  DEF TypeInv, TaskType, States, PlantPcs, EvPcs, LedPcs, EvClearBits, netUnchanged,
      storeVars, stateVars, netVars, histVars
<1>15. CASE DriverConnects
  BY <1>15, EmptySeq
  DEF TypeInv, TaskType, States, PlantPcs, EvPcs, LedPcs, DriverConnects, netUnchanged,
      storeVars, stateVars, netVars, histVars
<1>16. CASE DriverFails
  BY <1>16, EmptySeq
  DEF TypeInv, TaskType, States, PlantPcs, EvPcs, LedPcs, DriverFails, netUnchanged,
      storeVars, stateVars, netVars, histVars
<1>17. CASE DriverDrops \/ DriverGotIp
  BY <1>17, EmptySeq
  DEF TypeInv, TaskType, States, PlantPcs, EvPcs, LedPcs, DriverDrops, DriverGotIp,
      Associated, netUnchanged,
      storeVars, stateVars, netVars, histVars
<1>18. CASE LedLook
  <2>1. UNCHANGED <<eStateDevice, changeState, smartConfig, plant, ev, events>>
    BY <1>18 DEF LedLook, ledUnchanged, netVars
  <2>2. PICK s : /\ s \in {"connected", "reconnect", "smart", led.shows}
                 /\ led' = [led EXCEPT !.pc = "button", !.shows = s]
    BY <1>18 DEF LedLook
  <2>3. led' \in [pc : LedPcs, shows : {"none", "connected", "reconnect", "smart"},
      doing : BOOLEAN]
    BY <2>2 DEF TypeInv, TaskType, LedPcs
  <2> QED BY <2>1, <2>3 DEF TypeInv, TaskType
<1>19. CASE LedNoButton
  BY <1>19, EmptySeq
  DEF TypeInv, TaskType, States, PlantPcs, EvPcs, LedPcs, LedNoButton, ledUnchanged,
      storeVars, stateVars, netVars, histVars
<1>20. CASE LedHeld
  BY <1>20, EmptySeq
  DEF TypeInv, TaskType, States, PlantPcs, EvPcs, LedPcs, LedHeld, ledUnchanged,
      storeVars, stateVars, netVars, histVars
<1>21. CASE LedState
  BY <1>21, EmptySeq
  DEF TypeInv, TaskType, States, PlantPcs, EvPcs, LedPcs, LedState, ledUnchanged,
      storeVars, stateVars, netVars, histVars
<1>22. CASE LedBle
  <2>1. UNCHANGED <<eStateDevice, changeState, smartConfig, plant, ev, events>>
    BY <1>22 DEF LedBle, ledUnchanged, netVars, stateVars
  <2>2. led' = [led EXCEPT !.pc = "look", !.doing = TRUE]
    BY <1>22 DEF LedBle
  <2>3. led' \in [pc : LedPcs, shows : {"none", "connected", "reconnect", "smart"},
      doing : BOOLEAN]
    BY <2>2 DEF TypeInv, TaskType, LedPcs
  <2> QED BY <2>1, <2>3 DEF TypeInv, TaskType
<1>23. CASE BleUser
  BY <1>23, EmptySeq
  DEF TypeInv, TaskType, States, PlantPcs, EvPcs, LedPcs, BleUser, bleUnchanged,
      storeVars, stateVars, netVars, histVars
<1>24. CASE BleSave
  BY <1>24, EmptySeq
  DEF BleSave, TypeInv, TaskType, States, PlantPcs, EvPcs, LedPcs, BlePass, bleUnchanged,
      storeVars, stateVars, netVars, histVars, BleCtrl, BleOpen, OpenForWriting, BlePut,
      PutLine, BleClose, CloseFile, NoWriter, BleReply
<1>25. CASE BlePanics \/ BleRestart \/ PowerLoss
  <2>1. Restart
    BY <1>25 DEF BlePanics, BleRestart, PowerLoss
  <2> QED
    BY <2>1, EmptySeq
    DEF Restart, TaskType, States, PlantPcs, EvPcs, LedPcs, PlantStart, LedStart
<1>26. CASE UNCHANGED vars
  BY <1>26
  DEF TypeInv, TaskType, States, PlantPcs, EvPcs, LedPcs, vars, storeVars, stateVars,
      netVars, histVars
<1> QED
  BY <1>1, <1>2, <1>3, <1>4, <1>5, <1>6, <1>7, <1>8, <1>9, <1>10, <1>11, <1>12, <1>13,
     <1>14, <1>15, <1>16, <1>17, <1>18, <1>19, <1>20, <1>21, <1>22, <1>23, <1>24, <1>25,
     <1>26
  DEF Next, Boot, Plant, Ev, Driver, Led, BleSave, Ble

\* The tasks start after app_main, the phone after the button.
LEMMA OrderStep == TypeInv /\ Order /\ Store /\ [Next]_vars => Order'
<1> SUFFICES ASSUME TypeInv /\ Order /\ Store, [Next]_vars PROVE Order'
  OBVIOUS
<1>1. CASE Boot
  BY <1>1
  DEF Boot, TypeInv, FileType, RamType, TaskType, Order, BootLoad, storeVars, stateVars,
      netVars, histVars, BootCreate, OpenForWriting, BootPut, PutLine, BootClose,
      CloseFile, NoWriter
<1>2. CASE PlantPoll
  BY <1>2
  DEF TypeInv, FileType, RamType, TaskType, Order, PlantPoll, plantUnchanged, storeVars,
      stateVars, netVars, histVars
<1>3. CASE PlantCheck
  BY <1>3
  DEF TypeInv, FileType, RamType, TaskType, Order, PlantCheck, plantUnchanged, storeVars,
      stateVars, netVars, histVars
<1>4. CASE PlantDoing
  BY <1>4
  DEF TypeInv, FileType, RamType, TaskType, Order, PlantDoing, plantUnchanged, storeVars,
      stateVars, netVars, histVars
<1>5. CASE PlantWifi
  BY <1>5
  DEF TypeInv, FileType, RamType, TaskType, Order, PlantWifi, plantUnchanged, storeVars,
      stateVars, netVars, histVars
<1>6. CASE PlantWait
  BY <1>6
  DEF TypeInv, FileType, RamType, TaskType, Order, PlantWait, plantUnchanged, storeVars,
      stateVars, netVars, histVars
<1>7. CASE PlantChannel
  BY <1>7
  DEF TypeInv, FileType, RamType, TaskType, Order, PlantChannel, plantUnchanged,
      storeVars, stateVars, netVars, histVars
<1>8. CASE PlantState
  BY <1>8
  DEF TypeInv, FileType, RamType, TaskType, Order, PlantState, plantUnchanged, storeVars,
      stateVars, netVars, histVars
<1>9. CASE PlantFlag
  BY <1>9
  DEF TypeInv, FileType, RamType, TaskType, Order, PlantFlag, plantUnchanged, storeVars,
      stateVars, netVars, histVars
<1>10. CASE Ev
  BY <1>10
  DEF Ev, TypeInv, FileType, RamType, TaskType, Order, EvConnected, netUnchanged,
      storeVars, stateVars, netVars, histVars, EvConnBits, EvGotIp, EvDisconnected, EvReconnect,
      EvClearBits
<1>11. CASE Driver
  BY <1>11
  DEF Driver, TypeInv, FileType, RamType, TaskType, Order, DriverConnects, netUnchanged,
      storeVars, stateVars, netVars, histVars, DriverFails, DriverGotIp, DriverDrops, Associated
<1>12. CASE LedLook
  BY <1>12
  DEF TypeInv, FileType, RamType, TaskType, Order, LedLook, ledUnchanged, storeVars,
      stateVars, netVars, histVars
<1>13. CASE LedNoButton
  BY <1>13
  DEF TypeInv, FileType, RamType, TaskType, Order, LedNoButton, ledUnchanged, storeVars,
      stateVars, netVars, histVars
<1>14. CASE LedHeld
  BY <1>14
  DEF TypeInv, FileType, RamType, TaskType, Order, LedHeld, ledUnchanged, storeVars,
      stateVars, netVars, histVars
<1>15. CASE LedState
  BY <1>15
  DEF TypeInv, FileType, RamType, TaskType, Order, LedState, ledUnchanged, storeVars,
      stateVars, netVars, histVars
<1>16. CASE LedBle
  BY <1>16
  DEF TypeInv, FileType, RamType, TaskType, Order, LedBle, ledUnchanged, storeVars,
      stateVars, netVars, histVars
<1>17. CASE BleUser
  BY <1>17
  DEF TypeInv, FileType, RamType, TaskType, Order, BleUser, bleUnchanged, storeVars,
      stateVars, netVars, histVars
<1>18. CASE BlePass
  BY <1>18
  DEF TypeInv, FileType, RamType, TaskType, Order, BlePass, bleUnchanged, storeVars,
      stateVars, netVars, histVars
<1>19. CASE BleCtrl
  BY <1>19
  DEF TypeInv, FileType, RamType, TaskType, Order, BleCtrl, bleUnchanged, storeVars,
      stateVars, netVars, histVars
<1>20. CASE BleOpen
  BY <1>20
  DEF TypeInv, FileType, RamType, TaskType, Order, BleOpen, bleUnchanged, OpenForWriting,
      storeVars, stateVars, netVars, histVars
<1>21. CASE BlePanics \/ BleRestart \/ PowerLoss
  BY <1>21
  DEF TypeInv, FileType, RamType, TaskType, Order, BlePanics, Restart, BleStart, LedStart,
      PlantStart, WifiStart, NoWriter, storeVars, stateVars, netVars, histVars,
      BleRestart, PowerLoss
<1>22. CASE BlePut
  BY <1>22
  DEF TypeInv, FileType, RamType, TaskType, Order, BlePut, bleUnchanged, PutLine,
      storeVars, stateVars, netVars, histVars
<1>23. CASE BleClose
  BY <1>23
  DEF TypeInv, FileType, RamType, TaskType, Order, BleClose, bleUnchanged, CloseFile,
      NoWriter, storeVars, stateVars, netVars, histVars
<1>24. CASE BleReply
  BY <1>24
  DEF TypeInv, FileType, RamType, TaskType, Order, BleReply, bleUnchanged, storeVars,
      stateVars, netVars, histVars
<1>25. CASE UNCHANGED vars
  BY <1>25
  DEF TypeInv, FileType, RamType, TaskType, Order, vars, storeVars, stateVars, netVars,
      histVars
<1> QED
  BY <1>1, <1>2, <1>3, <1>4, <1>5, <1>6, <1>7, <1>8, <1>9, <1>10, <1>11, <1>12, <1>13,
     <1>14, <1>15, <1>16, <1>17, <1>18, <1>19, <1>20, <1>21, <1>22, <1>23, <1>24, <1>25
  DEF Next, Boot, Plant, Ev, Driver, Led, BleSave, Ble

\* One writer at a time, and what it leaves in the file.
LEMMA StoreStep == TypeInv /\ Order /\ Store /\ [Next]_vars => Store'
<1> SUFFICES ASSUME TypeInv /\ Order /\ Store, [Next]_vars PROVE Store'
  OBVIOUS
<1>1. CASE BootLoad
  BY <1>1 DEF TypeInv, FileType, Order, Store, BootLoad, storeVars, stateVars, netVars, histVars
<1>2. CASE BootCreate
  BY <1>2
  DEF TypeInv, FileType, Order, Store, BootCreate, OpenForWriting, storeVars, stateVars,
      netVars, histVars
<1>3. CASE BootPut
  BY <1>3
  DEF TypeInv, FileType, Order, Store, BootPut, PutLine, storeVars, stateVars, netVars,
      histVars
<1>4. CASE BootClose
  BY <1>4
  DEF TypeInv, FileType, Order, Store, BootClose, CloseFile, NoWriter, storeVars,
      stateVars, netVars, histVars
<1>5. CASE Plant
  BY <1>5
  DEF Plant, TypeInv, FileType, Order, Store, PlantPoll, plantUnchanged, storeVars,
      stateVars, netVars, histVars, PlantCheck, PlantDoing, PlantWifi, PlantWait,
      PlantChannel, PlantState, PlantFlag
<1>6. CASE Ev
  BY <1>6
  DEF Ev, TypeInv, FileType, Order, Store, EvConnected, netUnchanged, storeVars,
      stateVars, netVars, histVars, EvConnBits, EvGotIp, EvDisconnected, EvReconnect,
      EvClearBits
<1>7. CASE Driver
  BY <1>7
  DEF Driver, TypeInv, FileType, Order, Store, DriverConnects, netUnchanged, storeVars,
      stateVars, netVars, histVars, DriverFails, DriverGotIp, DriverDrops, Associated
<1>8. CASE LedLook
  BY <1>8
  DEF TypeInv, FileType, Order, Store, LedLook, ledUnchanged, storeVars, stateVars,
      netVars, histVars
<1>9. CASE LedNoButton
  BY <1>9
  DEF TypeInv, FileType, Order, Store, LedNoButton, ledUnchanged, storeVars, stateVars,
      netVars, histVars
<1>10. CASE LedHeld
  BY <1>10
  DEF TypeInv, FileType, Order, Store, LedHeld, ledUnchanged, storeVars, stateVars,
      netVars, histVars
<1>11. CASE LedState
  BY <1>11
  DEF TypeInv, FileType, Order, Store, LedState, ledUnchanged, storeVars, stateVars,
      netVars, histVars
<1>12. CASE LedBle
  BY <1>12
  DEF TypeInv, FileType, Order, Store, LedBle, ledUnchanged, storeVars, stateVars,
      netVars, histVars
<1>13. CASE BleUser
  BY <1>13
  DEF TypeInv, FileType, Order, Store, BleUser, bleUnchanged, storeVars, stateVars,
      netVars, histVars
<1>14. CASE BlePass
  BY <1>14
  DEF TypeInv, FileType, Order, Store, BlePass, bleUnchanged, storeVars, stateVars,
      netVars, histVars
<1>15. CASE BleCtrl
  BY <1>15
  DEF TypeInv, FileType, Order, Store, BleCtrl, bleUnchanged, storeVars, stateVars,
      netVars, histVars
<1>16. CASE BleOpen
  BY <1>16
  DEF TypeInv, FileType, Order, Store, BleOpen, bleUnchanged, OpenForWriting, storeVars,
      stateVars, netVars, histVars
<1>17. CASE BlePanics
  BY <1>17
  DEF TypeInv, FileType, Order, Store, BlePanics, Restart, BleStart, LedStart, PlantStart,
      WifiStart, NoWriter, storeVars, stateVars, netVars, histVars
<1>18. CASE BlePut
  BY <1>18
  DEF TypeInv, FileType, Order, Store, BlePut, bleUnchanged, PutLine, storeVars,
      stateVars, netVars, histVars
<1>19. CASE BleClose
  BY <1>19
  DEF TypeInv, FileType, Order, Store, BleClose, bleUnchanged, CloseFile, NoWriter,
      storeVars, stateVars, netVars, histVars
<1>20. CASE BleReply
  BY <1>20
  DEF TypeInv, FileType, Order, Store, BleReply, bleUnchanged, storeVars, stateVars,
      netVars, histVars
<1>21. CASE BleRestart
  BY <1>21
  DEF TypeInv, FileType, Order, Store, BleRestart, Restart, BleStart, LedStart,
      PlantStart, WifiStart, NoWriter, storeVars, stateVars, netVars, histVars
<1>22. CASE PowerLoss
  BY <1>22
  DEF TypeInv, FileType, Order, Store, PowerLoss, Restart, BleStart, LedStart, PlantStart,
      WifiStart, NoWriter, storeVars, stateVars, netVars, histVars
<1>23. CASE UNCHANGED vars
  BY <1>23 DEF TypeInv, FileType, Order, Store, vars, storeVars, stateVars, netVars, histVars
<1> QED
  BY <1>1, <1>2, <1>3, <1>4, <1>5, <1>6, <1>7, <1>8, <1>9, <1>10, <1>11, <1>12, <1>13,
     <1>14, <1>15, <1>16, <1>17, <1>18, <1>19, <1>20, <1>21, <1>22, <1>23
  DEF Next, Boot, Plant, Ev, Driver, Led, BleSave, Ble

\* The set-up is entered once.
LEMMA SetUpStep == TypeInv /\ Order /\ SetUp /\ [Next]_vars => SetUp'
<1> SUFFICES ASSUME TypeInv /\ Order /\ SetUp, [Next]_vars PROVE SetUp'
  OBVIOUS
<1>1. CASE Boot
  BY <1>1
  DEF Boot, TypeInv, FileType, RamType, TaskType, Order, SetUp, BootLoad, storeVars,
      stateVars, netVars, histVars, BootCreate, OpenForWriting, BootPut, PutLine,
      BootClose, CloseFile, NoWriter
<1>2. CASE PlantPoll
  BY <1>2
  DEF TypeInv, FileType, RamType, TaskType, Order, SetUp, PlantPoll, plantUnchanged,
      storeVars, stateVars, netVars, histVars
<1>3. CASE PlantCheck
  BY <1>3
  DEF TypeInv, FileType, RamType, TaskType, Order, SetUp, PlantCheck, plantUnchanged,
      storeVars, stateVars, netVars, histVars
<1>4. CASE PlantDoing
  BY <1>4
  DEF TypeInv, FileType, RamType, TaskType, Order, SetUp, PlantDoing, plantUnchanged,
      storeVars, stateVars, netVars, histVars
<1>5. CASE PlantWifi
  BY <1>5
  DEF TypeInv, FileType, RamType, TaskType, Order, SetUp, PlantWifi, plantUnchanged,
      storeVars, stateVars, netVars, histVars
<1>6. CASE PlantWait
  BY <1>6
  DEF TypeInv, FileType, RamType, TaskType, Order, SetUp, PlantWait, plantUnchanged,
      storeVars, stateVars, netVars, histVars
<1>7. CASE PlantChannel
  BY <1>7
  DEF TypeInv, FileType, RamType, TaskType, Order, SetUp, PlantChannel, plantUnchanged,
      storeVars, stateVars, netVars, histVars
<1>8. CASE PlantState
  BY <1>8
  DEF TypeInv, FileType, RamType, TaskType, Order, SetUp, PlantState, plantUnchanged,
      storeVars, stateVars, netVars, histVars
<1>9. CASE PlantFlag
  BY <1>9
  DEF TypeInv, FileType, RamType, TaskType, Order, SetUp, PlantFlag, plantUnchanged,
      storeVars, stateVars, netVars, histVars
<1>10. CASE EvConnected
  BY <1>10
  DEF TypeInv, FileType, RamType, TaskType, Order, SetUp, EvConnected, netUnchanged,
      storeVars, stateVars, netVars, histVars
<1>11. CASE EvConnBits \/ EvGotIp
  BY <1>11
  DEF TypeInv, FileType, RamType, TaskType, Order, SetUp, EvConnBits, EvGotIp, netUnchanged,
      storeVars, stateVars, netVars, histVars
<1>12. CASE EvDisconnected
  BY <1>12
  DEF TypeInv, FileType, RamType, TaskType, Order, SetUp, EvDisconnected, netUnchanged,
      storeVars, stateVars, netVars, histVars
<1>13. CASE EvReconnect
  BY <1>13
  DEF TypeInv, FileType, RamType, TaskType, Order, SetUp, EvReconnect, netUnchanged,
      storeVars, stateVars, netVars, histVars
<1>14. CASE EvClearBits
  BY <1>14
  DEF TypeInv, FileType, RamType, TaskType, Order, SetUp, EvClearBits, netUnchanged,
      storeVars, stateVars, netVars, histVars
<1>15. CASE Driver
  BY <1>15
  DEF Driver, TypeInv, FileType, RamType, TaskType, Order, SetUp, DriverConnects,
      netUnchanged, storeVars, stateVars, netVars, histVars, DriverFails, DriverGotIp,
      DriverDrops, Associated
<1>16. CASE LedLook
  BY <1>16
  DEF TypeInv, FileType, RamType, TaskType, Order, SetUp, LedLook, ledUnchanged,
      storeVars, stateVars, netVars, histVars
<1>17. CASE LedNoButton
  BY <1>17
  DEF TypeInv, FileType, RamType, TaskType, Order, SetUp, LedNoButton, ledUnchanged,
      storeVars, stateVars, netVars, histVars
<1>18. CASE LedHeld
  BY <1>18
  DEF TypeInv, FileType, RamType, TaskType, Order, SetUp, LedHeld, ledUnchanged,
      storeVars, stateVars, netVars, histVars
<1>19. CASE LedState
  BY <1>19
  DEF TypeInv, FileType, RamType, TaskType, Order, SetUp, LedState, ledUnchanged,
      storeVars, stateVars, netVars, histVars
<1>20. CASE LedBle
  BY <1>20
  DEF TypeInv, FileType, RamType, TaskType, Order, SetUp, LedBle, ledUnchanged, storeVars,
      stateVars, netVars, histVars
<1>21. CASE BleUser
  BY <1>21
  DEF TypeInv, FileType, RamType, TaskType, Order, SetUp, BleUser, bleUnchanged,
      storeVars, stateVars, netVars, histVars
<1>22. CASE BleSave
  <2>1. UNCHANGED <<stateVars, netVars, plant, channels, loaded>>
    BY <1>22 DEF BleSave, BlePass, BleCtrl, BleOpen, BlePut, BleClose, BleReply, bleUnchanged
  <2>2. ble'.pc \notin {"off", "idle"}
    BY <1>22
    DEF BleSave, BlePass, BleCtrl, BleOpen, BlePut, BleClose, BleReply, TypeInv, FileType
  <2> QED BY <2>1, <2>2 DEF SetUp, stateVars, netVars
<1>23. CASE BlePanics \/ BleRestart \/ PowerLoss
  BY <1>23
  DEF TypeInv, FileType, RamType, TaskType, Order, SetUp, BlePanics, Restart, BleStart,
      LedStart, PlantStart, WifiStart, NoWriter, storeVars, stateVars, netVars, histVars,
      BleRestart, PowerLoss
<1>24. CASE UNCHANGED vars
  BY <1>24
  DEF TypeInv, FileType, RamType, TaskType, Order, SetUp, vars, storeVars, stateVars,
      netVars, histVars
<1> QED
  BY <1>1, <1>2, <1>3, <1>4, <1>5, <1>6, <1>7, <1>8, <1>9, <1>10, <1>11, <1>12, <1>13,
     <1>14, <1>15, <1>16, <1>17, <1>18, <1>19, <1>20, <1>21, <1>22, <1>23, <1>24
  DEF Next, Boot, Plant, Ev, Driver, Led, BleSave, Ble

\* The account in use comes from one line of config.txt after the other.
LEMMA MixedStep == TypeInv /\ Order /\ Store /\ SetUp /\ NeverMixed /\ [Next]_vars => NeverMixed'
<1> SUFFICES ASSUME TypeInv /\ Order /\ Store /\ SetUp /\ NeverMixed,
      [Next]_vars PROVE NeverMixed'
  OBVIOUS
<1>1. CASE BootLoad
  BY <1>1, DefaultIsWhole, SettingsTypes
  DEF TypeInv, FileType, RamType, Order, SetUp, NeverMixed, BootLoad, storeVars,
      stateVars, netVars, histVars
<1>2. CASE BootCreate
  BY <1>2, DefaultIsWhole, SettingsTypes
  DEF TypeInv, FileType, RamType, Order, SetUp, NeverMixed, BootCreate, OpenForWriting,
      storeVars, stateVars, netVars, histVars
<1>3. CASE BootPut
  BY <1>3, DefaultIsWhole, SettingsTypes
  DEF TypeInv, FileType, RamType, Order, SetUp, NeverMixed, BootPut, PutLine, storeVars,
      stateVars, netVars, histVars
<1>4. CASE BootClose
  BY <1>4, DefaultIsWhole, SettingsTypes
  DEF TypeInv, FileType, RamType, Order, SetUp, NeverMixed, BootClose, CloseFile,
      NoWriter, storeVars, stateVars, netVars, histVars
<1>5. CASE PlantPoll
  BY <1>5, DefaultIsWhole, SettingsTypes
  DEF TypeInv, FileType, RamType, Order, SetUp, NeverMixed, PlantPoll, plantUnchanged,
      storeVars, stateVars, netVars, histVars
<1>6. CASE PlantCheck
  BY <1>6, DefaultIsWhole, SettingsTypes
  DEF TypeInv, FileType, RamType, Order, SetUp, NeverMixed, PlantCheck, plantUnchanged,
      storeVars, stateVars, netVars, histVars
<1>7. CASE PlantDoing
  BY <1>7, DefaultIsWhole, SettingsTypes
  DEF TypeInv, FileType, RamType, Order, SetUp, NeverMixed, PlantDoing, plantUnchanged,
      storeVars, stateVars, netVars, histVars
<1>8. CASE PlantWifi
  BY <1>8, DefaultIsWhole, SettingsTypes
  DEF TypeInv, FileType, RamType, Order, SetUp, NeverMixed, PlantWifi, plantUnchanged,
      storeVars, stateVars, netVars, histVars
<1>9. CASE PlantWait
  BY <1>9, DefaultIsWhole, SettingsTypes
  DEF TypeInv, FileType, RamType, Order, SetUp, NeverMixed, PlantWait, plantUnchanged,
      storeVars, stateVars, netVars, histVars
<1>10. CASE PlantChannel
  BY <1>10, DefaultIsWhole, SettingsTypes
  DEF TypeInv, FileType, RamType, Order, SetUp, NeverMixed, PlantChannel, plantUnchanged,
      storeVars, stateVars, netVars, histVars
<1>11. CASE PlantState
  BY <1>11, DefaultIsWhole, SettingsTypes
  DEF TypeInv, FileType, RamType, Order, SetUp, NeverMixed, PlantState, plantUnchanged,
      storeVars, stateVars, netVars, histVars
<1>12. CASE PlantFlag
  BY <1>12, DefaultIsWhole, SettingsTypes
  DEF TypeInv, FileType, RamType, Order, SetUp, NeverMixed, PlantFlag, plantUnchanged,
      storeVars, stateVars, netVars, histVars
<1>13. CASE EvConnected
  BY <1>13, DefaultIsWhole, SettingsTypes
  DEF TypeInv, FileType, RamType, Order, SetUp, NeverMixed, EvConnected, netUnchanged,
      storeVars, stateVars, netVars, histVars
<1>14. CASE EvConnBits \/ EvGotIp
  <2>1. UNCHANGED loaded /\ wifi' = [wifi EXCEPT !.bit = TRUE]
    BY <1>14 DEF EvConnBits, EvGotIp, netUnchanged
  <2>2. UNCHANGED <<wifi.inits, wifi.user, wifi.pass>>
    BY <2>1 DEF TypeInv, RamType
  <2> QED BY <2>1, <2>2 DEF NeverMixed
<1>15. CASE EvDisconnected
  BY <1>15, DefaultIsWhole, SettingsTypes
  DEF TypeInv, FileType, RamType, Order, SetUp, NeverMixed, EvDisconnected, netUnchanged,
      storeVars, stateVars, netVars, histVars
<1>16. CASE EvReconnect
  BY <1>16, DefaultIsWhole, SettingsTypes
  DEF TypeInv, FileType, RamType, Order, SetUp, NeverMixed, EvReconnect, netUnchanged,
      storeVars, stateVars, netVars, histVars
<1>17. CASE EvClearBits
  BY <1>17, DefaultIsWhole, SettingsTypes
  DEF TypeInv, FileType, RamType, Order, SetUp, NeverMixed, EvClearBits, netUnchanged,
      storeVars, stateVars, netVars, histVars
<1>18. CASE DriverConnects
  BY <1>18, DefaultIsWhole, SettingsTypes
  DEF TypeInv, FileType, RamType, Order, SetUp, NeverMixed, DriverConnects, netUnchanged,
      storeVars, stateVars, netVars, histVars
<1>19. CASE DriverFails
  BY <1>19, DefaultIsWhole, SettingsTypes
  DEF TypeInv, FileType, RamType, Order, SetUp, NeverMixed, DriverFails, netUnchanged,
      storeVars, stateVars, netVars, histVars
<1>20. CASE DriverDrops \/ DriverGotIp
  BY <1>20, DefaultIsWhole, SettingsTypes
  DEF TypeInv, FileType, RamType, Order, SetUp, NeverMixed, DriverDrops, DriverGotIp,
      Associated, netUnchanged,
      storeVars, stateVars, netVars, histVars
<1>21. CASE Led
  BY <1>21, DefaultIsWhole, SettingsTypes
  DEF Led, TypeInv, FileType, RamType, Order, SetUp, NeverMixed, LedLook, ledUnchanged,
      storeVars, stateVars, netVars, histVars, LedNoButton, LedHeld, LedState, LedBle
<1>22. CASE BleUser
  BY <1>22, DefaultIsWhole, SettingsTypes
  DEF TypeInv, FileType, RamType, Order, SetUp, NeverMixed, BleUser, bleUnchanged,
      storeVars, stateVars, netVars, histVars
<1>23. CASE BleSave
  BY <1>23, DefaultIsWhole, SettingsTypes
  DEF BleSave, TypeInv, FileType, RamType, Order, SetUp, NeverMixed, BlePass,
      bleUnchanged, storeVars, stateVars, netVars, histVars, BleCtrl, BleOpen,
      OpenForWriting, BlePut, PutLine, BleClose, CloseFile, NoWriter, BleReply
<1>24. CASE BlePanics \/ BleRestart \/ PowerLoss
  BY <1>24, DefaultIsWhole, SettingsTypes
  DEF TypeInv, FileType, RamType, Order, SetUp, NeverMixed, BlePanics, Restart, BleStart,
      LedStart, PlantStart, WifiStart, NoWriter, storeVars, stateVars, netVars, histVars,
      BleRestart, PowerLoss
<1>25. CASE UNCHANGED vars
  BY <1>25
  DEF TypeInv, FileType, RamType, Order, SetUp, NeverMixed, vars, storeVars, stateVars,
      netVars, histVars
<1> QED
  BY <1>1, <1>2, <1>3, <1>4, <1>5, <1>6, <1>7, <1>8, <1>9, <1>10, <1>11, <1>12, <1>13,
     <1>14, <1>15, <1>16, <1>17, <1>18, <1>19, <1>20, <1>21, <1>22, <1>23, <1>24, <1>25
  DEF Next, Boot, Plant, Ev, Driver, Led, BleSave, Ble

\* Nobody touches the file between the answer and the next save.
LEMMA AckedStep == TypeInv /\ Order /\ Store /\ AckedIsStored /\ [Next]_vars => AckedIsStored'
<1> SUFFICES ASSUME TypeInv /\ Order /\ Store /\ AckedIsStored, [Next]_vars PROVE AckedIsStored'
  OBVIOUS
<1>1. CASE BootLoad
  BY <1>1
  DEF TypeInv, FileType, Order, Store, AckedIsStored, BootLoad, storeVars, stateVars,
      netVars, histVars
<1>2. CASE BootCreate
  BY <1>2
  DEF TypeInv, FileType, Order, Store, AckedIsStored, BootCreate, OpenForWriting,
      storeVars, stateVars, netVars, histVars
<1>3. CASE BootPut
  BY <1>3
  DEF TypeInv, FileType, Order, Store, AckedIsStored, BootPut, PutLine, storeVars,
      stateVars, netVars, histVars
<1>4. CASE BootClose
  BY <1>4
  DEF TypeInv, FileType, Order, Store, AckedIsStored, BootClose, CloseFile, NoWriter,
      storeVars, stateVars, netVars, histVars
<1>5. CASE Plant
  BY <1>5
  DEF Plant, TypeInv, FileType, Order, Store, AckedIsStored, PlantPoll, plantUnchanged,
      storeVars, stateVars, netVars, histVars, PlantCheck, PlantDoing, PlantWifi,
      PlantWait, PlantChannel, PlantState, PlantFlag
<1>6. CASE Ev
  BY <1>6
  DEF Ev, TypeInv, FileType, Order, Store, AckedIsStored, EvConnected, netUnchanged,
      storeVars, stateVars, netVars, histVars, EvConnBits, EvGotIp, EvDisconnected, EvReconnect,
      EvClearBits
<1>7. CASE Driver
  BY <1>7
  DEF Driver, TypeInv, FileType, Order, Store, AckedIsStored, DriverConnects,
      netUnchanged, storeVars, stateVars, netVars, histVars, DriverFails, DriverGotIp,
      DriverDrops, Associated
<1>8. CASE Led
  BY <1>8
  DEF Led, TypeInv, FileType, Order, Store, AckedIsStored, LedLook, ledUnchanged,
      storeVars, stateVars, netVars, histVars, LedNoButton, LedHeld, LedState, LedBle
<1>9. CASE BleUser
  BY <1>9
  DEF TypeInv, FileType, Order, Store, AckedIsStored, BleUser, bleUnchanged, storeVars,
      stateVars, netVars, histVars
<1>10. CASE BlePass
  BY <1>10
  DEF TypeInv, FileType, Order, Store, AckedIsStored, BlePass, bleUnchanged, storeVars,
      stateVars, netVars, histVars
<1>11. CASE BleCtrl
  BY <1>11
  DEF TypeInv, FileType, Order, Store, AckedIsStored, BleCtrl, bleUnchanged, storeVars,
      stateVars, netVars, histVars
<1>12. CASE BleOpen
  BY <1>12
  DEF TypeInv, FileType, Order, Store, AckedIsStored, BleOpen, bleUnchanged,
      OpenForWriting, storeVars, stateVars, netVars, histVars
<1>13. CASE BlePanics
  BY <1>13
  DEF TypeInv, FileType, Order, Store, AckedIsStored, BlePanics, Restart, BleStart,
      LedStart, PlantStart, WifiStart, NoWriter, storeVars, stateVars, netVars, histVars
<1>14. CASE BlePut
  BY <1>14
  DEF TypeInv, FileType, Order, Store, AckedIsStored, BlePut, bleUnchanged, PutLine,
      storeVars, stateVars, netVars, histVars
<1>15. CASE BleClose
  BY <1>15
  DEF TypeInv, FileType, Order, Store, AckedIsStored, BleClose, bleUnchanged, CloseFile,
      NoWriter, storeVars, stateVars, netVars, histVars
<1>16. CASE BleReply
  BY <1>16
  DEF TypeInv, FileType, Order, Store, AckedIsStored, BleReply, bleUnchanged, storeVars,
      stateVars, netVars, histVars
<1>17. CASE BleRestart
  BY <1>17
  DEF TypeInv, FileType, Order, Store, AckedIsStored, BleRestart, Restart, BleStart,
      LedStart, PlantStart, WifiStart, NoWriter, storeVars, stateVars, netVars, histVars
<1>18. CASE PowerLoss
  BY <1>18
  DEF TypeInv, FileType, Order, Store, AckedIsStored, PowerLoss, Restart, BleStart,
      LedStart, PlantStart, WifiStart, NoWriter, storeVars, stateVars, netVars, histVars
<1>19. CASE UNCHANGED vars
  BY <1>19
  DEF TypeInv, FileType, Order, Store, AckedIsStored, vars, storeVars, stateVars, netVars,
      histVars
<1> QED
  BY <1>1, <1>2, <1>3, <1>4, <1>5, <1>6, <1>7, <1>8, <1>9, <1>10, <1>11, <1>12, <1>13,
     <1>14, <1>15, <1>16, <1>17, <1>18, <1>19
  DEF Next, Boot, Plant, Ev, Driver, Led, BleSave, Ble

\* The channel started is the one of the settings loaded.
LEMMA OnceStep == TypeInv /\ Order /\ SetUp /\ SetUpOnce /\ [Next]_vars => SetUpOnce'
<1> SUFFICES ASSUME TypeInv /\ Order /\ SetUp /\ SetUpOnce, [Next]_vars PROVE SetUpOnce'
  OBVIOUS
<1>1. CASE Boot
  BY <1>1
  DEF Boot, TypeInv, FileType, RamType, Order, SetUp, SetUpOnce, BootLoad, storeVars,
      stateVars, netVars, histVars, BootCreate, OpenForWriting, BootPut, PutLine,
      BootClose, CloseFile, NoWriter
<1>2. CASE PlantPoll
  BY <1>2
  DEF TypeInv, FileType, RamType, Order, SetUp, SetUpOnce, PlantPoll, plantUnchanged,
      storeVars, stateVars, netVars, histVars
<1>3. CASE PlantCheck
  BY <1>3
  DEF TypeInv, FileType, RamType, Order, SetUp, SetUpOnce, PlantCheck, plantUnchanged,
      storeVars, stateVars, netVars, histVars
<1>4. CASE PlantDoing
  BY <1>4
  DEF TypeInv, FileType, RamType, Order, SetUp, SetUpOnce, PlantDoing, plantUnchanged,
      storeVars, stateVars, netVars, histVars
<1>5. CASE PlantWifi
  BY <1>5
  DEF TypeInv, FileType, RamType, Order, SetUp, SetUpOnce, PlantWifi, plantUnchanged,
      storeVars, stateVars, netVars, histVars
<1>6. CASE PlantWait
  BY <1>6
  DEF TypeInv, FileType, RamType, Order, SetUp, SetUpOnce, PlantWait, plantUnchanged,
      storeVars, stateVars, netVars, histVars
<1>7. CASE PlantChannel
  BY <1>7
  DEF TypeInv, FileType, RamType, Order, SetUp, SetUpOnce, PlantChannel, plantUnchanged,
      storeVars, stateVars, netVars, histVars
<1>8. CASE PlantState
  BY <1>8
  DEF TypeInv, FileType, RamType, Order, SetUp, SetUpOnce, PlantState, plantUnchanged,
      storeVars, stateVars, netVars, histVars
<1>9. CASE PlantFlag
  BY <1>9
  DEF TypeInv, FileType, RamType, Order, SetUp, SetUpOnce, PlantFlag, plantUnchanged,
      storeVars, stateVars, netVars, histVars
<1>10. CASE Ev
  BY <1>10
  DEF Ev, TypeInv, FileType, RamType, Order, SetUp, SetUpOnce, EvConnected, netUnchanged,
      storeVars, stateVars, netVars, histVars, EvConnBits, EvGotIp, EvDisconnected, EvReconnect,
      EvClearBits
<1>11. CASE Driver
  BY <1>11
  DEF Driver, TypeInv, FileType, RamType, Order, SetUp, SetUpOnce, DriverConnects,
      netUnchanged, storeVars, stateVars, netVars, histVars, DriverFails, DriverGotIp,
      DriverDrops, Associated
<1>12. CASE LedLook
  BY <1>12
  DEF TypeInv, FileType, RamType, Order, SetUp, SetUpOnce, LedLook, ledUnchanged,
      storeVars, stateVars, netVars, histVars
<1>13. CASE LedNoButton
  BY <1>13
  DEF TypeInv, FileType, RamType, Order, SetUp, SetUpOnce, LedNoButton, ledUnchanged,
      storeVars, stateVars, netVars, histVars
<1>14. CASE LedHeld
  BY <1>14
  DEF TypeInv, FileType, RamType, Order, SetUp, SetUpOnce, LedHeld, ledUnchanged,
      storeVars, stateVars, netVars, histVars
<1>15. CASE LedState
  BY <1>15
  DEF TypeInv, FileType, RamType, Order, SetUp, SetUpOnce, LedState, ledUnchanged,
      storeVars, stateVars, netVars, histVars
<1>16. CASE LedBle
  BY <1>16
  DEF TypeInv, FileType, RamType, Order, SetUp, SetUpOnce, LedBle, ledUnchanged,
      storeVars, stateVars, netVars, histVars
<1>17. CASE BleUser
  BY <1>17
  DEF TypeInv, FileType, RamType, Order, SetUp, SetUpOnce, BleUser, bleUnchanged,
      storeVars, stateVars, netVars, histVars
<1>18. CASE BleSave
  BY <1>18
  DEF BleSave, TypeInv, FileType, RamType, Order, SetUp, SetUpOnce, BlePass, bleUnchanged,
      storeVars, stateVars, netVars, histVars, BleCtrl, BleOpen, OpenForWriting, BlePut,
      PutLine, BleClose, CloseFile, NoWriter, BleReply
<1>19. CASE BlePanics \/ BleRestart \/ PowerLoss
  BY <1>19
  DEF TypeInv, FileType, RamType, Order, SetUp, SetUpOnce, BlePanics, Restart, BleStart,
      LedStart, PlantStart, WifiStart, NoWriter, storeVars, stateVars, netVars, histVars,
      BleRestart, PowerLoss
<1>20. CASE UNCHANGED vars
  BY <1>20
  DEF TypeInv, FileType, RamType, Order, SetUp, SetUpOnce, vars, storeVars, stateVars,
      netVars, histVars
<1> QED
  BY <1>1, <1>2, <1>3, <1>4, <1>5, <1>6, <1>7, <1>8, <1>9, <1>10, <1>11, <1>12, <1>13,
     <1>14, <1>15, <1>16, <1>17, <1>18, <1>19, <1>20
  DEF Next, Boot, Plant, Ev, Driver, Led, BleSave, Ble

----------------------------------------------------------------------------
\* Every step keeps the invariant.
LEMMA InvStep == IInv /\ [Next]_vars => IInv'
<1> SUFFICES ASSUME IInv, [Next]_vars PROVE IInv'
  OBVIOUS
<1>1. /\ TypeInv /\ FileType /\ Order /\ Store /\ SetUp
      /\ NeverMixed /\ AckedIsStored /\ SetUpOnce
  BY DEF IInv, TypeInv
<1>2. TypeInv'
  BY <1>1, FileTypeStep, RamTypeStep, TaskTypeStep DEF TypeInv
<1>3. Order' /\ Store' /\ SetUp'
  BY <1>1, OrderStep, StoreStep, SetUpStep
<1>4. NeverMixed' /\ AckedIsStored' /\ SetUpOnce'
  BY <1>1, MixedStep, AckedStep, OnceStep
<1> QED BY <1>2, <1>3, <1>4 DEF IInv

\* IInv is an invariant of every behaviour.
LEMMA Invariant == Spec => []IInv
BY InitInv, InvStep, PTL DEF Spec

\* Every variable keeps to the values the code tests it against, whatever
\* the accounts and however often the device starts.
THEOREM TypeCorrect == Spec => []TypeOK
<1>1. IInv => TypeOK
  BY TypeInvIsTypeOK DEF IInv
<1> QED BY <1>1, Invariant, PTL

\* The name of one network is never used with the password of another, for
\* any accounts and a power failure at any moment of any save.
THEOREM AccountsNeverMix == Spec => []NeverMixed
<1>1. IInv => NeverMixed
  BY DEF IInv
<1> QED BY <1>1, Invariant, PTL

\* What the phone was told is saved stays saved until the next save, over any
\* number of restarts and power failures.
THEOREM AckedStaysStored == Spec => []AckedIsStored
<1>1. IInv => AckedIsStored
  BY DEF IInv
<1> QED BY <1>1, Invariant, PTL

\* One set-up and one control channel per start, in every interleaving of the
\* tasks and the Wi-Fi events.
THEOREM SetUpAtMostOnce == Spec => []SetUpOnce
<1>1. IInv => SetUpOnce
  BY DEF IInv
<1> QED BY <1>1, Invariant, PTL

===============================================================================
