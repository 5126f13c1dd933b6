---------------------------- MODULE Provisioning ----------------------------
(***************************************************************************)
(* From power-on to a running control channel, and the smart configuration *)
(* that changes the Wi-Fi account over Bluetooth.  Five activities share   *)
(* DeviceData.eStateDevice, change_device_state and the settings:          *)
(*   boot   app_main, which loads /spiffs/config.txt before it creates the *)
(*          tasks                                                          *)
(*   plant  PlantControl_Task: plant_check_StateDevice and, called from    *)
(*          it, wifi_task and the start of the control channel             *)
(*   ev     the event loop task, in event_handler_wifi                     *)
(*   led    led_task, which shows the state and watches the button         *)
(*   ble    the Bluetooth host task, in the GATT write handler             *)
(* and the power may fail at any moment: RAM is lost, the flash is not.    *)
(***************************************************************************)
EXTENDS Integers, Sequences

CONSTANTS
  Default,     \* the account compiled in: "thao123", "123456789", LOCAL
  Wanted,      \* the accounts a phone may send
  Air,         \* the account of the access point in reach
  MaxBoots,    \* bound: starts of the device
  MaxDrops,    \* bound: connections lost and attempts that fail by chance
  PowerFails,  \* may the power fail?
  WritesFail   \* may the flash refuse lines when config.txt is closed?

Controls == {"LOCAL", "ONLINE", "UART", "OTHER"}

ASSUME ProvisioningAssumption ==
  /\ Wanted \union {Default} \subseteq [user : STRING, pass : STRING, ctrl : Controls]
  /\ Default.ctrl = "LOCAL"
  /\ \A c \in Wanted : c.user # "empty"
  /\ MaxBoots \in Nat /\ MaxDrops \in Nat
  /\ PowerFails \in BOOLEAN /\ WritesFail \in BOOLEAN

NoText == "empty"   \* the empty string
Configs == Wanted \union {Default}
Users == {c.user : c \in Configs} \union {NoText}
Passwords == {c.pass : c \in Configs} \union {NoText}

VARIABLES
  file,        \* config.txt: does it exist, whose lines, how many of them
  writer,      \* the stream open on it: by whom, and the lines put so far
  settings,    \* DeviceData.WifiStation_Info and eCtrlStateDevice
  eStateDevice,
  changeState, \* change_device_state
  smartConfig, \* DeviceData.SmartConfig_State
  boot, plant, ev, led,
  ble,         \* and, as history, whether the flash cut the last save
  wifi,        \* the driver, its account and WIFI_CONNECTED_BIT
  events,      \* system events not handled yet
  channels,    \* the control channels started
  loaded,      \* history: the settings as loaded at this start
  acked,       \* history: the account answered with success after a save the
               \* flash took whole, until the next save
  env          \* starts and drops so far: bounds of the model

storeVars == <<file, writer, settings>>
stateVars == <<eStateDevice, changeState, smartConfig>>
netVars   == <<wifi, events, ev>>
histVars  == <<loaded, acked, env>>
vars == <<storeVars, stateVars, netVars, histVars, boot, plant, led, ble, channels>>

\* What a file with the first n lines of c makes of the settings: a field
\* without a line keeps what app_main left there.
Prefix(c, n) ==
  [user |-> IF n >= 1 THEN c.user ELSE NoText,
   pass |-> IF n >= 2 THEN c.pass ELSE NoText,
   ctrl |-> IF n >= 3 THEN c.ctrl ELSE "LOCAL"]

Blank == [user |-> NoText, pass |-> NoText, ctrl |-> "LOCAL"]
NoWriter == [who |-> "none", lines |-> 0]
NoConfig == [user |-> NoText, pass |-> NoText, ctrl |-> "OTHER"]

Settings == [user : Users, pass : Passwords, ctrl : Controls]
States == {"NORMAL", "SMART_CONFIG", "SMART_CONFIG_DOING", "WIFI_AP_DISCONNECT",
           "WIFI_CONNECTED", "WIFI_RECONNECT"}
BootPcs == {"load", "create", "put", "close", "done"}
PlantPcs == {"poll", "check", "doing", "wifi", "delay", "wait", "channel", "state", "flag"}
EvPcs == {"idle", "connBits", "reconnect", "clearBits"}
LedPcs == {"look", "button", "state", "ble"}
BlePcs == {"off", "idle", "pass", "ctrl", "open", "put", "close", "reply", "restart"}

TypeOK ==
  /\ file \in [there : BOOLEAN, of : Configs, lines : 0 .. 3]
  /\ writer \in [who : {"none", "boot", "ble"}, lines : 0 .. 3]
  /\ settings \in Settings /\ loaded \in Settings
  /\ eStateDevice \in States /\ changeState \in BOOLEAN /\ smartConfig \in BOOLEAN
  /\ boot \in BootPcs
  /\ plant \in [pc : PlantPcs, seen : States]
  /\ ev \in EvPcs
  /\ led \in [pc : LedPcs, shows : {"none", "connected", "reconnect", "smart"}, doing : BOOLEAN]
  /\ ble \in [pc : BlePcs, msg : Configs, cut : BOOLEAN]
  /\ wifi \in [driver : {"off", "idle", "trying", "up", "online"}, inits : Nat,
               user : Users, pass : Passwords, bit : BOOLEAN]
  /\ events \in Seq({"connected", "gotIp", "disconnected"})
  /\ channels \subseteq Controls
  /\ acked \in Configs \union {NoConfig}
  /\ env \in [boots : 0 .. MaxBoots, drops : 0 .. MaxDrops]

PlantStart == [pc |-> "poll", seen |-> "WIFI_AP_DISCONNECT"]
LedStart  == [pc |-> "look", shows |-> "none", doing |-> FALSE]
BleStart  == [pc |-> "off", msg |-> Default, cut |-> FALSE]
WifiStart == [driver |-> "off", inits |-> 0, user |-> NoText, pass |-> NoText, bit |-> FALSE]

\* app_main's assignments and, for the rest of the RAM, zeroes.
Init ==
  /\ file = [there |-> FALSE, of |-> Default, lines |-> 0]
  /\ acked = NoConfig
  /\ env = [boots |-> 0, drops |-> 0]
  /\ writer = NoWriter
  /\ settings = Blank /\ loaded = Blank
  /\ eStateDevice = "WIFI_AP_DISCONNECT" /\ changeState = TRUE /\ smartConfig = FALSE
  /\ boot = "load" /\ plant = PlantStart /\ ev = "idle" /\ events = << >>
  /\ led = LedStart /\ ble = BleStart /\ wifi = WifiStart
  /\ channels = {}

\* esp_restart, a panic or the power: RAM starts over.
Restart ==
  /\ env.boots < MaxBoots
  /\ env' = [env EXCEPT !.boots = @ + 1]
  /\ writer' = NoWriter
  /\ settings' = Blank /\ loaded' = Blank
  /\ eStateDevice' = "WIFI_AP_DISCONNECT" /\ changeState' = TRUE /\ smartConfig' = FALSE
  /\ boot' = "load" /\ plant' = PlantStart /\ ev' = "idle" /\ events' = << >>
  /\ led' = LedStart /\ ble' = BleStart /\ wifi' = WifiStart
  /\ channels' = {}
  /\ UNCHANGED acked

\* The power fails: of the lines put into an open stream any number has
\* reached the flash (a line whole or not at all).
PowerLoss ==
  /\ PowerFails
  /\ \/ writer.who = "none" /\ UNCHANGED file
     \/ /\ writer.who # "none"
        /\ \E n \in 0 .. writer.lines : file' = [file EXCEPT !.lines = n]
  /\ Restart

----------------------------------------------------------------------------
(* logger_LoadInfo_WifiStation.  fopen(.., "w") empties the file at once;   *)
(* the lines are in the stream's buffer until fclose.                      *)

OpenForWriting(who, c) ==
  /\ file' = [there |-> TRUE, of |-> c, lines |-> 0]
  /\ writer' = [who |-> who, lines |-> 0]

PutLine(who) ==
  /\ writer.who = who
  /\ writer' = [writer EXCEPT !.lines = @ + 1]

\* Nobody looks at what fputs and fclose return: what does not fit is lost.
CloseFile(who) ==
  /\ writer.who = who
  /\ \E n \in 0 .. writer.lines :
       /\ n = writer.lines \/ WritesFail
       /\ file' = [file EXCEPT !.lines = n]
  /\ writer' = NoWriter

\* Mutant: the lines that are missing are taken from the default account.
BootLoadMixed ==
  /\ boot = "load"
  /\ settings' = IF file.there
                 THEN [user |-> file.of.user,
                       pass |-> IF file.lines >= 2 THEN file.of.pass ELSE Default.pass,
                       ctrl |-> IF file.lines >= 3 THEN file.of.ctrl ELSE "LOCAL"]
                 ELSE Default
  /\ boot' = IF file.there THEN "done" ELSE "create"
  /\ loaded' = settings'
  /\ UNCHANGED <<file, writer, stateVars, netVars, acked, env, plant, led, ble, channels>>

\* A file that exists is read line by line; without one the default account
\* is taken, and written.
BootLoad ==
  /\ boot = "load"
  /\ settings' = IF file.there THEN Prefix(file.of, file.lines) ELSE Default
  /\ boot' = IF file.there THEN "done" ELSE "create"
  /\ loaded' = settings'
  /\ UNCHANGED <<file, writer, stateVars, netVars, acked, env, plant, led, ble, channels>>

BootCreate ==
  /\ boot = "create"
  /\ OpenForWriting("boot", Default)
  /\ boot' = "put"
  /\ UNCHANGED <<settings, stateVars, netVars, histVars, plant, led, ble, channels>>

BootPut ==
  /\ boot = "put"
  /\ PutLine("boot")
  /\ boot' = IF writer'.lines = 3 THEN "close" ELSE "put"
  /\ UNCHANGED <<file, settings, stateVars, netVars, histVars, plant, led, ble, channels>>

BootClose ==
  /\ boot = "close"
  /\ CloseFile("boot")
  /\ boot' = "done"
  /\ UNCHANGED <<settings, stateVars, netVars, histVars, plant, led, ble, channels>>

----------------------------------------------------------------------------
(* PlantControl_Task.                                                      *)

plantUnchanged == <<storeVars, smartConfig, ev, histVars, boot, led, ble>>

\* plant_check_StateDevice(DeviceData.eStateDevice): the argument is read once.
PlantPoll ==
  /\ boot = "done" /\ plant.pc = "poll"
  /\ plant' = [pc |-> IF eStateDevice = "NORMAL" THEN "poll" ELSE "check", seen |-> eStateDevice]
  /\ UNCHANGED <<plantUnchanged, eStateDevice, changeState, wifi, events, channels>>

\* The chain of tests: eStateDevice itself, not the argument, is compared
\* with SMART_CONFIG and with WIFI_AP_DISCONNECT, and change_device_state
\* must be set.
PlantCheck ==
  /\ plant.pc = "check"
  /\ \/ /\ eStateDevice = "SMART_CONFIG" /\ changeState
        /\ changeState' = FALSE
        /\ plant' = [plant EXCEPT !.pc = "doing"]
     \/ /\ plant.seen \notin {"WIFI_RECONNECT", "WIFI_CONNECTED"}
        /\ eStateDevice = "WIFI_AP_DISCONNECT" /\ changeState
        /\ changeState' = FALSE
        /\ plant' = [plant EXCEPT !.pc = "wifi"]
     \/ /\ ~(eStateDevice = "SMART_CONFIG" /\ changeState)
        /\ ~(/\ plant.seen \notin {"WIFI_RECONNECT", "WIFI_CONNECTED"}
             /\ eStateDevice = "WIFI_AP_DISCONNECT" /\ changeState)
        /\ plant' = [plant EXCEPT !.pc = "poll"]
        /\ UNCHANGED changeState
  /\ UNCHANGED <<plantUnchanged, eStateDevice, wifi, events, channels>>

PlantDoing ==
  /\ plant.pc = "doing"
  /\ eStateDevice' = "SMART_CONFIG_DOING"
  /\ changeState' = FALSE
  /\ plant' = [plant EXCEPT !.pc = "poll"]
  /\ UNCHANGED <<plantUnchanged, wifi, events, channels>>

\* wifi_init_sta copies the account and starts the driver, whose start event
\* is answered with esp_wifi_connect.
PlantWifi ==
  /\ plant.pc = "wifi"
  /\ wifi' = [driver |-> "trying", inits |-> wifi.inits + 1,
              user |-> settings.user, pass |-> settings.pass, bit |-> FALSE]
  /\ plant' = [plant EXCEPT !.pc = "delay"]
  /\ UNCHANGED <<plantUnchanged, eStateDevice, changeState, events, channels>>

\* wait_for_ip, after a delay in wifi_init_sta: it blocks without a timeout
\* unless the bit is set; the bit is not cleared on exit.
PlantWait ==
  /\ plant.pc = "delay"
  /\ plant' = [plant EXCEPT !.pc = IF wifi.bit THEN "channel" ELSE "wait"]
  /\ UNCHANGED <<plantUnchanged, eStateDevice, changeState, wifi, events, channels>>

\* Mutant: TCP is started beside the channel asked for.
PlantChannelBoth ==
  /\ plant.pc = "channel"
  /\ channels' = channels \union {"LOCAL", settings.ctrl}
  /\ plant' = [plant EXCEPT !.pc = "state"]
  /\ UNCHANGED <<plantUnchanged, eStateDevice, changeState, wifi, events>>

\* tcp_server_create_task, vMQTTClient_Start or uart_command_start; a number
\* the phone made up starts none.
PlantChannel ==
  /\ plant.pc = "channel"
  /\ channels' = channels \union ({settings.ctrl} \ {"OTHER"})
  /\ plant' = [plant EXCEPT !.pc = "state"]
  /\ UNCHANGED <<plantUnchanged, eStateDevice, changeState, wifi, events>>

\* change_next_state(E_DEVICE_NORMAL), over whatever was stored meanwhile.
PlantState ==
  /\ plant.pc = "state"
  /\ eStateDevice' = "NORMAL"
  /\ plant' = [plant EXCEPT !.pc = "flag"]
  /\ UNCHANGED <<plantUnchanged, changeState, wifi, events, channels>>

PlantFlag ==
  /\ plant.pc = "flag"
  /\ changeState' = TRUE
  /\ plant' = [plant EXCEPT !.pc = "poll"]
  /\ UNCHANGED <<plantUnchanged, eStateDevice, wifi, events, channels>>

----------------------------------------------------------------------------
(* The Wi-Fi driver (external) and event_handler_wifi.                     *)

netUnchanged == <<storeVars, changeState, smartConfig, boot, led, ble, channels, loaded, acked>>

Associated == wifi.driver \in {"up", "online"}
Matches == wifi.user = Air.user /\ wifi.pass = Air.pass

DriverConnects ==
  /\ wifi.driver = "trying" /\ Matches
  /\ wifi' = [wifi EXCEPT !.driver = "up"]
  /\ events' = Append(events, "connected")
  /\ UNCHANGED <<netUnchanged, eStateDevice, ev, plant, env>>

\* An attempt fails for good with another account, by chance with this one.
DriverFails ==
  /\ wifi.driver = "trying"
  /\ \/ ~Matches /\ UNCHANGED env
     \/ Matches /\ env.drops < MaxDrops /\ env' = [env EXCEPT !.drops = @ + 1]
  /\ wifi' = [wifi EXCEPT !.driver = "idle"]
  /\ events' = Append(events, "disconnected")
  /\ UNCHANGED <<netUnchanged, eStateDevice, ev, plant>>

\* DHCP has an address for the station.
DriverGotIp ==
  /\ wifi.driver = "up"
  /\ wifi' = [wifi EXCEPT !.driver = "online"]
  /\ events' = Append(events, "gotIp")
  /\ UNCHANGED <<netUnchanged, eStateDevice, ev, plant, env>>

DriverDrops ==
  /\ Associated /\ env.drops < MaxDrops
  /\ env' = [env EXCEPT !.drops = @ + 1]
  /\ wifi' = [wifi EXCEPT !.driver = "idle"]
  /\ events' = Append(events, "disconnected")
  /\ UNCHANGED <<netUnchanged, eStateDevice, ev, plant>>

EvConnected ==
  /\ ev = "idle" /\ events # << >> /\ Head(events) = "connected"
  /\ events' = Tail(events)
  /\ eStateDevice' = "WIFI_CONNECTED"
  /\ ev' = "connBits"
  /\ UNCHANGED <<netUnchanged, wifi, plant, env>>

\* xEventGroupSetBits makes a waiting task ready at once, whatever happens to
\* the bit before that task runs.
EvConnBits ==
  /\ ev = "connBits"
  /\ wifi' = [wifi EXCEPT !.bit = TRUE]
  /\ plant' = IF plant.pc = "wait" THEN [plant EXCEPT !.pc = "channel"] ELSE plant
  /\ ev' = "idle"
  /\ UNCHANGED <<netUnchanged, eStateDevice, events, env>>

\* IPV4_GOTIP_BIT is the same bit, so that an event overtaken by the loss of
\* the connection sets it once more before it is cleared.
EvGotIp ==
  /\ ev = "idle" /\ events # << >> /\ Head(events) = "gotIp"
  /\ events' = Tail(events)
  /\ wifi' = [wifi EXCEPT !.bit = TRUE]
  /\ plant' = IF plant.pc = "wait" THEN [plant EXCEPT !.pc = "channel"] ELSE plant
  /\ UNCHANGED <<netUnchanged, ev, eStateDevice, env>>

EvDisconnected ==
  /\ ev = "idle" /\ events # << >> /\ Head(events) = "disconnected"
  /\ events' = Tail(events)
  /\ eStateDevice' = "WIFI_RECONNECT"
  /\ ev' = "reconnect"
  /\ UNCHANGED <<netUnchanged, wifi, plant, env>>

\* Mutant: no new attempt after a connection was lost.
EvReconnectNot ==
  /\ ev = "reconnect"
  /\ ev' = "clearBits"
  /\ UNCHANGED <<netUnchanged, wifi, eStateDevice, events, plant, env>>

\* esp_wifi_connect.
EvReconnect ==
  /\ ev = "reconnect"
  /\ wifi' = [wifi EXCEPT !.driver = "trying"]
  /\ ev' = "clearBits"
  /\ UNCHANGED <<netUnchanged, eStateDevice, events, plant, env>>

EvClearBits ==
  /\ ev = "clearBits"
  /\ wifi' = [wifi EXCEPT !.bit = FALSE]
  /\ ev' = "idle"
  /\ UNCHANGED <<netUnchanged, eStateDevice, events, plant, env>>

----------------------------------------------------------------------------
(* led_task: one round of the loop shows the state, then looks at the      *)
(* button.                                                                 *)

ledUnchanged == <<storeVars, changeState, netVars, histVars, boot, plant, channels>>

\* Mutant: a lost connection is shown like a connection.
LedLookConnected ==
  /\ boot = "done" /\ led.pc = "look"
  /\ led' = [led EXCEPT !.pc = "button",
               !.shows = IF smartConfig THEN "smart"
                         ELSE IF eStateDevice \in {"WIFI_CONNECTED", "NORMAL", "WIFI_RECONNECT"}
                         THEN "connected" ELSE @]
  /\ UNCHANGED <<ledUnchanged, eStateDevice, smartConfig, ble>>

LedLook ==
  /\ boot = "done" /\ led.pc = "look"
  /\ led' = [led EXCEPT !.pc = "button",
               !.shows = CASE eStateDevice \in {"WIFI_CONNECTED", "NORMAL"} -> "connected"
                           [] eStateDevice = "WIFI_RECONNECT" /\ ~smartConfig -> "reconnect"
                           [] eStateDevice \notin {"WIFI_CONNECTED", "NORMAL"} /\ smartConfig -> "smart"
                           [] OTHER -> @]
  /\ UNCHANGED <<ledUnchanged, eStateDevice, smartConfig, ble>>

LedNoButton ==
  /\ led.pc = "button"
  /\ led' = [led EXCEPT !.pc = "look"]
  /\ UNCHANGED <<ledUnchanged, eStateDevice, smartConfig, ble>>

\* The button has been held for more than two seconds in all.  By then plant,
\* which runs at once after its creation, has started the Wi-Fi driver.
LedHeld ==
  /\ led.pc = "button" /\ ~led.doing
  /\ wifi.inits > 0
  /\ smartConfig' = TRUE
  /\ led' = [led EXCEPT !.pc = "state"]
  /\ UNCHANGED <<ledUnchanged, eStateDevice, ble>>

LedState ==
  /\ led.pc = "state"
  /\ eStateDevice' = "SMART_CONFIG"
  /\ led' = [led EXCEPT !.pc = "ble"]
  /\ UNCHANGED <<ledUnchanged, smartConfig, ble>>

\* ble_create_task: from now on a phone can connect.
LedBle ==
  /\ led.pc = "ble"
  /\ ble' = [ble EXCEPT !.pc = "idle"]
  /\ led' = [led EXCEPT !.pc = "look", !.doing = TRUE]
  /\ UNCHANGED <<ledUnchanged, eStateDevice, smartConfig>>

----------------------------------------------------------------------------
(* json_parser_smartconfig in the GATT write handler.  A message without   *)
(* wifi_ssid or wifi_password is refused and changes nothing.              *)

bleUnchanged == <<stateVars, netVars, loaded, env, boot, plant, led, channels>>

BleUser ==
  /\ ble.pc = "idle"
  /\ \E c \in Wanted :
       /\ ble' = [ble EXCEPT !.pc = "pass", !.msg = c]
       /\ settings' = [settings EXCEPT !.user = c.user]
  /\ UNCHANGED <<bleUnchanged, file, writer, acked>>

BlePass ==
  /\ ble.pc = "pass"
  /\ settings' = [settings EXCEPT !.pass = ble.msg.pass]
  /\ ble' = [ble EXCEPT !.pc = "ctrl"]
  /\ UNCHANGED <<bleUnchanged, file, writer, acked>>

BleCtrl ==
  /\ ble.pc = "ctrl"
  /\ settings' = [settings EXCEPT !.ctrl = ble.msg.ctrl]
  /\ ble' = [ble EXCEPT !.pc = "open"]
  /\ UNCHANGED <<bleUnchanged, file, writer, acked>>

BleOpen ==
  /\ ble.pc = "open"
  /\ OpenForWriting("ble", ble.msg)
  /\ ble' = [ble EXCEPT !.pc = "put"]
  /\ acked' = NoConfig
  /\ UNCHANGED <<bleUnchanged, settings>>

\* A message without direction_ctrl dereferences NULL before anything is
\* stored; without a free stream fputs does: the chip panics and restarts.
BlePanics ==
  /\ ble.pc \in {"idle", "open"}
  /\ UNCHANGED file
  /\ Restart

\* Mutant: one line too many.
BlePutMore ==
  /\ ble.pc = "put"
  /\ PutLine("ble")
  /\ ble' = [ble EXCEPT !.pc = IF writer.lines = 3 THEN "close" ELSE "put"]
  /\ UNCHANGED <<bleUnchanged, file, settings, acked>>

BlePut ==
  /\ ble.pc = "put"
  /\ PutLine("ble")
  /\ ble' = [ble EXCEPT !.pc = IF writer'.lines = 3 THEN "close" ELSE "put"]
  /\ UNCHANGED <<bleUnchanged, file, settings, acked>>

\* Mutant: the stream is not closed before the answer.
BleCloseNot ==
  /\ ble.pc = "close"
  /\ ble' = [ble EXCEPT !.pc = "reply"]
  /\ UNCHANGED <<bleUnchanged, storeVars, acked>>

BleClose ==
  /\ ble.pc = "close"
  /\ CloseFile("ble")
  /\ ble' = [ble EXCEPT !.pc = "reply", !.cut = (file'.lines # writer.lines)]
  /\ UNCHANGED <<bleUnchanged, settings, acked>>

\* The answer is success whether or not the flash took the lines.
BleReply ==
  /\ ble.pc = "reply"
  /\ acked' = IF ble.cut THEN NoConfig ELSE ble.msg
  /\ ble' = [ble EXCEPT !.pc = "restart"]
  /\ UNCHANGED <<bleUnchanged, storeVars>>

\* esp32_user_restart.
BleRestart ==
  /\ ble.pc = "restart"
  /\ UNCHANGED file
  /\ Restart

----------------------------------------------------------------------------
Boot == BootLoad \/ BootCreate \/ BootPut \/ BootClose
Plant ==
  \/ PlantPoll \/ PlantCheck \/ PlantDoing \/ PlantWifi \/ PlantWait
  \/ PlantChannel \/ PlantState \/ PlantFlag
Ev ==
  \/ EvConnected \/ EvConnBits \/ EvGotIp
  \/ EvDisconnected \/ EvReconnect \/ EvClearBits
Driver == DriverConnects \/ DriverFails \/ DriverGotIp \/ DriverDrops
Led == LedLook \/ LedNoButton \/ LedHeld \/ LedState \/ LedBle
BleSave == BlePass \/ BleCtrl \/ BleOpen \/ BlePut \/ BleClose \/ BleReply
Ble == BleUser \/ BleSave \/ BlePanics \/ BleRestart

Next == Boot \/ Plant \/ Ev \/ Driver \/ Led \/ Ble \/ PowerLoss

Spec == Init /\ [][Next]_vars

\* Every task is scheduled; the driver ends every attempt.  No phone, button,
\* lost connection or power failure is ever required.
FairSpec ==
  /\ Spec
  /\ WF_vars(Boot) /\ WF_vars(Plant) /\ WF_vars(Ev) /\ WF_vars(BleSave)
  /\ WF_vars(BleRestart)
  /\ WF_vars(DriverConnects \/ DriverFails)
  /\ WF_vars(LedLook) /\ WF_vars(LedNoButton \/ LedHeld) /\ WF_vars(LedState \/ LedBle)

----------------------------------------------------------------------------
(* Properties.                                                             *)

\* The account the station was started with, and the settings loaded at
\* start, are those of one account, or blank from some line on: the name of
\* one network is never used with the password of another
\* (logger_LoadInfo_WifiStation, json_parser_smartconfig, wifi_init_sta).
NeverMixed ==
  /\ \E c \in Configs, n \in 0 .. 3 : loaded = Prefix(c, n)
  /\ wifi.inits > 0 => wifi.user = loaded.user /\ wifi.pass = loaded.pass

\* An account answered with success stays whole in config.txt until another
\* save begins, and every later start loads it (WRITE_EVT in bluetooth.c
\* answers after json_parser_smartconfig has closed the file).  The answer to
\* a save the flash did not take whole is success too; it is not counted.
AckedIsStored ==
  acked # NoConfig => file = [there |-> TRUE, of |-> acked, lines |-> 3]

\* The set-up runs once per start (esp_event_loop_init and the driver's
\* initialisation abort the second time) and starts at most one control
\* channel, the one of the settings loaded, unless a smart configuration is
\* being saved, which ends in a restart.
SetUpOnce ==
  /\ wifi.inits <= 1
  /\ channels # {} /\ ble.pc \in {"off", "idle"} => channels = {loaded.ctrl}

\* With the right account loaded for good, the control channel is started in
\* the end, whatever connections are lost and buttons held meanwhile, unless a
\* restart is due (which the bound MaxBoots holds back here).
SetUpCompletes ==
  (<>[](loaded = Air /\ boot = "done" /\ ble.pc # "restart")) => <>(channels # {})

\* In the end the LED tells a station that stays connected from one that
\* never does, or shows the smart configuration (led_task, event_handler_wifi).
LedTellsLink ==
  /\ <>[]Associated => <>[](led.shows \in {"connected", "smart"})
  /\ <>[](wifi.inits > 0 /\ ~Associated) => <>[](led.shows \in {"reconnect", "smart"})

=============================================================================
