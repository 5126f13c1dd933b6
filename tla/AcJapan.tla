------------------------------ MODULE AcJapan ------------------------------
(***************************************************************************)
(* The Fujitsu, Panasonic, Sharp, Sanyo and Toshiba remotes (IrFujitsu.cpp, *)
(* IrPanasonic.cpp, IrSharp.cpp, IrSanyo.cpp, IrToshiba.cpp), laid out as  *)
(* in AcDaikin.                                                            *)
(***************************************************************************)
EXTENDS AcCommon

----------------------------------------------------------------------------
(* Ir_Fujitsu.  The members are the state; buildState makes the frame of   *)
(* them, a short one when the command is not a full setting.  SendHAVC     *)
(* builds the model ARRAH2E.                                               *)

Fujitsu_bits ==
  [_temp |-> 5, _fanSpeed |-> 3, _mode |-> 3, _swingMode |-> 2, _cmd |-> 7, _filter |-> 1,
   _clean |-> 1, _timertype |-> 2, _ontimer |-> 11, _offtimer |-> 11, _model |-> 3]

ARRAH2E == 1
ARDB1 == 2
ARREB1E == 3
ARJW2 == 4
ARRY4 == 5
kFujitsuAcModeHeat == 4
kFujitsuAcCmdStayOn == 0
kFujitsuAcCmdTurnOn == 1
kFujitsuAcCmdTurnOff == 2
kFujitsuAcCmdStep == {108, 109}         \* the vertical swing
kFujitsuAcCmdStepHoriz == {121, 122}
kFujitsuAcCmdExtra == {9, 57}           \* econo and powerful
kFujitsuAcSwingVert == 1
kFujitsuAcSwingBoth == 3
kFujitsuAcStopTimers == 0
kFujitsuAcSleepTimer == 1
kFujitsuAcOffTimer == 2
kFujitsuAcOnTimer == 3
kFujitsuAcTimerMax == 12 * 60

Fujitsu_stateReset ==
  [_temp |-> 24, _fanSpeed |-> 1, _mode |-> 1, _swingMode |-> kFujitsuAcSwingBoth,
   _cmd |-> kFujitsuAcCmdTurnOn, _filter |-> 0, _clean |-> 0,
   _timertype |-> kFujitsuAcStopTimers, _ontimer |-> 0, _offtimer |-> 0, _model |-> ARRAH2E]

Fujitsu_convertMode(m) == Lookup(kCool :> 1 @@ kHeat :> 4 @@ kDry :> 2 @@ kFan :> 3, m, 0)
Fujitsu_convertFan(f) ==
  Lookup(kMin :> 4 @@ kLow :> 3 @@ kMedium :> 2 @@ kHigh :> 1 @@ kMax :> 1, f, 0)

Fujitsu_setCmd(s, cmd) ==
  LET always == {kFujitsuAcCmdTurnOff, kFujitsuAcCmdTurnOn} \union kFujitsuAcCmdStep
      allowed == always
                 \union (IF s._model \in {ARRAH2E, ARJW2} THEN kFujitsuAcCmdStepHoriz ELSE {})
                 \union (IF s._model = ARREB1E THEN kFujitsuAcCmdExtra ELSE {})
  IN  [s EXCEPT !._cmd = OneOf(cmd, allowed, kFujitsuAcCmdStayOn)]
StayOn(s) == Fujitsu_setCmd(s, kFujitsuAcCmdStayOn)

Fujitsu_setPower(s, on) ==
  Fujitsu_setCmd(s, IF on = 1 THEN kFujitsuAcCmdTurnOn ELSE kFujitsuAcCmdTurnOff)
Fujitsu_setTemp(s, temp) == StayOn([s EXCEPT !._temp = Clamp(temp, 16, 30)])
Fujitsu_setFanSpeed(s, fan) == StayOn([s EXCEPT !._fanSpeed = IF fan > 4 THEN 1 ELSE fan])
Fujitsu_setMode(s, mode) == StayOn([s EXCEPT !._mode = Clamp(mode, 0, kFujitsuAcModeHeat)])
Fujitsu_setSwing(s, mode) ==
  StayOn([s EXCEPT !._swingMode =
            Clamp(mode, 0, IF s._model \in {ARDB1, ARREB1E, ARRY4} THEN kFujitsuAcSwingVert
                           ELSE kFujitsuAcSwingBoth)])

\* Every setter but setPower makes the command "stay on".
Fujitsu_setparam(s, r) ==
  LET moded == Fujitsu_setMode(Fujitsu_setPower(s, Truth(r.power)), Fujitsu_convertMode(r.mode))
  IN  Fujitsu_setTemp(Fujitsu_setFanSpeed(moded, Fujitsu_convertFan(r.fan)), r.temp)

\* getTimerType: only two of the models have timers.
TimerType(s) == IF s._model \in {ARRAH2E, ARREB1E} THEN s._timertype ELSE kFujitsuAcStopTimers
Fujitsu_offTimer(s, mins, type) ==
  LET new == Clamp(mins, 0, kFujitsuAcTimerMax)
  IN  [s EXCEPT !._offtimer = new,
                !._timertype = CASE mins > 0 -> type
                                 [] mins = 0 /\ TimerType(s) # kFujitsuAcOnTimer -> kFujitsuAcStopTimers
                                 [] OTHER -> @]

Fujitsu_options(s) ==
  Each(s, "_model", {ARRAH2E, ARDB1, ARREB1E, ARJW2, ARRY4})
  \union {Fujitsu_setCmd(s, c) : c \in kFujitsuAcCmdStep \union kFujitsuAcCmdStepHoriz
                                       \union kFujitsuAcCmdExtra \union {255}}
  \union {Fujitsu_setSwing(s, v) : v \in 0 .. 4}
  \union {StayOn(t) : t \in Toggles(s, {"_clean", "_filter"})}
  \union {Fujitsu_offTimer(s, t, type) : t \in Minutes,
                                         type \in {kFujitsuAcOffTimer, kFujitsuAcSleepTimer}}
  \union {[s EXCEPT !._ontimer = Clamp(t, 0, kFujitsuAcTimerMax),
                    !._timertype = CASE t > 0 -> kFujitsuAcOnTimer
                                     [] t = 0 /\ TimerType(s) = kFujitsuAcOnTimer -> kFujitsuAcStopTimers
                                     [] OTHER -> @] : t \in Minutes}

Fujitsu_asks(s) ==
  [power |-> BitOf(s._cmd # kFujitsuAcCmdTurnOff), temp |-> s._temp,
   mode |-> (0 :> kAuto @@ 1 :> kCool @@ 2 :> kDry @@ 3 :> kFan @@ 4 :> kHeat)[s._mode]]

\* getStateLength.
Fujitsu_length(s) ==
  LET full == IF s._model \in {ARDB1, ARJW2} THEN 15 ELSE 16
  IN  IF s._cmd \in {kFujitsuAcCmdStayOn, kFujitsuAcCmdTurnOn} THEN full ELSE full - 9
Fujitsu_send(s) == <<Section(0, Fujitsu_length(s) - 1)>>

\* What validChecksum expects, and the bytes buildState sums: it leaves the switch
\* with a sum of nothing for each model that sets bits of its own first.
Fujitsu_checksum(s) ==
  CASE Fujitsu_length(s) = 16 -> {Sum(7, 14, 15)}
    [] Fujitsu_length(s) = 15 -> {Sum(0, 13, 14)}
    [] Fujitsu_length(s) = 7 -> {Sum(5, 5, 6)}
    [] OTHER -> {}
Fujitsu_built(s) ==
  IF Fujitsu_length(s) = 16 THEN {} ELSE Fujitsu_checksum(s)

----------------------------------------------------------------------------
(* Ir_Panasonic.  The meaning of the bits 0 and 5 of byte 21 depends on    *)
(* the model, which is read back from the bytes 13, 17, 21 and 23.         *)

Panasonic_bits ==
  [Power |-> 1, OnTimer |-> 1, OffTimer |-> 1, bit3 |-> 1, Mode |-> 3, Temp |-> 5, Fan |-> 4,
   SwingV |-> 4, raw17 |-> 8, OnTime |-> 11, OffTime |-> 11, bit21_0 |-> 1, bit21_4 |-> 1,
   bit21_5 |-> 1, Ion |-> 1, raw23 |-> 8, Clock |-> 11, _temp |-> 5, _swingh |-> 4]

kPanasonicUnknown == 0
kPanasonicLke == 1
kPanasonicNke == 2
kPanasonicDke == 3
kPanasonicJke == 4
kPanasonicCkp == 5
kPanasonicRkr == 6
kPanasonicAcFan == 6
kPanasonicAcFanAuto == 7
kPanasonicAcFanDelta == 3
kPanasonicAcFanModeTemp == 27
kPanasonicAcSwingHMiddle == 6
kPanasonicAcTimeMax == 1439
kPanasonicAcTimeSpecial == 1536

Panasonic_stateReset ==
  [Power |-> 0, OnTimer |-> 0, OffTimer |-> 0, bit3 |-> 0, Mode |-> 0, Temp |-> 0, Fan |-> 0,
   SwingV |-> 0, raw17 |-> 0, OnTime |-> kPanasonicAcTimeSpecial,
   OffTime |-> kPanasonicAcTimeSpecial, bit21_0 |-> 0, bit21_4 |-> 0, bit21_5 |-> 0, Ion |-> 0,
   raw23 |-> 129, Clock |-> 0, _temp |-> 25, _swingh |-> kPanasonicAcSwingHMiddle]

Panasonic_convertMode(m) == Lookup(kCool :> 3 @@ kHeat :> 4 @@ kDry :> 2 @@ kFan :> 6, m, 0)
Panasonic_convertFan(f) ==
  Lookup(kMin :> 0 @@ kLow :> 1 @@ kMedium :> 2 @@ kHigh :> 3 @@ kMax :> 4, f,
         kPanasonicAcFanAuto)

Panasonic_setTemp(s, celsius, remember) ==
  LET t == Clamp(celsius, 16, 30) IN [s EXCEPT !.Temp = t, !._temp = IF remember THEN t ELSE @]
Panasonic_setFan(s, fan) ==
  [s EXCEPT !.Fan = (OneOf(fan, {0, 2, 4, 7}, kPanasonicAcFanAuto) + kPanasonicAcFanDelta) % 16]
Panasonic_setMode(s, mode) ==
  CASE mode = kPanasonicAcFan ->
         [Panasonic_setTemp(s, kPanasonicAcFanModeTemp, FALSE) EXCEPT !.Mode = mode]
    [] mode \in {0, 2, 3, 4} -> [Panasonic_setTemp(s, s._temp, TRUE) EXCEPT !.Mode = mode]
    [] OTHER -> [s EXCEPT !.Mode = 0]
Panasonic_setparam(s, r) ==
  LET moded == Panasonic_setMode([s EXCEPT !.Power = Truth(r.power)], Panasonic_convertMode(r.mode))
  IN  Panasonic_setTemp(Panasonic_setFan(moded, Panasonic_convertFan(r.fan)), r.temp, TRUE)

Panasonic_getModel(s) ==
  LET low13 == <<s.Power, s.OnTimer, s.OffTimer, s.bit3>>
  IN  CASE s.raw23 = 137 -> kPanasonicRkr
        [] s.raw23 # 137 /\ s.raw17 = 0 /\ s.bit21_4 = 1 /\ s.raw23 % 2 = 1 -> kPanasonicCkp
        [] s.raw23 = 129 /\ s.raw17 = 0 /\ s.bit21_4 = 0 -> kPanasonicJke
        [] s.raw23 # 137 /\ s.raw17 = 6 /\ low13 = <<0, 1, 0, 0>> -> kPanasonicLke
        [] s.raw23 = 1 /\ ~(s.raw17 = 0 /\ s.bit21_4 = 1)
             /\ ~(s.raw17 = 6 /\ low13 = <<0, 1, 0, 0>>) -> kPanasonicDke
        [] s.raw23 = 129 /\ s.raw17 = 6 /\ low13 # <<0, 1, 0, 0>> -> kPanasonicNke
        [] OTHER -> kPanasonicUnknown

\* Quiet and powerful exclude each other, and trade places in two models.
Swapped(s) == Panasonic_getModel(s) \in {kPanasonicRkr, kPanasonicCkp}
Panasonic_setQuiet(s, on) ==
  IF Swapped(s) THEN [s EXCEPT !.bit21_5 = on, !.bit21_0 = IF on = 1 THEN 0 ELSE @]
  ELSE [s EXCEPT !.bit21_0 = on, !.bit21_5 = IF on = 1 THEN 0 ELSE @]
Panasonic_setPowerful(s, on) ==
  IF Swapped(s) THEN [s EXCEPT !.bit21_0 = on, !.bit21_5 = IF on = 1 THEN 0 ELSE @]
  ELSE [s EXCEPT !.bit21_5 = on, !.bit21_0 = IF on = 1 THEN 0 ELSE @]
Panasonic_setIon(s, on) ==
  [s EXCEPT !.Ion = IF Panasonic_getModel(s) = kPanasonicDke THEN on ELSE @]
Panasonic_setSwingHorizontal(s, desired) ==
  LET model == Panasonic_getModel(s)
      known == desired \in {6, 9, 10, 11, 12, 13}
      kept == [s EXCEPT !._swingh = IF known THEN desired ELSE @]
      low(n) == [kept EXCEPT !.raw17 = (@ \div 16) * 16 + n]
  IN  CASE known /\ model \in {kPanasonicDke, kPanasonicRkr} -> low(desired)
        [] known /\ model \in {kPanasonicNke, kPanasonicLke} -> low(kPanasonicAcSwingHMiddle)
        [] OTHER -> kept

\* setModel clears the low nibble of byte 13: the power bit and both timers.
Panasonic_setModel(s, model) ==
  LET cleared == [s EXCEPT !.Power = 0, !.OnTimer = 0, !.OffTimer = 0, !.bit3 = 0, !.raw17 = 0,
                           !.bit21_4 = 0, !.raw23 = 129, !.Clock = @ % 256]
      marked == CASE model = kPanasonicLke -> [cleared EXCEPT !.OnTimer = 1, !.raw17 = 6]
                  [] model = kPanasonicDke ->
                       Panasonic_setSwingHorizontal(
                         [cleared EXCEPT !.raw23 = 1, !.Clock = @ + 6 * 256], s._swingh)
                  [] model = kPanasonicNke -> [cleared EXCEPT !.raw17 = 6]
                  [] model = kPanasonicCkp -> [cleared EXCEPT !.bit21_4 = 1, !.raw23 = 1]
                  [] model = kPanasonicRkr -> [cleared EXCEPT !.bit3 = 1, !.raw23 = 137]
                  [] OTHER -> cleared
  IN  IF model = kPanasonicUnknown THEN s ELSE marked

\* _setTime and its copy in setOffTimer.
Panasonic_time(mins, roundDown) ==
  LET m == Clamp(mins, 0, kPanasonicAcTimeMax)
  IN  CASE mins = kPanasonicAcTimeSpecial -> mins
        [] mins # kPanasonicAcTimeSpecial /\ roundDown -> m - (m % 10)
        [] OTHER -> m
Panasonic_setOnTimer(s, mins, enable) ==
  [s EXCEPT !.OnTimer = enable, !.OnTime = Panasonic_time(mins, TRUE)]
Panasonic_setOffTimer(s, mins, enable) ==
  [s EXCEPT !.OffTimer = enable, !.OffTime = Panasonic_time(mins, TRUE)]
Panasonic_times == Minutes \union {kPanasonicAcTimeSpecial}

Panasonic_options(s) ==
  {Panasonic_setQuiet(s, on) : on \in Bit} \union {Panasonic_setPowerful(s, on) : on \in Bit}
  \union {Panasonic_setIon(s, on) : on \in Bit}
  \union {Panasonic_setModel(s, v) : v \in 0 .. 6}
  \union {[s EXCEPT !.SwingV = IF v = 15 THEN v ELSE Clamp(v, 1, 5)] : v \in {0, 1, 3, 5, 6, 15}}
  \union {Panasonic_setSwingHorizontal(s, v) : v \in {0, 6, 9, 12, 13}}
  \union {[s EXCEPT !.Clock = Panasonic_time(t, FALSE)] : t \in Panasonic_times}
  \union {Panasonic_setOnTimer(s, t, 0) : t \in Panasonic_times}
  \union {Panasonic_setOnTimer(s, t, 1) : t \in Panasonic_times}
  \union {Panasonic_setOffTimer(s, t, 0) : t \in Panasonic_times}
  \union {Panasonic_setOffTimer(s, t, 1) : t \in Panasonic_times}

Panasonic_asks(s) ==
  [power |-> s.Power, temp |-> s.Temp,
   mode |-> Lookup(2 :> kDry @@ 3 :> kCool @@ 4 :> kHeat @@ 6 :> kFan, s.Mode, kAuto)]

Panasonic_send == <<Section(0, 7), Section(8, 26)>>
Panasonic_checksum == {Sum(0, 25, 26)}

----------------------------------------------------------------------------
(* Ir_Sharp.  Every setter leaves in PowerSpecial and Special what the     *)
(* user would have pressed.                                                *)

Sharp_bits ==
  [Temp |-> 8, PowerSpecial |-> 4, Mode |-> 2, Clean |-> 1, Fan |-> 3, TimerHours |-> 4,
   TimerType |-> 1, TimerEnabled |-> 1, Swing |-> 3, Special |-> 8, Ion |-> 1, Model |-> 1,
   _temp |-> 5, _mode |-> 2, _fan |-> 3, _model |-> 2]

A907 == 1
A705 == 2
kSharpAcAuto == 0
kSharpAcHeat == 1
kSharpAcCool == 2
kSharpAcDry == 3
kSharpAcFanAuto == 2
kSharpAcFanMax == 7
kSharpAcPowerOnFromOff == 1
kSharpAcPowerOff == 2
kSharpAcPowerOn == 3
kSharpAcPowerSetSpecialOff == 7
kSharpAcPowerTimerSetting == 8
kSharpAcSpecialPower == 0
kSharpAcSpecialTurbo == 1
kSharpAcSpecialTempEcono == 4
kSharpAcSpecialFan == 5
kSharpAcSpecialSwing == 6
kSharpAcSpecialTimer == 192
kSharpAcSpecialTimerHalfHour == 222

Sharp_stateReset ==
  [Temp |-> 0, PowerSpecial |-> 0, Mode |-> 0, Clean |-> 0, Fan |-> 0, TimerHours |-> 0,
   TimerType |-> 0, TimerEnabled |-> 0, Swing |-> 0, Special |-> 0, Ion |-> 0, Model |-> 0,
   _temp |-> 15, _mode |-> 0, _fan |-> 0, _model |-> A907]

Sharp_convertMode(m) == Lookup(kCool :> kSharpAcCool @@ kHeat :> kSharpAcHeat
                               @@ kDry :> kSharpAcDry, m, kSharpAcAuto)
Sharp_convertFan(f) == Lookup(kMin :> 4 @@ kLow :> 4 @@ kMedium :> 3 @@ kHigh :> 5
                              @@ kMax :> kSharpAcFanMax, f, kSharpAcFanAuto)

\* setSpecial followed by clearPowerSpecial.
Pressed(s, special) == [s EXCEPT !.Special = special, !.PowerSpecial = @ % 4]
Sharp_setTemp(s, temp, save) ==
  LET degrees == Clamp(temp, 15, 30)
  IN  IF s.Mode \in {kSharpAcAuto, kSharpAcDry} THEN [s EXCEPT !.Temp = 0]
      ELSE Pressed([s EXCEPT !.Temp = (IF s._model = A705 THEN 208 ELSE 192) + degrees - 15,
                             !._temp = IF save THEN degrees ELSE @], kSharpAcSpecialTempEcono)
Sharp_setFan(s, speed, save) ==
  LET known == speed \in {kSharpAcFanAuto, 3, 4, 5, kSharpAcFanMax}
      fan == IF known THEN speed ELSE kSharpAcFanAuto
  IN  Pressed([s EXCEPT !.Fan = fan, !._fan = IF save \/ ~known THEN fan ELSE @], kSharpAcSpecialFan)

\* Only the case of heat reaches the bits of the mode.
Sharp_setMode(s, mode, save) ==
  LET wanted == IF mode = kSharpAcHeat /\ s._model = A705 THEN kSharpAcAuto ELSE mode
      stored == CASE wanted \in {kSharpAcAuto, kSharpAcDry} -> Sharp_setFan(s, kSharpAcFanAuto, FALSE)
                  [] wanted = kSharpAcHeat -> [s EXCEPT !.Mode = wanted]
                  [] OTHER -> s
      warmed == Sharp_setTemp(stored, s._temp, FALSE)
  IN  Pressed([warmed EXCEPT !._mode = IF save THEN wanted ELSE @], kSharpAcSpecialPower)

\* setClean(false) and setPower; setClean(true) turns the power on first.
Sharp_unclean(s) ==
  [Sharp_setFan(Sharp_setMode(s, s._mode, FALSE), s._fan, FALSE)
     EXCEPT !.Clean = 0, !.PowerSpecial = @ % 4]
Sharp_setPower(s, on, prevOn) ==
  LET powered == [s EXCEPT !.PowerSpecial = CASE on = 0 -> kSharpAcPowerOff
                                              [] on = 1 /\ prevOn -> kSharpAcPowerOn
                                              [] OTHER -> kSharpAcPowerOnFromOff]
  IN  [(IF s.Clean = 1 THEN Sharp_unclean(powered) ELSE powered)
         EXCEPT !.Special = kSharpAcSpecialPower]
Sharp_setClean(s, on) ==
  IF on = 0 THEN Sharp_unclean(s)
  ELSE [Sharp_setPower(Sharp_setMode(s, kSharpAcDry, FALSE), 1, FALSE)
          EXCEPT !.Clean = 1, !.PowerSpecial = @ % 4]

Sharp_setparam(s, r) ==
  LET moded == Sharp_setMode(Sharp_setPower(s, Truth(r.power), TRUE), Sharp_convertMode(r.mode), TRUE)
  IN  Sharp_setTemp(Sharp_setFan(moded, Sharp_convertFan(r.fan), TRUE), r.temp, TRUE)

\* setEconoToggle and setLightToggle, which tests for the same model.
Sharp_setEconoToggle(s, on) ==
  IF s._model = A705 THEN s
  ELSE [s EXCEPT !.Special = IF on = 1 THEN kSharpAcSpecialTempEcono ELSE @,
                 !.PowerSpecial = kSharpAcPowerSetSpecialOff - on]
Sharp_setTimer(s, enable, type, mins) ==
  LET halfHours == Clamp(mins \div 30, 0, 24)
      on == enable = 1 /\ halfHours > 0
  IN  [s EXCEPT !.TimerEnabled = BitOf(on), !.TimerType = IF on THEN type ELSE 0,
                !.TimerHours = IF on THEN halfHours \div 2 ELSE 0,
                !.Special = IF on /\ halfHours % 2 = 1 THEN kSharpAcSpecialTimerHalfHour
                            ELSE kSharpAcSpecialTimer,
                !.PowerSpecial = kSharpAcPowerTimerSetting]

Sharp_options(s) ==
  {Sharp_setMode([s EXCEPT !._model = m, !.Model = BitOf(m = A705)], s.Mode, TRUE) : m \in {A907, A705}}
  \union {Sharp_setClean(s, on) : on \in Bit}
  \union {[(IF on = 1 THEN Sharp_setFan(s, kSharpAcFanMax, TRUE) ELSE s)
             EXCEPT !.PowerSpecial = kSharpAcPowerSetSpecialOff - on,
                    !.Special = kSharpAcSpecialTurbo] : on \in Bit}
  \union {[s EXCEPT !.Swing = 7 * on, !.Special = IF on = 1 THEN kSharpAcSpecialSwing ELSE @]
           : on \in Bit}
  \union {[s EXCEPT !.Ion = on, !.PowerSpecial = @ % 4,
                    !.Special = IF on = 1 THEN kSharpAcSpecialSwing ELSE @] : on \in Bit}
  \union {Sharp_setEconoToggle(s, on) : on \in Bit}
  \union {Sharp_setTimer(s, on, type, t) : on \in Bit, type \in Bit, t \in Minutes}

Sharp_asks(s) ==
  [power |-> BitOf(s.PowerSpecial \notin {0, kSharpAcPowerOff}), temp |-> (s.Temp % 16) + 15,
   mode |-> (kSharpAcAuto :> kAuto @@ kSharpAcHeat :> kHeat @@ kSharpAcCool :> kCool
             @@ kSharpAcDry :> kDry)[s.Mode]]

\* The sum is an exclusive or of nibbles, in the high nibble of the last byte.
Sharp_send == <<Section(0, 12)>>
Sharp_checksum == {Sum(0, 11, 12)}

----------------------------------------------------------------------------
(* IrSanyo.  The bit that selects the sensor lies within the five bits of  *)
(* the temperature it measured.                                            *)

Sanyo_bits ==
  [Temp |-> 5, SensorTemp |-> 5, Beep |-> 1, OffHour |-> 4, OffTimer |-> 1, Mode |-> 3, Fan |-> 2,
   Power |-> 2, SwingV |-> 3, Sleep |-> 1]

kSanyoAcPowerOff == 1
kSanyoAcPowerOn == 2
kSanyoAcTempDelta == 4
kSanyoAcHourMax == 15

Sanyo_stateReset ==
  [Temp |-> 13, SensorTemp |-> 17, Beep |-> 1, OffHour |-> 0, OffTimer |-> 0, Mode |-> 1, Fan |-> 0,
   Power |-> kSanyoAcPowerOff, SwingV |-> 5, Sleep |-> 0]

Sanyo_convertMode(m) == Lookup(kCool :> 2 @@ kHeat :> 1 @@ kDry :> 3, m, 4)
Sanyo_convertFan(f) ==
  Lookup(kMin :> 2 @@ kLow :> 2 @@ kMedium :> 3 @@ kHigh :> 1 @@ kMax :> 1, f, 0)
Sanyo_temp(degrees) == Clamp(degrees, 16, 30) - kSanyoAcTempDelta
Sanyo_setparam(s, r) ==
  [s EXCEPT !.Power = IF r.power # 0 THEN kSanyoAcPowerOn ELSE kSanyoAcPowerOff,
            !.Mode = Sanyo_convertMode(r.mode), !.Fan = Sanyo_convertFan(r.fan),
            !.Temp = Sanyo_temp(r.temp)]

Sanyo_setOffTimer(s, mins) ==
  LET hours == Clamp((mins \div 60) % 256, 0, kSanyoAcHourMax)
  IN  [s EXCEPT !.OffTimer = BitOf(hours > 0), !.OffHour = hours]
Sanyo_options(s) ==
  Toggles(s, {"Sleep", "Beep"})
  \union {[s EXCEPT !.SensorTemp = (@ \div 8) * 8 + 4 * on + (@ % 4)] : on \in Bit}
  \union {[s EXCEPT !.SensorTemp = Sanyo_temp(t)] : t \in {0, 16, 20, 25, 30, 255}}
  \union {[s EXCEPT !.SwingV = OneOf(v, {0} \union (2 .. 7), 0)] : v \in 0 .. 8}
  \union {Sanyo_setOffTimer(s, t) : t \in Minutes}

Sanyo_asks(s) ==
  [power |-> BitOf(s.Power = kSanyoAcPowerOn), temp |-> s.Temp + kSanyoAcTempDelta,
   mode |-> Lookup(1 :> kHeat @@ 2 :> kCool @@ 3 :> kDry, s.Mode, kAuto)]

\* The sum is of nibbles.
Sanyo_send == <<Section(0, 8)>>
Sanyo_checksum == {Sum(0, 7, 8)}

----------------------------------------------------------------------------
(* Ir_Toshiba.  Power off is a mode of its own; length is the number of    *)
(* bytes past the sixth.  A change of swing goes out as a second, short    *)
(* frame, which a fresh remote also sends.                                 *)

Toshiba_bits ==
  [length |-> 3, Temp |-> 4, Fan |-> 3, Mode |-> 3, EcoTurbo |-> 2, prev_mode |-> 3,
   _send_swing |-> 1, _swing_mode |-> 2]

kToshibaAcAuto == 0
kToshibaAcFan == 4
kToshibaAcOff == 7
kToshibaAcFanMax == 5
kToshibaAcTurboOn == 1
kToshibaAcEconoOn == 3
kToshibaAcMinLength == 6
kToshibaACStateLength == 9
kToshibaACStateLengthLong == 10

Toshiba_stateReset ==
  [length |-> 3, Temp |-> 5, Fan |-> 0, Mode |-> 0, EcoTurbo |-> 0, prev_mode |-> 0,
   _send_swing |-> 1, _swing_mode |-> 2]

Toshiba_convertMode(m) == Lookup(kCool :> 1 @@ kHeat :> 3 @@ kDry :> 2 @@ kFan :> 4, m, kToshibaAcAuto)
Toshiba_convertFan(f) == OneOf(f, kMin .. kMax, 0)

Toshiba_setStateLength(s, size) == [s EXCEPT !.length = size - kToshibaAcMinLength]
Toshiba_isLong(s) == s.length = kToshibaACStateLengthLong - kToshibaAcMinLength
Toshiba_setMode(s, mode) ==
  LET m == IF mode \in (kToshibaAcAuto .. kToshibaAcFan) \union {kToshibaAcOff} THEN mode
           ELSE kToshibaAcAuto
      sized == IF {mode, m} # {s.prev_mode} THEN Toshiba_setStateLength(s, kToshibaACStateLength) ELSE s
  IN  [sized EXCEPT !.Mode = m, !.prev_mode = IF m = kToshibaAcOff THEN @ ELSE m]
Toshiba_setPower(s, on) ==
  CASE on = 0 -> Toshiba_setMode(s, kToshibaAcOff)
    [] on = 1 /\ s.Mode = kToshibaAcOff -> Toshiba_setMode(s, s.prev_mode)
    [] OTHER -> s
Toshiba_setTemp(s, degrees) == [s EXCEPT !.Temp = Clamp(degrees, 17, 30) - 17]
Toshiba_setFan(s, speed) ==
  LET fan == Clamp(speed, 0, kToshibaAcFanMax) IN [s EXCEPT !.Fan = IF fan > 0 THEN fan + 1 ELSE fan]

\* The mode setparam stores replaces the mode that means off.
Toshiba_setparam(s, r) ==
  LET moded == Toshiba_setMode(Toshiba_setPower(s, Truth(r.power)), Toshiba_convertMode(r.mode))
  IN  Toshiba_setTemp(Toshiba_setFan(moded, Toshiba_convertFan(r.fan)), r.temp)

\* Turbo and econo share two bits; turning one off keeps the other.
Toshiba_setSpecial(s, on, value, other) ==
  CASE on = 1 -> Toshiba_setStateLength([s EXCEPT !.EcoTurbo = value], kToshibaACStateLengthLong)
    [] on = 0 /\ ~(Toshiba_isLong(s) /\ s.EcoTurbo = other) ->
         Toshiba_setStateLength(s, kToshibaACStateLength)
    [] OTHER -> s
Toshiba_setTurbo(s, on) == Toshiba_setSpecial(s, on, kToshibaAcTurboOn, kToshibaAcEconoOn)
Toshiba_setEcono(s, on) == Toshiba_setSpecial(s, on, kToshibaAcEconoOn, kToshibaAcTurboOn)

Toshiba_options(s) ==
  {Toshiba_setTurbo(s, on) : on \in Bit} \union {Toshiba_setEcono(s, on) : on \in Bit}
  \union {Toshiba_setPower(s, on) : on \in Bit}
  \union {IF v > 2 THEN s ELSE [s EXCEPT !._send_swing = 1, !._swing_mode = v] : v \in 0 .. 3}

Toshiba_asks(s) ==
  [power |-> BitOf(s.Mode # kToshibaAcOff), temp |-> s.Temp + 17,
   mode |-> Lookup(1 :> kCool @@ 2 :> kDry @@ 3 :> kHeat @@ 4 :> kFan,
                   IF s.Mode = kToshibaAcOff THEN s.prev_mode ELSE s.Mode, kAuto)]

\* Sending forgets the swing; the second byte is the complement of the first,
\* and so is the fourth of the third.
Toshiba_sent(s) == [s EXCEPT !._send_swing = 0]
\* Mutant: the length in the frame is taken for the length of the frame.
Toshiba_sendPayload(s) == <<Section(0, s.length - 1)>>
Toshiba_send(s) == <<Section(0, s.length + kToshibaAcMinLength - 1)>>
Toshiba_checksum(s) ==
  LET last == s.length + kToshibaAcMinLength - 1
  IN  {Sum(0, 0, 1), Sum(2, 2, 3), Sum(0, last - 1, last)}

=============================================================================
