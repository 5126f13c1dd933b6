------------------------------ MODULE AcWorld ------------------------------
(***************************************************************************)
(* The Argo, Airwell, Amcor, LG, Samsung, Whirlpool and Teco remotes       *)
(* (IrArgo.cpp, IrAirwell.cpp, IrAmcor.cpp, IrLG.cpp, IrSamsung.cpp,       *)
(* IrWhirlpool.cpp, IrTeco.cpp), laid out as in AcDaikin.                  *)
(***************************************************************************)
EXTENDS AcCommon, Sequences

----------------------------------------------------------------------------
(* Ir_Argo.                                                                *)

Argo_bits ==
  [Mode |-> 3, Temp |-> 5, Fan |-> 2, RoomTemp |-> 5, Night |-> 1, Max |-> 1, Power |-> 1,
   iFeel |-> 1, flap_mode |-> 8]

kArgoAuto == 2
kArgoOff == 3
kArgoHeatAuto == 5
kArgoFan3 == 3
kArgoTempDelta == 4
kArgoMaxRoomTemp == 35
kArgoMinTemp == 10
kArgoMaxTemp == 32

\* The mode of a fan alone is no mode of this remote.
Argo_convertMode(m) == Lookup(kCool :> 0 @@ kHeat :> 4 @@ kDry :> 1, m, kArgoAuto)
Argo_convertFan(f) ==
  Lookup(kMin :> 1 @@ kLow :> 1 @@ kMedium :> 2 @@ kHigh :> kArgoFan3 @@ kMax :> kArgoFan3, f, 0)

Argo_setTemp(s, degrees) ==
  [s EXCEPT !.Temp = Clamp(degrees, kArgoMinTemp, kArgoMaxTemp) - kArgoTempDelta]
Argo_setRoomTemp(s, degrees) ==
  [s EXCEPT !.RoomTemp = Clamp(degrees, kArgoTempDelta, kArgoMaxRoomTemp) - kArgoTempDelta]
Argo_setMode(s, mode) == [s EXCEPT !.Mode = OneOf(mode, 0 .. kArgoHeatAuto, kArgoAuto)]

\* The constructor leaves the flap, which no frame carries, as the memory was.
Argo_fresh ==
  {Argo_setRoomTemp(Argo_setTemp(
     [[f \in DOMAIN Argo_bits |-> 0] EXCEPT !.Mode = kArgoAuto, !.flap_mode = v], 20), 25) : v \in {0, 255}}

Argo_setparam(s, r) ==
  LET moded == Argo_setMode([s EXCEPT !.Power = Truth(r.power)], Argo_convertMode(r.mode))
  IN  Argo_setTemp([moded EXCEPT !.Fan = Clamp(Argo_convertFan(r.fan), 0, kArgoFan3)], r.temp)

Argo_options(s) ==
  Toggles(s, {"Max", "Night", "iFeel"}) \union Each(s, "flap_mode", 0 .. 7)
  \union {Argo_setRoomTemp(s, t) : t \in {0, 20, 255}}
  \union {Argo_setMode(s, m) : m \in {kArgoOff, kArgoHeatAuto, 6}}

Argo_asks(s) ==
  [power |-> s.Power, temp |-> s.Temp + kArgoTempDelta,
   mode |-> Lookup(0 :> kCool @@ 1 :> kDry @@ 4 :> kHeat @@ kArgoHeatAuto :> kHeat, s.Mode, kAuto)]

Argo_send == <<Section(0, 11)>>
Argo_checksum == {Sum(0, 9, 10)}

----------------------------------------------------------------------------
(* Ir_Airwell: the remote has no power state, only a button to press.      *)

Airwell_bits == [Temp |-> 4, Fan |-> 2, Mode |-> 3, PowerToggle |-> 1]

kAirwellDry == 4
kAirwellAuto == 3
kAirwellFan == 5
kAirwellFanAuto == 3
kAirwellMinTemp == 16
kAirwellMaxTemp == 30

\* kAirwellKnownGoodState
Airwell_stateReset == [Temp |-> 10, Fan |-> 0, Mode |-> kAirwellFan, PowerToggle |-> 0]

Airwell_convertMode(m) ==
  Lookup(kCool :> 1 @@ kHeat :> 2 @@ kDry :> kAirwellDry @@ kFan :> kAirwellFan, m, kAirwellAuto)
Airwell_convertFan(f) ==
  Lookup(kMin :> 0 @@ kLow :> 0 @@ kMedium :> 1 @@ kHigh :> 2 @@ kMax :> 2, f, kAirwellFanAuto)

Airwell_setFan(s, speed) ==
  [s EXCEPT !.Fan = IF s.Mode = kAirwellDry THEN 0 ELSE Clamp(speed, 0, kAirwellFanAuto)]
Airwell_setMode(s, mode) ==
  Airwell_setFan([s EXCEPT !.Mode = OneOf(mode, 1 .. kAirwellFan, kAirwellAuto)], s.Fan)
Airwell_setTemp(s, degrees) ==
  [s EXCEPT !.Temp = Clamp(degrees, kAirwellMinTemp, kAirwellMaxTemp) - kAirwellMinTemp + 1]
Airwell_setparam(s, r) ==
  LET moded == Airwell_setMode([s EXCEPT !.PowerToggle = Truth(r.power)], Airwell_convertMode(r.mode))
  IN  Airwell_setTemp(Airwell_setFan(moded, Airwell_convertFan(r.fan)), r.temp)

Airwell_options(s) == Toggles(s, {"PowerToggle"}) \union {Airwell_setMode(s, m) : m \in 0 .. 6}

Airwell_asks(s) ==
  [power |-> s.PowerToggle, temp |-> s.Temp + kAirwellMinTemp - 1,
   mode |-> Lookup(1 :> kCool @@ 2 :> kHeat @@ 4 :> kDry @@ 5 :> kFan, s.Mode, kAuto)]

Airwell_send == <<Section(0, 4)>>     \* 34 bits, Manchester coded
Airwell_checksum == {}

----------------------------------------------------------------------------
(* Ir_Amcor.                                                               *)

Amcor_bits == [Mode |-> 3, Fan |-> 3, Temp |-> 6, Power |-> 4, Max |-> 2, Vent |-> 2]

kAmcorCool == 1
kAmcorHeat == 2
kAmcorFan == 3
kAmcorAuto == 5
kAmcorFanAuto == 4
kAmcorMinTemp == 12
kAmcorMaxTemp == 32
kAmcorPowerOn == 3
kAmcorPowerOff == 12
kAmcorMax == 3
kAmcorVentOn == 3

Amcor_stateReset ==
  [Mode |-> kAmcorAuto, Fan |-> kAmcorFanAuto, Temp |-> 25, Power |-> 0, Max |-> 0, Vent |-> 0]

Amcor_convertMode(m) ==
  Lookup(kCool :> kAmcorCool @@ kHeat :> kAmcorHeat @@ kDry :> 4 @@ kFan :> kAmcorFan, m, kAmcorAuto)
Amcor_convertFan(f) ==
  Lookup(kMin :> 1 @@ kLow :> 1 @@ kMedium :> 2 @@ kHigh :> 3 @@ kMax :> 3, f, kAmcorFanAuto)

Amcor_setPower(s, on) == [s EXCEPT !.Power = IF on = 1 THEN kAmcorPowerOn ELSE kAmcorPowerOff]
Amcor_setTemp(s, degrees) == [s EXCEPT !.Temp = Clamp(degrees, kAmcorMinTemp, kAmcorMaxTemp)]
Amcor_setFan(s, speed) == [s EXCEPT !.Fan = OneOf(speed, 1 .. kAmcorFanAuto, kAmcorFanAuto)]
Amcor_setMode(s, mode) ==
  [s EXCEPT !.Mode = OneOf(mode, 1 .. kAmcorAuto, kAmcorAuto),
            !.Vent = IF mode = kAmcorFan THEN kAmcorVentOn ELSE 0]
Amcor_setMax(s, on) ==
  CASE on = 0 -> [s EXCEPT !.Max = 0]
    [] on = 1 /\ s.Mode = kAmcorCool -> [s EXCEPT !.Max = kAmcorMax, !.Temp = kAmcorMinTemp]
    [] on = 1 /\ s.Mode = kAmcorHeat -> [s EXCEPT !.Max = kAmcorMax, !.Temp = kAmcorMaxTemp]
    [] OTHER -> s
Amcor_setparam(s, r) ==
  LET moded == Amcor_setMode(Amcor_setPower(s, Truth(r.power)), Amcor_convertMode(r.mode))
  IN  Amcor_setTemp(Amcor_setFan(moded, Amcor_convertFan(r.fan)), r.temp)

Amcor_options(s) ==
  {Amcor_setMax(s, on) : on \in Bit} \union {Amcor_setMode(s, m) : m \in 0 .. 6}
  \union {Amcor_setFan(s, v) : v \in {0, 7}}

Amcor_asks(s) ==
  [power |-> BitOf(s.Power = kAmcorPowerOn), temp |-> s.Temp,
   mode |-> Lookup(1 :> kCool @@ 2 :> kHeat @@ 3 :> kFan @@ 4 :> kDry, s.Mode, kAuto)]

Amcor_send == <<Section(0, 7)>>
Amcor_checksum == {Sum(0, 6, 7)}

----------------------------------------------------------------------------
(* Ir_LG: a constant command turns the unit off, whatever the state says.  *)

LG_bits == [Fan |-> 3, Temp |-> 4, Mode |-> 3, Power |-> 2, _temp |-> 8, _protocol |-> 1]

kLgAcAuto == 3
kLgAcFanAuto == 5
kLgAcTempAdjust == 15
kLgAcMinTemp == 16
kLgAcMaxTemp == 30
kLgAcPowerOff == 3
kLgAcPowerOn == 0

\* kLgAcOffCommand; the protocol is 0 for LG and 1 for LG2.
LG_stateReset ==
  [Fan |-> 5, Temp |-> 0, Mode |-> 0, Power |-> kLgAcPowerOff, _temp |-> 15, _protocol |-> 0]

LG_convertMode(m) == Lookup(kCool :> 0 @@ kHeat :> 4 @@ kFan :> 2 @@ kDry :> 1, m, kLgAcAuto)
LG_convertFan(f) ==
  Lookup(kMin :> 0 @@ kLow :> 1 @@ kMedium :> 2 @@ kHigh :> 4 @@ kMax :> 4, f, kLgAcFanAuto)

LG_setTemp(s, degrees) ==
  LET temp == Clamp(degrees, kLgAcMinTemp, kLgAcMaxTemp)
  IN  [s EXCEPT !._temp = temp, !.Temp = temp - kLgAcTempAdjust]
LG_setPower(s, on) ==
  IF on = 1 THEN LG_setTemp([s EXCEPT !.Power = kLgAcPowerOn], s._temp)
  ELSE [s EXCEPT !.Power = kLgAcPowerOff, !.Temp = 0]
LG_setFan(s, speed) == [s EXCEPT !.Fan = OneOf(speed, {0, 1, 2, 4, 5}, kLgAcFanAuto)]
LG_setMode(s, mode) == [s EXCEPT !.Mode = OneOf(mode, 0 .. 4, kLgAcAuto)]
LG_setparam(s, r) ==
  LET moded == LG_setMode(LG_setPower(s, Truth(r.power)), LG_convertMode(r.mode))
  IN  LG_setTemp(LG_setFan(moded, LG_convertFan(r.fan)), r.temp)

LG_options(s) ==
  Each(s, "_protocol", Bit) \union {LG_setPower(s, on) : on \in Bit}
  \union {LG_setFan(s, v) : v \in {3, 7}} \union {LG_setMode(s, m) : m \in {5, 7}}

LG_asks(s) ==
  [power |-> BitOf(s.Power = kLgAcPowerOn),
   temp |-> IF s.Power = kLgAcPowerOn THEN s.Temp + kLgAcTempAdjust ELSE s._temp,
   mode |-> Lookup(0 :> kCool @@ 1 :> kDry @@ 2 :> kFan @@ 4 :> kHeat, s.Mode, kAuto)]

LG_frame(s) == IF s.Power = kLgAcPowerOn THEN s ELSE LG_stateReset
LG_send == <<Section(0, 3)>>          \* 28 bits
LG_checksum == {Sum(1, 3, 0)}         \* four nibbles, and the nibble that holds their sum

----------------------------------------------------------------------------
(* Ir_Samsung.  Powerful10 and Breeze are the same three bits.             *)

Samsung_bits ==
  [Quiet1 |-> 1, Power1 |-> 1, Quiet5 |-> 1, Power6 |-> 2, Powerful8 |-> 8, Swing |-> 3,
   Powerful10 |-> 3, Display |-> 1, Clean10 |-> 1, Ion |-> 1, Clean11 |-> 1, Temp |-> 4,
   Fan |-> 3, Mode |-> 3, Beep |-> 1, _forcepower |-> 1, _lastsentpowerstate |-> 1]

kSamsungAcPowerfulMask8 == 80
kSamsungAcSwingMove == 2
kSamsungAcSwingStop == 7
kSamsungAcPowerful10On == 3
kSamsungAcBreezeOn == 5
kSamsungAcMinTemp == 16
kSamsungAcMaxTemp == 30
kSamsungAcAuto == 0
kSamsungAcHeat == 4
kSamsungAcFanAuto == 0
kSamsungAcFanAuto2 == 6
kSamsungAcFanTurbo == 7

Samsung_stateReset ==
  [Quiet1 |-> 1, Power1 |-> 0, Quiet5 |-> 0, Power6 |-> 3, Powerful8 |-> 2,
   Swing |-> kSamsungAcSwingMove, Powerful10 |-> 0, Display |-> 1, Clean10 |-> 0, Ion |-> 0,
   Clean11 |-> 0, Temp |-> 0, Fan |-> 2, Mode |-> 1, Beep |-> 0, _forcepower |-> 1,
   _lastsentpowerstate |-> 1]

Samsung_convertMode(m) ==
  Lookup(kCool :> 1 @@ kHeat :> kSamsungAcHeat @@ kDry :> 2 @@ kFan :> 3, m, kSamsungAcAuto)
Samsung_convertFan(f) ==
  Lookup(kMin :> 2 @@ kLow :> 2 @@ kMedium :> 4 @@ kHigh :> 5 @@ kMax :> kSamsungAcFanTurbo, f, 0)

Samsung_getPower(s) == BitOf(s.Power6 = 3 /\ s.Power1 = 0)
Samsung_setPower(s, on) == [s EXCEPT !.Power1 = 1 - on, !.Power6 = IF on = 1 THEN 3 ELSE 0]
Samsung_setTemp(s, temp) ==
  [s EXCEPT !.Temp = Clamp(temp, kSamsungAcMinTemp, kSamsungAcMaxTemp) - kSamsungAcMinTemp]
\* Auto has a fan speed of its own, and no other mode has it.
Samsung_setFan(s, speed) ==
  IF \/ speed \in {0, 2, 4, 5, kSamsungAcFanTurbo} /\ s.Mode # kSamsungAcAuto
     \/ speed = kSamsungAcFanAuto2 /\ s.Mode = kSamsungAcAuto
  THEN [s EXCEPT !.Fan = speed] ELSE s
\* Mutant: the mode is changed and the fan left at the speed of the old one.
Samsung_setModeOnly(s, mode) == [s EXCEPT !.Mode = OneOf(mode, 0 .. kSamsungAcHeat, kSamsungAcAuto)]
Samsung_setMode(s, mode) ==
  LET newmode == OneOf(mode, 0 .. kSamsungAcHeat, kSamsungAcAuto)
  IN  [s EXCEPT !.Mode = newmode,
                !.Fan = CASE newmode = kSamsungAcAuto -> kSamsungAcFanAuto2
                          [] newmode # kSamsungAcAuto /\ @ = kSamsungAcFanAuto2 -> kSamsungAcFanAuto
                          [] OTHER -> @]
Samsung_setparam(s, r) ==
  LET moded == Samsung_setMode(Samsung_setPower(s, Truth(r.power)), Samsung_convertMode(r.mode))
  IN  Samsung_setTemp(Samsung_setFan(moded, Samsung_convertFan(r.fan)), r.temp)

Samsung_getBreeze(s) ==
  s.Powerful10 = kSamsungAcBreezeOn /\ s.Fan = kSamsungAcFanAuto /\ s.Swing # kSamsungAcSwingMove
MaskedOff(byte) == (byte \div 128) * 128 + (byte \div 32 % 2) * 32 + (byte % 16)
Samsung_getPowerful(s) ==
  /\ s.Powerful8 = MaskedOff(s.Powerful8)
  /\ s.Powerful10 = kSamsungAcPowerful10On
  /\ s.Fan = kSamsungAcFanTurbo

Samsung_quietBits(s, on) == [s EXCEPT !.Quiet1 = 1 - on, !.Quiet5 = on]
Samsung_setPowerful(s, on) ==
  LET off_value == IF Samsung_getBreeze(s) THEN kSamsungAcBreezeOn ELSE 0
      cleared == MaskedOff(s.Powerful8)
      full == Samsung_setFan([s EXCEPT !.Powerful10 = kSamsungAcPowerful10On, !.Powerful8 = cleared],
                             kSamsungAcFanTurbo)
      plain == [s EXCEPT !.Powerful10 = off_value, !.Powerful8 = cleared + kSamsungAcPowerfulMask8]
  IN  CASE on = 1 -> Samsung_quietBits(full, 0)
        [] on = 0 /\ s.Fan = kSamsungAcFanTurbo -> Samsung_setFan(plain, kSamsungAcFanAuto)
        [] OTHER -> plain
Samsung_setQuiet(s, on) ==
  IF on = 1 THEN Samsung_setPowerful(Samsung_setFan(Samsung_quietBits(s, 1), kSamsungAcFanAuto), 0)
  ELSE Samsung_quietBits(s, 0)
Samsung_setSwing(s, on) ==
  [s EXCEPT !.Swing = IF on = 1 THEN kSamsungAcSwingMove ELSE kSamsungAcSwingStop]
Samsung_setBreeze(s, on) ==
  LET off_value == IF Samsung_getPowerful(s) THEN kSamsungAcPowerful10On ELSE 0
  IN  IF on = 0 THEN [s EXCEPT !.Powerful10 = off_value]
      ELSE Samsung_setSwing(Samsung_setFan([s EXCEPT !.Powerful10 = kSamsungAcBreezeOn],
                                           kSamsungAcFanAuto), 0)

Samsung_options(s) ==
  Toggles(s, {"Beep", "Display", "Ion"}) \union {[s EXCEPT !.Clean10 = v, !.Clean11 = v] : v \in Bit}
  \union {Samsung_setSwing(s, on) : on \in Bit} \union {Samsung_setQuiet(s, on) : on \in Bit}
  \union {Samsung_setPowerful(s, on) : on \in Bit} \union {Samsung_setBreeze(s, on) : on \in Bit}
  \union {Samsung_setPower(s, on) : on \in Bit}
  \union {Samsung_setFan(s, v) : v \in 0 .. 7}

Samsung_asks(s) ==
  [power |-> Samsung_getPower(s), temp |-> s.Temp + kSamsungAcMinTemp,
   mode |-> Lookup(1 :> kCool @@ 2 :> kDry @@ 3 :> kFan @@ 4 :> kHeat, s.Mode, kAuto)]

\* A change of power, and the first frame of all, is announced by a constant frame of
\* three sections; turning off is nothing but that frame.
Samsung_changes(s) == s._forcepower = 1 \/ Samsung_getPower(s) # s._lastsentpowerstate
Samsung_sent(s) ==
  IF Samsung_changes(s) THEN [s EXCEPT !._forcepower = 0, !._lastsentpowerstate = Samsung_getPower(s)]
  ELSE s
Samsung_send(s) ==
  IF Samsung_changes(s) /\ Samsung_getPower(s) = 0
  THEN <<Section(0, 6), Section(7, 13), Section(14, 20)>>
  ELSE <<Section(0, 6), Section(7, 13)>>
Samsung_checksum == {Sum(2, 5, 1), Sum(9, 12, 8)}     \* in the high nibble of bytes 1 and 8

----------------------------------------------------------------------------
(* Ir_Whirlpool: every setter also names itself in the command byte.       *)

Whirlpool_bits ==
  [PowerToggle |-> 1, Sleep |-> 1, Swing1 |-> 1, Fan |-> 2, Mode |-> 3, Temp |-> 4, Super |-> 1,
   ClockHour |-> 5, LightOff |-> 1, ClockMinute |-> 6, OffEnabled |-> 1, OffHour |-> 5,
   Swing2 |-> 1, OffMinute |-> 6, OnEnabled |-> 1, OnHour |-> 5, OnMinute |-> 6, Command |-> 8,
   AltTemp |-> 1, _desiredtemp |-> 8]

kWhirlpoolAcHeat == 0
kWhirlpoolAcAuto == 1
kWhirlpoolAcCool == 2
kWhirlpoolAcFan == 4
kWhirlpoolAcFanAuto == 0
kWhirlpoolAcFanHigh == 1
kWhirlpoolAcFanLow == 3
kWhirlpoolAcMinTemp == 18
kWhirlpoolAcMaxTemp == 32
kWhirlpoolAcAutoTemp == 23
kWhirlpoolAcCommandPower == 1
kWhirlpoolAcCommandTemp == 2
kWhirlpoolAcCommandSleep == 3
kWhirlpoolAcCommandSuper == 4
kWhirlpoolAcCommandOnTimer == 5
kWhirlpoolAcCommandMode == 6
kWhirlpoolAcCommandSwing == 7
kWhirlpoolAcCommandFanSpeed == 17
kWhirlpoolAcCommand6thSense == 23
kWhirlpoolAcCommandOffTimer == 29

Whirlpool_getTempOffset(s) == IF s.AltTemp = 1 THEN -2 ELSE 0
Whirlpool_storeTemp(s, temp) ==
  LET low == kWhirlpoolAcMinTemp + Whirlpool_getTempOffset(s)
      high == kWhirlpoolAcMaxTemp + Whirlpool_getTempOffset(s)
  IN  [s EXCEPT !.Temp = Clamp(temp, low, high) - low]
Whirlpool_keepTemp(s, temp) == [Whirlpool_storeTemp(s, temp) EXCEPT !._desiredtemp = temp]

Whirlpool_stateReset ==
  Whirlpool_keepTemp([f \in DOMAIN Whirlpool_bits |-> 0], kWhirlpoolAcAutoTemp)

Whirlpool_convertMode(m) ==
  Lookup(kAuto :> kWhirlpoolAcAuto @@ kHeat :> kWhirlpoolAcHeat @@ kDry :> 3 @@ kFan :> kWhirlpoolAcFan,
         m, kWhirlpoolAcCool)
Whirlpool_convertFan(f) == Lookup(kMin :> 3 @@ kLow :> 3 @@ kMedium :> 2 @@ kHigh :> 1 @@ kMax :> 1, f, 0)

Whirlpool_setPowerToggle(s, on) ==
  [s EXCEPT !.PowerToggle = on, !.Super = 0, !.Command = kWhirlpoolAcCommandPower]
Whirlpool_setFan(s, speed) ==
  IF speed \in 0 .. 3 THEN [s EXCEPT !.Fan = speed, !.Super = 0, !.Command = kWhirlpoolAcCommandFanSpeed]
  ELSE s
Whirlpool_setTemp(s, temp) ==
  [Whirlpool_keepTemp(s, temp) EXCEPT !.Super = 0, !.Command = kWhirlpoolAcCommandTemp]
Whirlpool_setSleep(s, on) ==
  LET slept == [s EXCEPT !.Sleep = on]
  IN  [(IF on = 1 THEN Whirlpool_setFan(slept, kWhirlpoolAcFanLow) ELSE slept)
         EXCEPT !.Command = kWhirlpoolAcCommandSleep]
\* setMode: the case of auto leaves the switch before the mode is stored.
Whirlpool_setMode(s, mode) ==
  LET plain == [s EXCEPT !.Super = 0, !.Command = kWhirlpoolAcCommandSuper]
      cool23 == Whirlpool_storeTemp(Whirlpool_setFan(plain, kWhirlpoolAcFanAuto), kWhirlpoolAcAutoTemp)
  IN  CASE mode = kWhirlpoolAcAuto ->
             [Whirlpool_setSleep(cool23, 0) EXCEPT !.Command = kWhirlpoolAcCommand6thSense]
        [] mode # kWhirlpoolAcAuto /\ mode <= kWhirlpoolAcFan ->
             [plain EXCEPT !.Mode = mode, !.Command = kWhirlpoolAcCommandMode]
        [] OTHER -> plain
Whirlpool_setSuper(s, on) ==
  LET blown == Whirlpool_setFan(s, kWhirlpoolAcFanHigh)
      offset == Whirlpool_getTempOffset(s)
      moved == IF s.Mode = kWhirlpoolAcHeat THEN Whirlpool_setTemp(blown, kWhirlpoolAcMaxTemp + offset)
               ELSE Whirlpool_setMode(Whirlpool_setTemp(blown, kWhirlpoolAcMinTemp + offset), kWhirlpoolAcCool)
  IN  [(IF on = 1 THEN moved ELSE s) EXCEPT !.Super = on, !.Command = kWhirlpoolAcCommandSuper]
Whirlpool_setparam(s, r) ==
  LET moded == Whirlpool_setMode(Whirlpool_setPowerToggle(s, Truth(r.power)), Whirlpool_convertMode(r.mode))
  IN  Whirlpool_setTemp(Whirlpool_setFan(moded, Whirlpool_convertFan(r.fan)), r.temp)

Whirlpool_setModel(s, alt) ==
  LET other == [s EXCEPT !.AltTemp = alt] IN Whirlpool_storeTemp(other, s._desiredtemp)

Hour(mins) == (mins \div 60) % 24
Whirlpool_timers(s) ==
  {[s EXCEPT !.OnEnabled = on, !.Command = kWhirlpoolAcCommandOnTimer] : on \in Bit}
  \union {[s EXCEPT !.OffEnabled = on, !.Command = kWhirlpoolAcCommandOffTimer] : on \in Bit}
  \union {[s EXCEPT !.ClockHour = Hour(t), !.ClockMinute = t % 60] : t \in Minutes}
  \union {[s EXCEPT !.OnHour = Hour(t), !.OnMinute = t % 60] : t \in Minutes}
  \union {[s EXCEPT !.OffHour = Hour(t), !.OffMinute = t % 60] : t \in Minutes}
Whirlpool_options(s) ==
  {Whirlpool_setSleep(s, on) : on \in Bit} \union {Whirlpool_setSuper(s, on) : on \in Bit}
  \union {Whirlpool_setModel(s, alt) : alt \in Bit} \union Toggles(s, {"LightOff"})
  \union {[s EXCEPT !.Swing1 = on, !.Swing2 = on, !.Command = kWhirlpoolAcCommandSwing] : on \in Bit}
  \union Whirlpool_timers(s)

Whirlpool_asks(s) ==
  [power |-> s.PowerToggle, temp |-> s.Temp + kWhirlpoolAcMinTemp + Whirlpool_getTempOffset(s),
   mode |-> Lookup(0 :> kHeat @@ 2 :> kCool @@ 3 :> kDry @@ 4 :> kFan, s.Mode, kAuto)]

Whirlpool_send == <<Section(0, 5), Section(6, 13), Section(14, 20)>>
Whirlpool_checksum == {Sum(2, 11, 13), Sum(14, 19, 20)}

----------------------------------------------------------------------------
(* Ir_Teco.                                                                *)

Teco_bits ==
  [Mode |-> 3, Power |-> 1, Fan |-> 2, Swing |-> 1, Sleep |-> 1, Temp |-> 4, HalfHour |-> 1,
   TensHours |-> 2, TimerOn |-> 1, UnitHours |-> 4, Humid |-> 1, Light |-> 1, Save |-> 1]

kTecoHeat == 4
kTecoMinTemp == 16
kTecoMaxTemp == 30

\* kTecoReset: ten hours on a timer that does not run.
Teco_stateReset == [[f \in DOMAIN Teco_bits |-> 0] EXCEPT !.TensHours = 1]

Teco_convertMode(m) == Lookup(kCool :> 1 @@ kHeat :> kTecoHeat @@ kDry :> 2 @@ kFan :> 3, m, 0)
Teco_convertFan(f) == Lookup(kMin :> 1 @@ kLow :> 1 @@ kMedium :> 2 @@ kHigh :> 3 @@ kMax :> 3, f, 0)
Teco_setTemp(s, temp) == [s EXCEPT !.Temp = Clamp(temp, kTecoMinTemp, kTecoMaxTemp) - kTecoMinTemp]
Teco_setFan(s, speed) == [s EXCEPT !.Fan = OneOf(speed, 0 .. 3, 0)]
Teco_setMode(s, mode) == [s EXCEPT !.Mode = OneOf(mode, 0 .. kTecoHeat, 0)]
Teco_setparam(s, r) ==
  LET moded == Teco_setMode([s EXCEPT !.Power = Truth(r.power)], Teco_convertMode(r.mode))
  IN  Teco_setTemp(Teco_setFan(moded, Teco_convertFan(r.fan)), r.temp)
Teco_setTimer(s, minutes) ==
  LET mins == Clamp(minutes, 0, 24 * 60)
      hours == mins \div 60
  IN  [s EXCEPT !.TimerOn = Truth(mins), !.HalfHour = BitOf(mins % 60 >= 30),
                !.UnitHours = hours % 10, !.TensHours = hours \div 10]

Teco_options(s) ==
  Toggles(s, {"Swing", "Sleep", "Light", "Humid", "Save"})
  \union {Teco_setTimer(s, t) : t \in Minutes \union {29}}
  \union {Teco_setFan(s, 4), Teco_setMode(s, 5)}

Teco_asks(s) ==
  [power |-> s.Power, temp |-> s.Temp + kTecoMinTemp,
   mode |-> Lookup(1 :> kCool @@ 2 :> kDry @@ 3 :> kFan @@ kTecoHeat :> kHeat, s.Mode, kAuto)]

Teco_send == <<Section(0, 4)>>        \* 35 bits
Teco_checksum == {}

=============================================================================
