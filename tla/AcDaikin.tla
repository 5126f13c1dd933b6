------------------------------ MODULE AcDaikin ------------------------------
(***************************************************************************)
(* The Daikin remotes (IrDaikin.cpp).  For each class: the width of its    *)
(* bit-fields, what stateReset leaves in them, its setters, setparam, the  *)
(* setters no message reaches (options), what an air conditioner reads in  *)
(* a state (asks), and the layout of what is sent.                         *)
(***************************************************************************)
EXTENDS AcCommon

kDaikinAuto == 0
kDaikinDry == 2
kDaikinCool == 3
kDaikinHeat == 4
kDaikinFan == 6
kDaikinModes == {kDaikinAuto, kDaikinDry, kDaikinCool, kDaikinHeat, kDaikinFan}
kDaikinMode == kDaikinCool :> kCool @@ kDaikinHeat :> kHeat @@ kDaikinDry :> kDry
               @@ kDaikinFan :> kFan @@ kDaikinAuto :> kAuto
kDaikinMinTemp == 10
kDaikinMaxTemp == 32
kDaikinFanMin == 1
kDaikinFanMax == 5
kDaikinFanAuto == 10
kDaikinFanQuiet == 11
kDaikinUnusedTime == 1536
kDaikin2MinCoolTemp == 18

\* convertMode and convertFan, which most of the classes repeat.
DaikinMode(m) ==
  Lookup(kCool :> kDaikinCool @@ kHeat :> kDaikinHeat @@ kDry :> kDaikinDry
         @@ kFan :> kDaikinFan, m, kDaikinAuto)
DaikinFan(f) == Lookup(kMin :> kDaikinFanQuiet @@ kLow :> kDaikinFanMin @@ kMedium :> 3
                       @@ kHigh :> kDaikinFanMax - 1 @@ kMax :> kDaikinFanMax, f, kDaikinFanAuto)

\* setFan: speeds are sent with two added; getFan takes them off again.
DaikinFanSet(fan) ==
  IF fan \in {kDaikinFanQuiet, kDaikinFanAuto} THEN fan
  ELSE IF fan \in kDaikinFanMin .. kDaikinFanMax THEN fan + 2 ELSE kDaikinFanAuto
DaikinFanGet(fan) == IF fan \in {kDaikinFanQuiet, kDaikinFanAuto} THEN fan ELSE fan - 2
DaikinSetMode(s, mode) == [s EXCEPT !.Mode = OneOf(mode, kDaikinModes, kDaikinAuto)]

----------------------------------------------------------------------------
(* Ir_DaikinESP.                                                           *)

ESP_bits ==
  [Comfort |-> 1, CurrentTime |-> 11, CurrentDay |-> 3, Power |-> 1, OnTimer |-> 1,
   OffTimer |-> 1, Mode |-> 3, Temp |-> 7, SwingV |-> 4, Fan |-> 4, SwingH |-> 4,
   OnTime |-> 12, OffTime |-> 12, Powerful |-> 1, Quiet |-> 1, Sensor |-> 1, Econo |-> 1,
   WeeklyTimer |-> 1, Mold |-> 1]

ESP_stateReset ==
  [Comfort |-> 0, CurrentTime |-> 0, CurrentDay |-> 0, Power |-> 1, OnTimer |-> 0,
   OffTimer |-> 0, Mode |-> kDaikinHeat, Temp |-> 15, SwingV |-> 0, Fan |-> kDaikinFanQuiet,
   SwingH |-> 0, OnTime |-> kDaikinUnusedTime, OffTime |-> kDaikinUnusedTime, Powerful |-> 0,
   Quiet |-> 0, Sensor |-> 0, Econo |-> 0, WeeklyTimer |-> 0, Mold |-> 0]

\* Mutant: the temperature is stored as it came.
ESP_setTempUnclamped(s, temp) == [s EXCEPT !.Temp = temp]
ESP_setTemp(s, temp) == [s EXCEPT !.Temp = Clamp(temp, kDaikinMinTemp, kDaikinMaxTemp)]
ESP_setFan(s, fan) == [s EXCEPT !.Fan = DaikinFanSet(fan)]

ESP_setparam(s, r) ==
  LET powered == [s EXCEPT !.Power = Truth(r.power)]
  IN  ESP_setTemp(ESP_setFan(DaikinSetMode(powered, DaikinMode(r.mode)), DaikinFan(r.fan)),
                  r.temp)

\* Powerful excludes Quiet and Econo.
ESP_options(s) ==
  Each(s, "SwingV", {0, 15}) \union Each(s, "SwingH", {0, 15})
  \union {[s EXCEPT !.Quiet = on, !.Powerful = IF on = 1 THEN 0 ELSE @] : on \in Bit}
  \union {[s EXCEPT !.Econo = on, !.Powerful = IF on = 1 THEN 0 ELSE @] : on \in Bit}
  \union {[s EXCEPT !.Powerful = on, !.Quiet = IF on = 1 THEN 0 ELSE @,
                    !.Econo = IF on = 1 THEN 0 ELSE @] : on \in Bit}
  \union Toggles(s, {"Sensor", "Mold", "Comfort", "WeeklyTimer"})
  \union {[s EXCEPT !.OnTimer = 1, !.OnTime = t] : t \in Minutes}
  \union {[s EXCEPT !.OffTimer = 1, !.OffTime = t] : t \in Minutes}
  \union {[s EXCEPT !.OnTimer = 0, !.OnTime = kDaikinUnusedTime],
          [s EXCEPT !.OffTimer = 0, !.OffTime = kDaikinUnusedTime]}
  \union Each(s, "CurrentTime", Minutes) \union Each(s, "CurrentDay", 0 .. 7)

ESP_asks(s) == [power |-> s.Power, mode |-> kDaikinMode[s.Mode], temp |-> s.Temp]

ESP_send == <<Section(0, 7), Section(8, 15), Section(16, 34)>>
ESP_checksum == {Sum(0, 6, 7), Sum(8, 14, 15), Sum(16, 33, 34)}

----------------------------------------------------------------------------
(* Ir_Daikin152.  Fan and dry have temperatures of their own, until setTemp *)
(* is called after setMode.                                                 *)

Daikin152_bits ==
  [Power |-> 1, Mode |-> 3, Temp |-> 7, SwingV |-> 4, Fan |-> 4, Powerful |-> 1, Quiet |-> 1,
   Comfort |-> 1, Econo |-> 1, Sensor |-> 1]

Daikin152_stateReset == [f \in DOMAIN Daikin152_bits |-> 0]

kDaikin152FanTemp == 96
Daikin152_setTemp(s, temp) ==
  [s EXCEPT !.Temp = IF temp = kDaikin152FanTemp THEN temp
                     ELSE Clamp(temp, IF s.Mode = kDaikinHeat THEN kDaikinMinTemp
                                      ELSE kDaikin2MinCoolTemp, kDaikinMaxTemp)]
Daikin152_setMode(s, mode) ==
  LET warmed == CASE mode = kDaikinFan -> Daikin152_setTemp(s, kDaikin152FanTemp)
                  [] mode = kDaikinDry -> Daikin152_setTemp(s, kDaikin2MinCoolTemp)
                  [] OTHER -> s
  IN  DaikinSetMode(warmed, mode)

\* Mutant: the temperature is set before the mode its limits depend on.
Daikin152_setparamTempFirst(s, r) ==
  LET warmed == Daikin152_setTemp([s EXCEPT !.Power = Truth(r.power)], r.temp)
  IN  [Daikin152_setMode(warmed, DaikinMode(r.mode)) EXCEPT !.Fan = DaikinFanSet(DaikinFan(r.fan))]

Daikin152_setparam(s, r) ==
  LET powered == [s EXCEPT !.Power = Truth(r.power)]
      fanned == [Daikin152_setMode(powered, DaikinMode(r.mode))
                   EXCEPT !.Fan = DaikinFanSet(DaikinFan(r.fan))]
  IN  Daikin152_setTemp(fanned, r.temp)

\* Powerful excludes Quiet, Comfort and Econo; Comfort sets the fan to auto.
Daikin152_options(s) ==
  Each(s, "SwingV", {0, 15}) \union Toggles(s, {"Sensor"})
  \union {[s EXCEPT !.Quiet = on, !.Powerful = IF on = 1 THEN 0 ELSE @] : on \in Bit}
  \union {[s EXCEPT !.Econo = on, !.Powerful = IF on = 1 THEN 0 ELSE @] : on \in Bit}
  \union {[s EXCEPT !.Powerful = 0],
          [s EXCEPT !.Powerful = 1, !.Quiet = 0, !.Comfort = 0, !.Econo = 0]}
  \union {[s EXCEPT !.Comfort = 0],
          [s EXCEPT !.Comfort = 1, !.Powerful = 0, !.Fan = kDaikinFanAuto, !.SwingV = 0]}

Daikin152_asks(s) == [power |-> s.Power, mode |-> kDaikinMode[s.Mode], temp |-> s.Temp]

Daikin152_send == <<Section(0, 18)>>
Daikin152_checksum == {Sum(0, 17, 18)}

----------------------------------------------------------------------------
(* Ir_Daikin64: power is a toggle, temperatures and clocks are BCD.        *)

Daikin64_bits ==
  [Mode |-> 4, Fan |-> 4, ClockMins |-> 8, ClockHours |-> 8, OnHours |-> 6, OnHalfHour |-> 1,
   OnTimer |-> 1, OffHours |-> 6, OffHalfHour |-> 1, OffTimer |-> 1, Temp |-> 8, SwingV |-> 1,
   Sleep |-> 1, Power |-> 1]

Daikin64_stateReset ==
  [Mode |-> 2, Fan |-> 4, ClockMins |-> 32, ClockHours |-> 7, OnHours |-> 22, OnHalfHour |-> 0,
   OnTimer |-> 0, OffHours |-> 22, OffHalfHour |-> 0, OffTimer |-> 0, Temp |-> 22, SwingV |-> 0,
   Sleep |-> 0, Power |-> 1]

kDaikin64Dry == 1
kDaikin64Cool == 2
kDaikin64Fan == 4
kDaikin64FanAuto == 1
kDaikin64FanTurbo == 3
kDaikin64FanQuiet == 9

\* kDaikinCool is no mode of this class; setMode makes it kDaikin64Cool.
Daikin64_convertMode(m) == Lookup(kDry :> kDaikin64Dry @@ kFan :> kDaikin64Fan, m, kDaikinCool)
Daikin64_convertFan(f) ==
  Lookup(kMin :> kDaikin64FanQuiet @@ kLow :> 8 @@ kMedium :> 4 @@ kHigh :> 2
         @@ kMax :> kDaikin64FanTurbo, f, kDaikin64FanAuto)
Daikin64_setTemp(s, temp) == [s EXCEPT !.Temp = uint8ToBcd(Clamp(temp, 16, 30))]
Daikin64_setFan(s, fan) == [s EXCEPT !.Fan = OneOf(fan, {1, 2, 3, 4, 8, 9}, kDaikin64FanAuto)]
Daikin64_setMode(s, mode) ==
  [s EXCEPT !.Mode = OneOf(mode, {kDaikin64Fan, kDaikin64Dry, kDaikin64Cool}, kDaikin64Cool)]

Daikin64_setparam(s, r) ==
  LET powered == [s EXCEPT !.Power = Truth(r.power)]
      moded == Daikin64_setMode(powered, Daikin64_convertMode(r.mode))
  IN  Daikin64_setTemp(Daikin64_setFan(moded, Daikin64_convertFan(r.fan)), r.temp)

\* Quiet and turbo are fan speeds: each of them is switched off only when it is on.
Daikin64_options(s) ==
  LET speed(v, on) == IF on THEN Daikin64_setFan(s, v)
                      ELSE IF s.Fan = v THEN Daikin64_setFan(s, kDaikin64FanAuto) ELSE s
  IN  Toggles(s, {"SwingV", "Sleep", "OnTimer", "OffTimer"})
      \union {speed(kDaikin64FanQuiet, on) : on \in BOOLEAN}
      \union {speed(kDaikin64FanTurbo, on) : on \in BOOLEAN}
      \union {[s EXCEPT !.ClockMins = uint8ToBcd(DayMinutes(t) % 60),
                        !.ClockHours = uint8ToBcd(DayMinutes(t) \div 60)] : t \in Minutes}
      \union {[s EXCEPT !.OnHours = HalfHours(t).hours, !.OnHalfHour = HalfHours(t).half]
                : t \in Minutes}
      \union {[s EXCEPT !.OffHours = HalfHours(t).hours, !.OffHalfHour = HalfHours(t).half]
                : t \in Minutes}

Daikin64_asks(s) ==
  [power |-> s.Power, temp |-> bcdToUint8(s.Temp),
   mode |-> (kDaikin64Dry :> kDry @@ kDaikin64Cool :> kCool @@ kDaikin64Fan :> kFan)[s.Mode]]

\* In nibbles.
Daikin64_send == <<Section(0, 15)>>
Daikin64_checksum == {Sum(0, 14, 15)}

----------------------------------------------------------------------------
(* Ir_Daikin176: _saved_temp brings the temperature back after a mode that *)
(* has its own.                                                            *)

Daikin176_bits ==
  [AltMode |-> 3, ModeButton |-> 8, Power |-> 1, Mode |-> 3, Temp |-> 6, SwingH |-> 4, Fan |-> 4,
   _saved_temp |-> 8]

Daikin176_stateReset ==
  [AltMode |-> 7, ModeButton |-> 0, Power |-> 0, Mode |-> 2, Temp |-> 0, SwingH |-> 6, Fan |-> 1,
   _saved_temp |-> 9]

kDaikin176Fan == 0
kDaikin176Heat == 1
kDaikin176Cool == 2
kDaikin176Auto == 3
kDaikin176Dry == 7
kDaikin176DryFanTemp == 17
Daikin176_convertMode(m) ==
  Lookup(kDry :> kDaikin176Dry @@ kHeat :> kDaikin176Heat @@ kFan :> kDaikin176Fan
         @@ kAuto :> kDaikin176Auto, m, kDaikin176Cool)
Daikin176_convertFan(f) == IF f \in {kMin, kLow} THEN kDaikinFanMin ELSE 3
Daikin176_setTemp(s, temp) ==
  LET degrees == Clamp(temp, kDaikinMinTemp, kDaikinMaxTemp)
      shown == IF s.Mode \in {kDaikin176Dry, kDaikin176Fan} THEN kDaikin176DryFanTemp ELSE degrees
  IN  [s EXCEPT !._saved_temp = degrees, !.Temp = shown - 9, !.ModeButton = 0]
Daikin176_setMode(s, mode) ==
  LET native == OneOf(mode, {kDaikin176Dry, kDaikin176Fan, kDaikin176Auto, kDaikin176Heat},
                      kDaikin176Cool)
      alt == Lookup(kDaikin176Dry :> 2 @@ kDaikin176Fan :> 6, native, 7)
  IN  [Daikin176_setTemp([s EXCEPT !.Mode = native, !.AltMode = alt], s._saved_temp)
         EXCEPT !.ModeButton = 4]
Daikin176_setFan(s, fan) == [s EXCEPT !.Fan = OneOf(fan, {kDaikinFanMin, 3}, 3), !.ModeButton = 0]

Daikin176_setparam(s, r) ==
  LET powered == [s EXCEPT !.Power = Truth(r.power), !.ModeButton = 0]
      moded == Daikin176_setMode(powered, Daikin176_convertMode(r.mode))
  IN  Daikin176_setTemp(Daikin176_setFan(moded, Daikin176_convertFan(r.fan)), r.temp)

Daikin176_options(s) == {[s EXCEPT !.SwingH = OneOf(v, {5, 6}, 5)] : v \in {0, 5, 6}}

Daikin176_asks(s) ==
  [power |-> s.Power, temp |-> s.Temp + 9,
   mode |-> (kDaikin176Fan :> kFan @@ kDaikin176Heat :> kHeat @@ kDaikin176Cool :> kCool
             @@ kDaikin176Auto :> kAuto @@ kDaikin176Dry :> kDry)[s.Mode]]

Daikin176_send == <<Section(0, 6), Section(7, 21)>>
Daikin176_checksum == {Sum(0, 5, 6), Sum(7, 20, 21)}

----------------------------------------------------------------------------
(* Ir_Daikin128.                                                           *)

Daikin128_bits ==
  [Mode |-> 4, Fan |-> 4, ClockMins |-> 8, ClockHours |-> 8, OnHours |-> 6, OnHalfHour |-> 1,
   OnTimer |-> 1, OffHours |-> 6, OffHalfHour |-> 1, OffTimer |-> 1, Temp |-> 8, SwingV |-> 1,
   Sleep |-> 1, Power |-> 1, Ceiling |-> 1, Econo |-> 1, Wall |-> 1]

Daikin128_stateReset == [f \in DOMAIN Daikin128_bits |-> 0]

kDaikin128Dry == 1
kDaikin128Cool == 2
kDaikin128Fan == 4
kDaikin128Heat == 8
kDaikin128Auto == 10
kDaikin128FanAuto == 1
kDaikin128FanPowerful == 3
kDaikin128FanQuiet == 9

\* Dry and the quietest fan have the values of another class.
Daikin128_convertMode(m) ==
  Lookup(kCool :> kDaikin128Cool @@ kHeat :> kDaikin128Heat @@ kDry :> kDaikinDry
         @@ kFan :> kDaikin128Fan, m, kDaikin128Auto)
Daikin128_convertFan(f) ==
  Lookup(kMin :> kDaikinFanQuiet @@ kLow :> 8 @@ kMedium :> 4 @@ kHigh :> 2
         @@ kMax :> kDaikin128FanPowerful, f, kDaikin128FanAuto)
Daikin128_setTemp(s, temp) == [s EXCEPT !.Temp = uint8ToBcd(Clamp(temp, 16, 30))]

\* The two special speeds leave the switch before they are stored.
Daikin128_setFan(s, fan) ==
  IF fan \in {kDaikin128FanQuiet, kDaikin128FanPowerful} THEN s
  ELSE [s EXCEPT !.Fan = OneOf(fan, {1, 2, 4, 8}, kDaikin128FanAuto)]
Daikin128_setEcono(s, on) ==
  [s EXCEPT !.Econo = BitOf(on = 1 /\ s.Mode \in {kDaikin128Cool, kDaikin128Heat})]
Daikin128_setMode(s, mode) ==
  LET moded == [s EXCEPT !.Mode = OneOf(mode, {kDaikin128Dry, kDaikin128Cool, kDaikin128Fan,
                                               kDaikin128Heat}, kDaikin128Auto)]
  IN  Daikin128_setEcono(Daikin128_setFan(moded, s.Fan), s.Econo)

Daikin128_setparam(s, r) ==
  LET powered == [s EXCEPT !.Power = Truth(r.power)]
      moded == Daikin128_setMode(powered, Daikin128_convertMode(r.mode))
  IN  Daikin128_setTemp(Daikin128_setFan(moded, Daikin128_convertFan(r.fan)), r.temp)

\* setOnTimer stores its minutes in the one bit of OnTimer.
Daikin128_timers(s) ==
  {[s EXCEPT !.OnTimer = t % 2] : t \in Minutes}
  \union {[s EXCEPT !.OffHours = HalfHours(t).hours, !.OffHalfHour = HalfHours(t).half]
            : t \in Minutes}
  \union {[s EXCEPT !.ClockMins = uint8ToBcd(DayMinutes(t) % 60),
                    !.ClockHours = uint8ToBcd(DayMinutes(t) \div 60)] : t \in Minutes}
Daikin128_options(s) ==
  LET speed(v, on) == IF on /\ s.Mode \in {kDaikin128Cool, kDaikin128Heat}
                      THEN Daikin128_setFan(s, v)
                      ELSE IF s.Fan = v THEN Daikin128_setFan(s, kDaikin128FanAuto) ELSE s
  IN  Toggles(s, {"SwingV", "Sleep", "OnTimer", "OffTimer"})
      \union {speed(kDaikin128FanQuiet, on) : on \in BOOLEAN}
      \union {speed(kDaikin128FanPowerful, on) : on \in BOOLEAN}
      \union {Daikin128_setEcono(s, on) : on \in Bit}
      \union Daikin128_timers(s)
      \union {[s EXCEPT !.Ceiling = 0, !.Wall = 0], [s EXCEPT !.Ceiling = 1, !.Wall = 0],
              [s EXCEPT !.Ceiling = 0, !.Wall = 1]}

Daikin128_asks(s) ==
  [power |-> s.Power, temp |-> bcdToUint8(s.Temp),
   mode |-> Lookup(kDaikin128Dry :> kDry @@ kDaikin128Cool :> kCool @@ kDaikin128Fan :> kFan
                   @@ kDaikin128Heat :> kHeat, s.Mode, kAuto)]

\* In nibbles: the first checksum is the high half of its byte.
Daikin128_send == <<Section(0, 15), Section(16, 31)>>
Daikin128_checksum == {Sum(0, 14, 15), Sum(16, 29, 30)}

----------------------------------------------------------------------------
(* Ir_Daikin160.                                                           *)

Daikin160_bits == [Power |-> 1, Mode |-> 3, SwingV |-> 4, Temp |-> 6, Fan |-> 4]

Daikin160_stateReset ==
  [Power |-> 0, Mode |-> kDaikinCool, SwingV |-> 1, Temp |-> 15, Fan |-> kDaikinFanAuto]

Daikin160_convertFan(f) ==
  IF f \in kMin .. kMax THEN f ELSE kDaikinFanAuto
Daikin160_setTemp(s, temp) == [s EXCEPT !.Temp = Clamp(temp, kDaikinMinTemp, kDaikinMaxTemp) - 10]

Daikin160_setparam(s, r) ==
  LET powered == [s EXCEPT !.Power = Truth(r.power)]
      fanned == [DaikinSetMode(powered, DaikinMode(r.mode))
                   EXCEPT !.Fan = DaikinFanSet(Daikin160_convertFan(r.fan))]
  IN  Daikin160_setTemp(fanned, r.temp)

Daikin160_options(s) == {[s EXCEPT !.SwingV = OneOf(v, 1 .. 5 \union {15}, 15)] : v \in 0 .. 15}

Daikin160_asks(s) == [power |-> s.Power, mode |-> kDaikinMode[s.Mode], temp |-> s.Temp + 10]

Daikin160_send == <<Section(0, 6), Section(7, 19)>>
Daikin160_checksum == {Sum(0, 5, 6), Sum(7, 18, 19)}

----------------------------------------------------------------------------
(* Ir_Daikin216: quiet is a fan speed, powerful a bit.                     *)

Daikin216_bits ==
  [Power |-> 1, Mode |-> 3, Temp |-> 6, SwingV |-> 4, Fan |-> 4, SwingH |-> 4, Powerful |-> 1]

Daikin216_stateReset == [f \in DOMAIN Daikin216_bits |-> 0]

Daikin216_setTemp(s, temp) == [s EXCEPT !.Temp = Clamp(temp, kDaikinMinTemp, kDaikinMaxTemp)]

Daikin216_setparam(s, r) ==
  LET powered == [s EXCEPT !.Power = Truth(r.power)]
      fanned == [DaikinSetMode(powered, DaikinMode(r.mode))
                   EXCEPT !.Fan = DaikinFanSet(DaikinFan(r.fan))]
  IN  Daikin216_setTemp(fanned, r.temp)

Daikin216_options(s) ==
  LET unquiet(t) == IF DaikinFanGet(t.Fan) = kDaikinFanQuiet
                    THEN [t EXCEPT !.Fan = kDaikinFanAuto] ELSE t
  IN  Each(s, "SwingV", {0, 15}) \union Each(s, "SwingH", {0, 15})
      \union {[s EXCEPT !.Fan = kDaikinFanQuiet, !.Powerful = 0], unquiet(s)}
      \union {unquiet([s EXCEPT !.Powerful = 1]), [s EXCEPT !.Powerful = 0]}

Daikin216_asks(s) == [power |-> s.Power, mode |-> kDaikinMode[s.Mode], temp |-> s.Temp]

Daikin216_send == <<Section(0, 7), Section(8, 26)>>
Daikin216_checksum == {Sum(0, 6, 7), Sum(8, 25, 26)}

----------------------------------------------------------------------------
(* Ir_Daikin2.  The on timer and the sleep timer share their time.         *)

Daikin2_bits ==
  [CurrentTime |-> 12, Power2 |-> 1, Light |-> 2, Beep |-> 2, FreshAir |-> 1, Mold |-> 1,
   Clean |-> 1, FreshAirHigh |-> 1, EyeAuto |-> 1, SwingH |-> 8, SwingV |-> 4, Power |-> 1,
   OnTimer |-> 1, OffTimer |-> 1, Mode |-> 3, Temp |-> 7, Fan |-> 4, OnTime |-> 12,
   OffTime |-> 12, Powerful |-> 1, Quiet |-> 1, Eye |-> 1, Econo |-> 1, Purify |-> 1,
   SleepTimer |-> 1]

Daikin2_stateReset ==
  [[f \in DOMAIN Daikin2_bits |-> 0]
     EXCEPT !.Power2 = 1, !.Light = 3, !.Beep = 1, !.Mold = 1, !.SwingH = 190,
            !.Fan = kDaikinFanAuto, !.OnTime = kDaikinUnusedTime, !.OffTime = kDaikinUnusedTime]

Daikin2_setPower(s, on) == [s EXCEPT !.Power = on, !.Power2 = 1 - on]
Daikin2_setTemp(s, temp) ==
  [s EXCEPT !.Temp = Clamp(temp, IF s.Mode = kDaikinCool THEN kDaikin2MinCoolTemp
                                 ELSE kDaikinMinTemp, kDaikinMaxTemp)]
Daikin2_setMode(s, mode) ==
  LET moded == DaikinSetMode(s, mode)
  IN  IF moded.Mode = kDaikinCool THEN Daikin2_setTemp(moded, s.Temp) ELSE moded

Daikin2_setparam(s, r) ==
  LET moded == Daikin2_setMode(Daikin2_setPower(s, Truth(r.power)), DaikinMode(r.mode))
  IN  Daikin2_setTemp([moded EXCEPT !.Fan = DaikinFanSet(DaikinFan(r.fan))], r.temp)

Daikin2_timers(s) ==
  {[s EXCEPT !.SleepTimer = 0, !.OnTimer = 1, !.OnTime = t] : t \in Minutes}
  \union {[s EXCEPT !.SleepTimer = 1, !.OnTimer = 0, !.OnTime = t] : t \in Minutes}
  \union {[s EXCEPT !.SleepTimer = 0, !.OnTimer = 0, !.OnTime = kDaikinUnusedTime]}
  \union {[s EXCEPT !.OffTimer = 1, !.OffTime = t] : t \in Minutes}
  \union {[s EXCEPT !.OffTimer = 0, !.OffTime = kDaikinUnusedTime]}
  \union Each(s, "CurrentTime", Minutes)
\* setEye writes EyeAuto.
Daikin2_options(s) ==
  Each(s, "SwingV", 1 .. 6 \union 12 .. 15) \union Each(s, "SwingH", {163, 191})
  \union {[s EXCEPT !.Quiet = on, !.Powerful = IF on = 1 THEN 0 ELSE @] : on \in Bit}
  \union {[s EXCEPT !.Powerful = on, !.Quiet = IF on = 1 THEN 0 ELSE @] : on \in Bit}
  \union Toggles(s, {"Econo", "EyeAuto", "Purify", "Mold", "Clean", "FreshAir", "FreshAirHigh"})
  \union Each(s, "Beep", 1 .. 3) \union Each(s, "Light", 1 .. 3) \union Daikin2_timers(s)

Daikin2_asks(s) ==
  [power |-> BitOf(s.Power = 1 /\ s.Power2 = 0), mode |-> kDaikinMode[s.Mode], temp |-> s.Temp]

Daikin2_send == <<Section(0, 19), Section(20, 38)>>
Daikin2_checksum == {Sum(0, 18, 19), Sum(20, 37, 38)}

=============================================================================
