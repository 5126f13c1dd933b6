------------------------------ MODULE AcChina ------------------------------
(***************************************************************************)
(* The Gree, Kelvinator, Midea, TCL, Goodweather, Neoclima and Casper      *)
(* remotes (IrGree.cpp, IrKelvinator.cpp, IrMidea.cpp, IrTCL112Ac.cpp,     *)
(* IrGoodweather.cpp, IrNeoclimaAc.cpp, IrCasper.cpp), laid out as in      *)
(* AcDaikin.                                                               *)
(***************************************************************************)
EXTENDS AcCommon

\* kGreeAuto .. kGreeHeat, which four of the classes share.
kGreeAuto == 0
kGreeCool == 1
kGreeDry == 2
kGreeFan == 3
kGreeHeat == 4
GreeMode(m) == Lookup(kCool :> kGreeCool @@ kHeat :> kGreeHeat @@ kDry :> kGreeDry
                      @@ kFan :> kGreeFan, m, kGreeAuto)
GreeModeAsked(mode) == Lookup(kGreeCool :> kCool @@ kGreeHeat :> kHeat @@ kGreeDry :> kDry
                              @@ kGreeFan :> kFan, mode, kAuto)

----------------------------------------------------------------------------
(* Ir_Gree.                                                                *)

Gree_bits ==
  [Mode |-> 3, Power |-> 1, Fan |-> 2, SwingAuto |-> 1, Sleep |-> 1, Temp |-> 4,
   TimerHalfHr |-> 1, TimerTensHr |-> 2, TimerEnabled |-> 1, TimerHours |-> 4, Turbo |-> 1,
   Light |-> 1, ModelA |-> 1, Xfan |-> 1, TempExtraDegreeF |-> 1, UseFahrenheit |-> 1,
   Swing |-> 4, DisplayTemp |-> 2, IFeel |-> 1, WiFi |-> 1, _model |-> 2]

YAW1F == 1
YBOFB == 2
kGreeFanMax == 3
kGreeMinTempC == 16
kGreeMaxTempC == 30
kGreeTimerMax == 24 * 60

Gree_stateReset ==
  [[f \in DOMAIN Gree_bits |-> 0] EXCEPT !.Temp = 9, !.Light = 1, !._model = YAW1F]

Gree_convertFan(f) == Lookup(kMin :> 1 @@ kLow :> 2 @@ kMedium :> 2 @@ kHigh :> kGreeFanMax
                             @@ kMax :> kGreeFanMax, f, 0)
Gree_setPower(s, on) == [s EXCEPT !.Power = on, !.ModelA = BitOf(on = 1 /\ s._model = YAW1F)]

\* Temperatures in eighteenths of a degree, so that half degrees show.
Gree_setTemp(s, temp, fahrenheit) ==
  LET asked == IF fahrenheit = 1 THEN 10 * temp - 314 ELSE 18 * temp
      safe == IF s.Mode = kGreeAuto THEN 18 * 25
              ELSE Clamp(asked, 18 * kGreeMinTempC, 18 * kGreeMaxTempC)
  IN  [s EXCEPT !.UseFahrenheit = fahrenheit, !.Temp = safe \div 18 - kGreeMinTempC,
                !.TempExtraDegreeF = (safe \div 9) % 2]
Gree_setFan(s, speed) ==
  [s EXCEPT !.Fan = IF s.Mode = kGreeDry THEN 1 ELSE Clamp(speed, 0, kGreeFanMax)]
Gree_setMode(s, mode) ==
  LET prepared == CASE mode = kGreeAuto -> Gree_setTemp(s, 25, 0)
                    [] mode = kGreeDry -> Gree_setFan(s, 1)
                    [] OTHER -> s
  IN  [prepared EXCEPT !.Mode = OneOf(mode, kGreeAuto .. kGreeHeat, kGreeAuto)]

Gree_setparam(s, r) ==
  LET moded == Gree_setMode(Gree_setPower(s, Truth(r.power)), GreeMode(r.mode))
  IN  Gree_setTemp(Gree_setFan(moded, Gree_convertFan(r.fan)), r.temp, 0)

Gree_setSwingVertical(s, automatic, position) ==
  [s EXCEPT !.SwingAuto = automatic,
            !.Swing = IF automatic = 1 THEN OneOf(position, {1, 7, 9, 11}, 1)
                      ELSE OneOf(position, 2 .. 6, 0)]
Gree_setTimer(s, minutes) ==
  LET mins == Clamp(minutes, 0, kGreeTimerMax)
      hours == mins \div 60
  IN  [s EXCEPT !.TimerEnabled = BitOf(mins >= 30), !.TimerHalfHr = BitOf(mins % 60 >= 30),
                !.TimerTensHr = hours \div 10, !.TimerHours = hours % 10]

Gree_options(s) ==
  Toggles(s, {"Light", "IFeel", "WiFi", "Xfan", "Sleep", "Turbo", "UseFahrenheit"})
  \union Each(s, "_model", {YAW1F, YBOFB}) \union Each(s, "DisplayTemp", 0 .. 3)
  \union {Gree_setTemp(s, t, 1) : t \in {60, 70, 86, 90}}
  \union {Gree_setSwingVertical(s, 0, p) : p \in 0 .. 12}
  \union {Gree_setSwingVertical(s, 1, p) : p \in 0 .. 12}
  \union {Gree_setTimer(s, t) : t \in Minutes \union {29}}

\* getRaw goes through fixup, which sets the model's bit again.
Gree_getRaw(s) == Gree_setPower(s, s.Power)
Gree_asks(s) == [power |-> s.Power, temp |-> s.Temp + kGreeMinTempC, mode |-> GreeModeAsked(s.Mode)]

\* The sum is of nibbles, into the high nibble of the last byte.
Gree_send == <<Section(0, 3), Section(4, 7)>>
Gree_checksum == {Sum(0, 6, 7)}

----------------------------------------------------------------------------
(* Ir_Kelvinator.  Its constructor does not reset the state: a new remote  *)
(* holds what the stack held.                                              *)

Kelvinator_bits ==
  [Mode |-> 3, Power |-> 1, BasicFan |-> 2, VentSwing |-> 1, Temp |-> 4, Turbo |-> 1,
   Light |-> 1, IonFilter |-> 1, XFan |-> 1, SwingV |-> 1, SwingH |-> 1, Quiet |-> 1, Fan |-> 3]

kKelvinatorAutoTemp == 25
kKelvinatorFanMax == 5
kKelvinatorBasicFanMax == 3

Kelvinator_stateReset == [f \in DOMAIN Kelvinator_bits |-> 0]
Kelvinator_fresh == {Kelvinator_stateReset, [f \in DOMAIN Kelvinator_bits |-> 2 ^ Kelvinator_bits[f] - 1]}

Kelvinator_setTemp(s, degrees) == [s EXCEPT !.Temp = Clamp(degrees, 16, 30) - 16]
Kelvinator_setFan(s, speed) ==
  LET fan == Clamp(speed, 0, kKelvinatorFanMax)
  IN  IF fan = s.Fan THEN s
      ELSE [s EXCEPT !.BasicFan = Clamp(fan, 0, kKelvinatorBasicFanMax), !.Fan = fan, !.Turbo = 0]

\* The case of auto and dry leaves the switch before the mode is stored.
Kelvinator_setMode(s, mode) ==
  CASE mode \in {kGreeAuto, kGreeDry} -> Kelvinator_setTemp(s, kKelvinatorAutoTemp)
    [] mode \in {kGreeHeat, kGreeCool, kGreeFan} -> [s EXCEPT !.Mode = mode]
    [] OTHER -> [Kelvinator_setTemp(s, kKelvinatorAutoTemp) EXCEPT !.Mode = kGreeAuto]

\* The speed is not converted.
Kelvinator_setparam(s, r) ==
  LET moded == Kelvinator_setMode([s EXCEPT !.Power = Truth(r.power)], GreeMode(r.mode))
  IN  Kelvinator_setTemp(Kelvinator_setFan(moded, r.fan), r.temp)

Kelvinator_options(s) ==
  Toggles(s, {"Quiet", "IonFilter", "Light", "XFan", "Turbo"})
  \union {[s EXCEPT !.SwingV = on, !.VentSwing = Truth(on + s.SwingH)] : on \in Bit}
  \union {[s EXCEPT !.SwingH = on, !.VentSwing = Truth(on + s.SwingV)] : on \in Bit}

\* getRaw: fixup clears XFan where it has no meaning and copies bytes 0 .. 2
\* to 8 .. 10 before it sums each of the two blocks.
Kelvinator_getRaw(s) == [s EXCEPT !.XFan = IF s.Mode \in {kGreeCool, kGreeDry} THEN @ ELSE 0]
Kelvinator_asks(s) == [power |-> s.Power, temp |-> s.Temp + 16, mode |-> GreeModeAsked(s.Mode)]

Kelvinator_send == <<Section(0, 3), Section(4, 7), Section(8, 11), Section(12, 15)>>
Kelvinator_checksum == {Sum(0, 6, 7), Sum(8, 14, 15)}

----------------------------------------------------------------------------
(* Ir_Midea.  SensorTemp holds the temperature of the room or the on       *)
(* timer; the toggles are messages of their own, sent after the state.     *)

Midea_bits ==
  [SensorTemp |-> 7, disableSensor |-> 1, OffTimer |-> 6, BeepDisable |-> 1, Temp |-> 5,
   useFahrenheit |-> 1, Mode |-> 3, Fan |-> 2, Sleep |-> 1, Power |-> 1, Type |-> 3,
   _SwingVToggle |-> 1, _EconoToggle |-> 1, _TurboToggle |-> 1, _LightToggle |-> 1]

kMideaACMinTempF == 62
kMideaACMaxTempF == 86
kMideaACMinTempC == 17
kMideaACMaxTempC == 30
kMideaACMinSensorTempF == 32
kMideaACMaxSensorTempF == 99
kMideaACMaxSensorTempC == 37
kMideaACSensorTempOnTimerOff == 127
kMideaACTimerOff == 63
kMideaACAuto == 2
kMideaACTypeCommand == 1

Midea_stateReset ==
  [SensorTemp |-> kMideaACSensorTempOnTimerOff, disableSensor |-> 1, OffTimer |-> kMideaACTimerOff,
   BeepDisable |-> 1, Temp |-> 15, useFahrenheit |-> 1, Mode |-> 2, Fan |-> 0, Sleep |-> 0,
   Power |-> 1, Type |-> kMideaACTypeCommand, _SwingVToggle |-> 0, _EconoToggle |-> 0,
   _TurboToggle |-> 0, _LightToggle |-> 0]

\* celsiusToFahrenheit and fahrenheitToCelsius, cut to whole degrees.
ToFahrenheit(c) == (9 * c) \div 5 + 32
ToCelsius(f) == (5 * (f - 32)) \div 9

Midea_convertMode(m) == Lookup(kCool :> 0 @@ kHeat :> 3 @@ kDry :> 1 @@ kFan :> 4, m, kMideaACAuto)
Midea_convertFan(f) == Lookup(kMin :> 1 @@ kLow :> 1 @@ kMedium :> 2 @@ kHigh :> 3 @@ kMax :> 3, f, 0)

\* What is stored of a temperature given in one scale to a remote in another.
Midea_native(s, temp, celsius, minC, maxC, minF, maxF) ==
  LET safe == IF celsius = 1 THEN Clamp(temp, minC, maxC) ELSE Clamp(temp, minF, maxF)
      converted == CASE s.useFahrenheit = 0 /\ celsius = 0 -> ToCelsius(safe) - minC
                     [] s.useFahrenheit = 1 /\ celsius = 1 -> ToFahrenheit(safe) - minF
                     [] OTHER -> safe - (IF celsius = 1 THEN minC ELSE minF)
  IN  Clamp(converted, 0, 255)
Midea_setTemp(s, temp, celsius) ==
  [s EXCEPT !.Temp = Midea_native(s, temp, celsius, kMideaACMinTempC, kMideaACMaxTempC,
                                  kMideaACMinTempF, kMideaACMaxTempF)]
Midea_getTemp(s, celsius) ==
  LET temp == s.Temp + (IF s.useFahrenheit = 1 THEN kMideaACMinTempF ELSE kMideaACMinTempC)
  IN  CASE celsius = 1 /\ s.useFahrenheit = 1 -> (10 * (temp - 32) + 9) \div 18
        [] celsius = 0 /\ s.useFahrenheit = 0 -> ToFahrenheit(temp)
        [] OTHER -> temp
Midea_setUseCelsius(s, on) ==
  IF on = s.useFahrenheit
  THEN Midea_setTemp([s EXCEPT !.useFahrenheit = 1 - on], Midea_getTemp(s, 1 - on), 1 - on)
  ELSE s

\* setparam leaves out the second argument of setTemp: degrees Fahrenheit.
Midea_setparam(s, r) ==
  LET moded == [s EXCEPT !.Power = Truth(r.power), !.Mode = Midea_convertMode(r.mode),
                         !.Fan = Midea_convertFan(r.fan)]
  IN  Midea_setTemp(moded, r.temp, 0)

\* setType: the case of a measured temperature leaves the type as it was.
Midea_setEnableSensorTemp(s, on) ==
  IF on = 1 THEN [s EXCEPT !.disableSensor = 0, !.BeepDisable = 0]
  ELSE [s EXCEPT !.disableSensor = 1, !.BeepDisable = 1, !.Type = kMideaACTypeCommand,
                 !.SensorTemp = kMideaACSensorTempOnTimerOff]
Midea_setSensorTemp(s, temp, celsius) ==
  Midea_setEnableSensorTemp(
    [s EXCEPT !.SensorTemp = Midea_native(s, temp, celsius, 0, kMideaACMaxSensorTempC,
                                          kMideaACMinSensorTempF, kMideaACMaxSensorTempF) + 1], 1)
HalfHoursOf(mins) == Clamp(mins, 0, 24 * 60) \div 30
Midea_setOnTimer(s, mins) ==
  [Midea_setEnableSensorTemp(s, 0)
     EXCEPT !.SensorTemp = IF HalfHoursOf(mins) = 0 THEN kMideaACSensorTempOnTimerOff
                           ELSE 2 * (HalfHoursOf(mins) - 1) + 1]
Midea_setOffTimer(s, mins) ==
  [s EXCEPT !.OffTimer = IF HalfHoursOf(mins) = 0 THEN kMideaACTimerOff ELSE HalfHoursOf(mins) - 1]

Midea_temps == {0, 17, 24, 30, 32, 37, 70, 99, 255}
Midea_options(s) ==
  Toggles(s, {"Sleep", "_SwingVToggle", "_EconoToggle", "_TurboToggle", "_LightToggle"})
  \union {Midea_setUseCelsius(s, on) : on \in Bit}
  \union {Midea_setTemp(s, t, 1) : t \in Midea_temps}
  \union {Midea_setSensorTemp(s, t, 0) : t \in Midea_temps}
  \union {Midea_setSensorTemp(s, t, 1) : t \in Midea_temps}
  \union {Midea_setEnableSensorTemp(s, on) : on \in Bit}
  \union {Midea_setOnTimer(s, t) : t \in Minutes}
  \union {Midea_setOffTimer(s, t) : t \in Minutes}

Midea_asks(s) ==
  [power |-> s.Power, temp |-> Midea_getTemp(s, 1),
   mode |-> Lookup(0 :> kCool @@ 1 :> kDry @@ 3 :> kHeat @@ 4 :> kFan, s.Mode, kAuto)]

Midea_sent(s) ==
  [s EXCEPT !._SwingVToggle = 0, !._EconoToggle = 0, !._TurboToggle = 0, !._LightToggle = 0]

\* The last byte goes out first; the whole is then sent inverted.
Midea_send == <<Section(0, 5)>>
Midea_checksum == {Sum(1, 5, 0)}

----------------------------------------------------------------------------
(* Ir_TCL_112Ac.                                                           *)

TCL_bits ==
  [Power |-> 1, Light |-> 1, Econo |-> 1, Mode |-> 4, Health |-> 1, Turbo |-> 1, Temp |-> 4,
   Fan |-> 3, SwingV |-> 3, SwingH |-> 1, Half |-> 1]

kTcl112AcFan == 7
kTcl112AcAuto == 8
kTcl112AcFanHigh == 5
kTcl112AcTempMax == 31
kTcl112AcTempMin == 16

TCL_stateReset ==
  [Power |-> 1, Light |-> 0, Econo |-> 0, Mode |-> 3, Health |-> 0, Turbo |-> 0, Temp |-> 7,
   Fan |-> 0, SwingV |-> 0, SwingH |-> 0, Half |-> 0]

TCL_convertMode(m) ==
  Lookup(kCool :> 3 @@ kHeat :> 1 @@ kDry :> 2 @@ kFan :> kTcl112AcFan, m, kTcl112AcAuto)
TCL_convertFan(f) == Lookup(kMin :> 2 @@ kLow :> 2 @@ kMedium :> 3 @@ kHigh :> 5 @@ kMax :> 5, f, 0)

\* The case of fan leaves the switch before the mode is stored.
TCL_setMode(s, mode) ==
  IF mode = kTcl112AcFan THEN [s EXCEPT !.Fan = kTcl112AcFanHigh] ELSE [s EXCEPT !.Mode = mode]
TCL_setTemp(s, celsius) ==
  [s EXCEPT !.Temp = kTcl112AcTempMax - Clamp(celsius, kTcl112AcTempMin, kTcl112AcTempMax), !.Half = 0]
TCL_setparam(s, r) ==
  LET moded == TCL_setMode([s EXCEPT !.Power = Truth(r.power)], TCL_convertMode(r.mode))
  IN  TCL_setTemp([moded EXCEPT !.Fan = TCL_convertFan(r.fan)], r.temp)

TCL_options(s) ==
  Toggles(s, {"Econo", "Health", "SwingH", "Light"}) \union Each(s, "SwingV", {0, 7})
  \union {[s EXCEPT !.Turbo = 0], [s EXCEPT !.Turbo = 1, !.Fan = kTcl112AcFanHigh, !.SwingV = 7]}

TCL_asks(s) ==
  [power |-> s.Power, temp |-> kTcl112AcTempMax - s.Temp,
   mode |-> Lookup(1 :> kHeat @@ 2 :> kDry @@ 3 :> kCool @@ kTcl112AcFan :> kFan, s.Mode, kAuto)]

TCL_send == <<Section(0, 13)>>
TCL_checksum == {Sum(0, 12, 13)}

----------------------------------------------------------------------------
(* Ir_Goodweather.  Command is the button last pressed.                    *)

Goodweather_bits ==
  [Light |-> 1, Turbo |-> 1, Command |-> 4, Sleep |-> 1, Power |-> 1, Swing |-> 2, Fan |-> 2,
   Temp |-> 4, Mode |-> 3]

kGoodweatherTempMin == 16
kGoodweatherTempMax == 31
kGoodweatherCmdUpTemp == 2
kGoodweatherCmdDownTemp == 3
kGoodweatherCmdSwing == 4
kGoodweatherCmdFan == 5
kGoodweatherCmdSleep == 9
kGoodweatherCmdTurbo == 10
kGoodweatherCmdLight == 11

Goodweather_stateReset == [f \in DOMAIN Goodweather_bits |-> 0]
GoodweatherFan(f) == Lookup(kMin :> 3 @@ kLow :> 3 @@ kMedium :> 2 @@ kHigh :> 1 @@ kMax :> 1, f, 0)

Goodweather_setTemp(s, temp) ==
  LET new == Clamp(temp, kGoodweatherTempMin, kGoodweatherTempMax) - kGoodweatherTempMin
  IN  [s EXCEPT !.Temp = new, !.Command = CASE new > s.Temp -> kGoodweatherCmdUpTemp
                                            [] new < s.Temp -> kGoodweatherCmdDownTemp
                                            [] OTHER -> @]
Goodweather_setparam(s, r) ==
  Goodweather_setTemp([s EXCEPT !.Power = Truth(r.power), !.Mode = GreeMode(r.mode),
                                !.Fan = GoodweatherFan(r.fan), !.Command = kGoodweatherCmdFan],
                      r.temp)

Goodweather_options(s) ==
  {[s EXCEPT !.Swing = OneOf(v, 0 .. 2, 2), !.Command = kGoodweatherCmdSwing] : v \in 0 .. 3}
  \union {[s EXCEPT !.Sleep = on, !.Command = kGoodweatherCmdSleep] : on \in Bit}
  \union {[s EXCEPT !.Turbo = on, !.Command = kGoodweatherCmdTurbo] : on \in Bit}
  \union {[s EXCEPT !.Light = on, !.Command = kGoodweatherCmdLight] : on \in Bit}
  \union {[s EXCEPT !.Command = IF c <= kGoodweatherCmdLight THEN c ELSE @] : c \in 0 .. 12}

Goodweather_asks(s) ==
  [power |-> s.Power, temp |-> s.Temp + kGoodweatherTempMin, mode |-> GreeModeAsked(s.Mode)]

\* Every byte is followed by its complement; there is no sum.
Goodweather_send == <<Section(0, 5)>>
Goodweather_checksum == {}

----------------------------------------------------------------------------
(* Ir_NeoclimaAc.                                                          *)

Neoclima_bits ==
  [CHeat |-> 1, Ion |-> 1, Light |-> 1, Hold |-> 1, Turbo |-> 1, Econo |-> 1, Eye |-> 1,
   Button |-> 5, Fresh |-> 1, Sleep |-> 1, Power |-> 1, SwingV |-> 2, SwingH |-> 1, Fan |-> 2,
   UseFah |-> 1, Temp |-> 5, Mode |-> 3]

kNeoclimaButtonPower == 0
kNeoclimaButtonMode == 1
kNeoclimaButtonTempUp == 2
kNeoclimaButtonTempDown == 3
kNeoclimaButtonSwing == 4
kNeoclimaButtonFanSpeed == 5
kNeoclimaButtonAirFlow == 7
kNeoclimaFanLow == 3
\* The setters that store a bit and the button that belongs to it.
kNeoclimaButtons == [Hold |-> 8, Sleep |-> 9, Turbo |-> 10, Light |-> 11, Econo |-> 13,
                     Eye |-> 14, Ion |-> 20, Fresh |-> 21, CHeat |-> 29]

Neoclima_stateReset ==
  [[f \in DOMAIN Neoclima_bits |-> 0]
     EXCEPT !.Power = 1, !.SwingV = 2, !.Fan = 3, !.Temp = 10, !.Mode = 1]

Neoclima_setFan(s, speed) ==
  [s EXCEPT !.Button = kNeoclimaButtonFanSpeed,
            !.Fan = IF s.Mode = kGreeDry THEN kNeoclimaFanLow ELSE OneOf(speed, 0 .. 3, 0)]
Neoclima_setMode(s, mode) ==
  [(IF mode = kGreeDry THEN Neoclima_setFan(s, kNeoclimaFanLow) ELSE s)
     EXCEPT !.Mode = OneOf(mode, kGreeAuto .. kGreeHeat, kGreeAuto), !.Button = kNeoclimaButtonMode]
Neoclima_min(fahrenheit) == IF fahrenheit = 1 THEN 61 ELSE 16
Neoclima_setTemp(s, temp, fahrenheit) ==
  LET old == s.Temp + Neoclima_min(s.UseFah)
      new == Clamp(temp, Neoclima_min(fahrenheit), IF fahrenheit = 1 THEN 90 ELSE 32)
  IN  [s EXCEPT !.UseFah = fahrenheit, !.Temp = new - Neoclima_min(fahrenheit),
                !.Button = CASE old > new -> kNeoclimaButtonTempDown
                             [] new > old -> kNeoclimaButtonTempUp
                             [] OTHER -> @]
Neoclima_setparam(s, r) ==
  LET powered == [s EXCEPT !.Power = Truth(r.power), !.Button = kNeoclimaButtonPower]
      fanned == Neoclima_setFan(Neoclima_setMode(powered, GreeMode(r.mode)), GoodweatherFan(r.fan))
  IN  Neoclima_setTemp(fanned, r.temp, 0)

Neoclima_press(s, f, on) == [s EXCEPT ![f] = on, !.Button = kNeoclimaButtons[f]]
Neoclima_pressed(s) ==
  UNION {{Neoclima_press(s, f, on) : on \in Bit} : f \in DOMAIN kNeoclimaButtons}
Neoclima_options(s) ==
  Neoclima_pressed(s)
  \union {[s EXCEPT !.Button = kNeoclimaButtonSwing, !.SwingV = 2 - on] : on \in Bit}
  \union {[s EXCEPT !.Button = kNeoclimaButtonAirFlow, !.SwingH = 1 - on] : on \in Bit}
  \union {Neoclima_setTemp(s, t, 1) : t \in {0, 61, 75, 90, 255}}
  \union {[s EXCEPT !.Button = OneOf(b, {19, 30}, kNeoclimaButtonPower)] : b \in {19, 30, 31}}

Neoclima_asks(s) ==
  [power |-> s.Power, temp |-> s.Temp + Neoclima_min(s.UseFah), mode |-> GreeModeAsked(s.Mode)]

Neoclima_send == <<Section(0, 11)>>
Neoclima_checksum == {Sum(0, 10, 11)}

----------------------------------------------------------------------------
(* Ir_Casper.  The constructor sets nothing, and PacketData ors into the   *)
(* frame members no setter writes: unset is 1 when one of them holds the   *)
(* bit of the power.                                                       *)

Casper_bits ==
  [Power |-> 8, Mode |-> 8, Fan |-> 8, Temp |-> 8, Swing |-> 8, Sleep |-> 8, unset |-> 1]

irCasper_Power_ON == 32
irCasper_Mode_Cool == 32
irCasper_Mode_Fan == 192
irCasper_Mode_Dry == 64
irCasper_Mode_Auto == 0
irCasper_Speed_Auto == 160
irCasper_SwingUpDown_OFF == 7
irCasper_Sleep_ON == 4

Casper_stateReset == [f \in DOMAIN Casper_bits |-> 0]
Casper_fresh == {[Casper_stateReset EXCEPT !.unset = b] : b \in Bit}

\* The guard of setTemp, temp > 16 or temp < 32, is always true.
Casper_setTemp(s, temp) == [s EXCEPT !.Temp = ((temp - 16) * 8 + 64) % 256]
Casper_setparam(s, r) ==
  Casper_setTemp([s EXCEPT !.Power = IF r.power = 1 THEN irCasper_Power_ON ELSE 0,
                           !.Mode = Lookup(0 :> irCasper_Mode_Cool @@ 1 :> irCasper_Mode_Fan
                                           @@ 3 :> irCasper_Mode_Dry, r.mode, irCasper_Mode_Auto),
                           !.Fan = Lookup(0 :> 96 @@ 1 :> 64 @@ 2 :> 32 @@ 3 :> 36, r.fan,
                                          irCasper_Speed_Auto),
                           !.Swing = irCasper_SwingUpDown_OFF, !.Sleep = 0], r.temp)

\* setparamCasper has arguments for swing and sleep; SendHAVC passes 0.
Casper_options(s) ==
  {[s EXCEPT !.Swing = IF v = 1 THEN 0 ELSE irCasper_SwingUpDown_OFF] : v \in 0 .. 2}
  \union {[s EXCEPT !.Sleep = IF v = 1 THEN irCasper_Sleep_ON ELSE 0] : v \in 0 .. 2}

Casper_asks(s) ==
  [power |-> BitOf(s.Power = irCasper_Power_ON \/ s.unset = 1), temp |-> (s.Temp - 64) \div 8 + 16,
   mode |-> Lookup(irCasper_Mode_Cool :> kCool @@ irCasper_Mode_Fan :> kFan
                   @@ irCasper_Mode_Dry :> kDry, s.Mode, kAuto)]

Casper_send == <<Section(0, 12)>>
Casper_checksum == {Sum(0, 11, 12)}

=============================================================================
