----------------------------- MODULE AcHitachi -----------------------------
(***************************************************************************)
(* The Hitachi remotes (IrHitachi.cpp), laid out as in AcDaikin.           *)
(***************************************************************************)
EXTENDS AcCommon

kHitachiAcMinTemp == 16
kHitachiAcMaxTemp == 32

----------------------------------------------------------------------------
(* IRHitachiAc1.                                                           *)

Hitachi1_bits ==
  [Model |-> 2, Fan |-> 4, Mode |-> 4, Temp |-> 5, OffTimerLow |-> 8, OffTimerHigh |-> 8,
   OnTimerLow |-> 8, OnTimerHigh |-> 8, SwingToggle |-> 1, Sleep |-> 3, PowerToggle |-> 1,
   Power |-> 1, SwingV |-> 1, SwingH |-> 1]

kHitachiAc1Dry == 2
kHitachiAc1Fan == 4
kHitachiAc1Cool == 6
kHitachiAc1Heat == 9
kHitachiAc1Auto == 14
kHitachiAc1FanAuto == 1
kHitachiAc1FanHigh == 2
kHitachiAc1FanMed == 4
kHitachiAc1FanLow == 8
kHitachiAc1TempDelta == 7

Hitachi1_stateReset ==
  [Model |-> 2, Fan |-> kHitachiAc1FanAuto, Mode |-> kHitachiAc1Auto, Temp |-> 9,
   OffTimerLow |-> 0, OffTimerHigh |-> 0, OnTimerLow |-> 0, OnTimerHigh |-> 0,
   SwingToggle |-> 1, Sleep |-> 0, PowerToggle |-> 0, Power |-> 1, SwingV |-> 1, SwingH |-> 0]

Hitachi1_convertMode(m) ==
  Lookup(kCool :> kHitachiAc1Cool @@ kHeat :> kHitachiAc1Heat @@ kDry :> kHitachiAc1Dry
         @@ kFan :> kHitachiAc1Fan, m, kHitachiAc1Auto)
Hitachi1_convertFan(f) ==
  CASE f \in {kMin, kLow} -> kHitachiAc1FanLow
    [] f = kMedium -> kHitachiAc1FanMed
    [] f \in {kHigh, kMax} -> kHitachiAc1FanHigh
    [] OTHER -> kHitachiAc1FanAuto

Hitachi1_setPower(s, on) ==
  [s EXCEPT !.PowerToggle = IF on # s.Power THEN 1 ELSE @, !.Power = on]
Hitachi1_setTemp(s, celsius) ==
  IF s.Mode = kHitachiAc1Auto THEN s
  ELSE [s EXCEPT !.Temp = reverseFive(Clamp(celsius, kHitachiAcMinTemp, kHitachiAcMaxTemp)
                                        - kHitachiAc1TempDelta)]
Hitachi1_setSleep(s, mode) ==
  [s EXCEPT !.Sleep = IF s.Mode \in {kHitachiAc1Auto, kHitachiAc1Cool}
                      THEN Clamp(mode, 0, 4) ELSE 0]

\* Heat and fan keep the speed they have, unless that or the new one is auto.
Hitachi1_setFan(s, speed) ==
  LET known == {kHitachiAc1FanAuto, kHitachiAc1FanHigh, kHitachiAc1FanMed, kHitachiAc1FanLow}
  IN  [s EXCEPT !.Fan =
         CASE s.Mode = kHitachiAc1Dry -> kHitachiAc1FanLow
           [] s.Mode = kHitachiAc1Auto -> kHitachiAc1FanAuto
           [] s.Mode \in {kHitachiAc1Heat, kHitachiAc1Fan} ->
                IF kHitachiAc1FanAuto \in {speed, s.Fan} THEN kHitachiAc1FanLow ELSE s.Fan
           [] OTHER -> OneOf(speed, known, kHitachiAc1FanAuto)]

\* The case of auto leaves the switch before the mode is stored.
Hitachi1_setMode(s, mode) ==
  LET warm(t) == Hitachi1_setTemp(t, 25)
      moded == CASE mode = kHitachiAc1Auto -> warm(s)
                 [] mode \in {kHitachiAc1Fan, kHitachiAc1Heat, kHitachiAc1Cool, kHitachiAc1Dry} ->
                      [s EXCEPT !.Mode = mode]
                 [] OTHER -> [warm(s) EXCEPT !.Mode = kHitachiAc1Auto]
  IN  Hitachi1_setFan(Hitachi1_setSleep(moded, s.Sleep), s.Fan)

Hitachi1_setparam(s, r) ==
  LET moded == Hitachi1_setMode(Hitachi1_setPower(s, Truth(r.power)), Hitachi1_convertMode(r.mode))
  IN  Hitachi1_setTemp(Hitachi1_setFan(moded, Hitachi1_convertFan(r.fan)), r.temp)

\* The minutes of a timer, with their 16 bits reversed.
Hitachi1_time(mins) == [low |-> reverseByte(mins % 256), high |-> reverseByte(mins \div 256)]
Hitachi1_options(s) ==
  Toggles(s, {"SwingToggle", "SwingV", "SwingH", "PowerToggle"})
  \union {[s EXCEPT !.Model = v] : v \in {1, 2}}
  \union {Hitachi1_setSleep(s, v) : v \in 0 .. 5}
  \union {[s EXCEPT !.OnTimerLow = Hitachi1_time(t).low, !.OnTimerHigh = Hitachi1_time(t).high]
            : t \in Minutes}
  \union {[s EXCEPT !.OffTimerLow = Hitachi1_time(t).low, !.OffTimerHigh = Hitachi1_time(t).high]
            : t \in Minutes}

Hitachi1_asks(s) ==
  [power |-> s.Power, temp |-> reverseFive(s.Temp) + kHitachiAc1TempDelta,
   mode |-> (kHitachiAc1Dry :> kDry @@ kHitachiAc1Fan :> kFan @@ kHitachiAc1Cool :> kCool
             @@ kHitachiAc1Heat :> kHeat @@ kHitachiAc1Auto :> kAuto)[s.Mode]]

\* The toggles are one-shot: sendHitachiAc1 clears them behind the frame.
Hitachi1_sent(s) == [s EXCEPT !.PowerToggle = 0, !.SwingToggle = 0]

\* The sum is of reversed nibbles.
Hitachi1_send == <<Section(0, 12)>>
Hitachi1_checksum == {Sum(5, 11, 12)}

----------------------------------------------------------------------------
(* IRHitachiAc424 and IRHitachiAc344, which adds the position of the       *)
(* horizontal swing.  SendHAVC sends the first as stateReset leaves it.    *)

Hitachi424_bits ==
  [Button |-> 8, Temp |-> 6, Mode |-> 4, Fan |-> 4, Power |-> 8, SwingH |-> 3, SwingV |-> 1,
   fan9 |-> 8, fan29 |-> 8, _previoustemp |-> 8]

kHitachiAc424Fan == 1
kHitachiAc424Cool == 3
kHitachiAc424Dry == 5
kHitachiAc424Heat == 6
kHitachiAc424FanMin == 1
kHitachiAc424FanAuto == 5
kHitachiAc424FanMax == 6
kHitachiAc424ButtonPowerMode == 19
kHitachiAc424ButtonFan == 66
kHitachiAc424ButtonTempDown == 67
kHitachiAc424ButtonTempUp == 68
kHitachiAc424ButtonSwingV == 129
kHitachiAc344ButtonSwingH == 140
kHitachiAc424PowerOn == 241
kHitachiAc424PowerOff == 225

\* Every setter leaves the button a user would have pressed.
Hitachi424_setPower(s, on) ==
  [s EXCEPT !.Button = kHitachiAc424ButtonPowerMode,
            !.Power = IF on = 1 THEN kHitachiAc424PowerOn ELSE kHitachiAc424PowerOff]
Hitachi424_setTemp(s, celsius, setPrevious) ==
  LET temp == Clamp(celsius, kHitachiAcMinTemp, kHitachiAcMaxTemp)
  IN  [s EXCEPT !.Temp = temp, !._previoustemp = IF setPrevious THEN temp ELSE @,
                !.Button = CASE s._previoustemp > temp -> kHitachiAc424ButtonTempDown
                             [] s._previoustemp < temp -> kHitachiAc424ButtonTempUp
                             [] OTHER -> @]
Hitachi424_setFan(s, speed) ==
  LET least == IF s.Mode = kHitachiAc424Fan /\ speed = kHitachiAc424FanAuto
               THEN kHitachiAc424FanMin ELSE Clamp(speed, kHitachiAc424FanMin, 255)
      most == CASE s.Mode = kHitachiAc424Dry /\ speed = kHitachiAc424FanAuto -> kHitachiAc424FanAuto
                [] s.Mode = kHitachiAc424Dry /\ speed # kHitachiAc424FanAuto -> 2
                [] OTHER -> kHitachiAc424FanMax
      new == Clamp(least, 0, most)
  IN  [s EXCEPT !.Fan = new, !.Button = IF new # s.Fan THEN kHitachiAc424ButtonFan ELSE @,
                !.fan9 = Lookup(kHitachiAc424FanMin :> 152 @@ kHitachiAc424FanMax :> 169, new, 146),
                !.fan29 = IF new = kHitachiAc424FanMax THEN 48 ELSE 0]
Hitachi424_setMode(s, mode) ==
  LET newMode == OneOf(mode, {kHitachiAc424Fan, kHitachiAc424Heat, kHitachiAc424Cool,
                              kHitachiAc424Dry}, kHitachiAc424Cool)
      moded == [s EXCEPT !.Mode = newMode]
      warmed == IF newMode = kHitachiAc424Fan THEN Hitachi424_setTemp(moded, 27, FALSE)
                ELSE Hitachi424_setTemp(moded, s._previoustemp, TRUE)
  IN  [Hitachi424_setFan(warmed, s.Fan) EXCEPT !.Button = kHitachiAc424ButtonPowerMode]
Hitachi424_setSwingVToggle(s, on) ==
  [s EXCEPT !.Button = CASE on = 1 -> kHitachiAc424ButtonSwingV
                         [] on = 0 /\ @ = kHitachiAc424ButtonSwingV -> kHitachiAc424ButtonPowerMode
                         [] OTHER -> @]

Hitachi424_stateReset ==
  LET cleared == [[f \in DOMAIN Hitachi424_bits |-> 0] EXCEPT !.SwingH = 3]
      warmed == Hitachi424_setPower(Hitachi424_setTemp(cleared, 23, TRUE), 1)
  IN  Hitachi424_setFan(Hitachi424_setMode(warmed, kHitachiAc424Cool), kHitachiAc424FanAuto)

Hitachi424_options(s) ==
  {Hitachi424_setPower(s, on) : on \in Bit}
  \union {Hitachi424_setTemp(s, t, TRUE) : t \in {0, 16, 23, 24, 32, 255}}
  \union {Hitachi424_setFan(s, f) : f \in 0 .. 7}
  \union {Hitachi424_setMode(s, m) : m \in {0, 1, 3, 5, 6}}
  \union {Hitachi424_setSwingVToggle(s, on) : on \in Bit}

Hitachi424_asks(s) ==
  [power |-> BitOf(s.Power = kHitachiAc424PowerOn), temp |-> s.Temp,
   mode |-> (kHitachiAc424Fan :> kFan @@ kHitachiAc424Cool :> kCool @@ kHitachiAc424Dry :> kDry
             @@ kHitachiAc424Heat :> kHeat)[s.Mode]]

\* setInvertedStates: from the fourth byte on, every second byte is the
\* complement of the one before it.
Hitachi424_send == <<Section(0, 52)>>
Hitachi424_checksum == {Sum(2 * i + 1, 2 * i + 1, 2 * i + 2) : i \in 1 .. 25}

=============================================================================
