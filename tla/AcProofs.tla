------------------------------ MODULE AcProofs ------------------------------
EXTENDS AirConditioner, TLAPS

Has(s, fields) == fields \subseteq DOMAIN s

\* A remote whose field f was given another value agrees with it in all others.
LEMMA EachKeeps ==
  ASSUME NEW s, NEW f, NEW values, NEW t \in Each(s, f, values),
         NEW g \in DOMAIN s, g # f
  PROVE  g \in DOMAIN t /\ t[g] = s[g]
BY DEF Each

LEMMA TogglesKeeps ==
  ASSUME NEW s, NEW fields, NEW t \in Toggles(s, fields),
         NEW g \in DOMAIN s, g \notin fields
  PROVE  g \in DOMAIN t /\ t[g] = s[g]
BY DEF Toggles, Each

----------------------------------------------------------------------------
(* Ir_DaikinESP.                                                           *)

ESP_fields == {"Powerful", "Quiet", "Econo"}
ESP_Kept(s) == Has(s, ESP_fields) /\ ~ (s.Powerful = 1 /\ (s.Quiet = 1 \/ s.Econo = 1))

LEMMA ESPReset == ESP_Kept(ESP_stateReset)
BY DEF ESP_Kept, Has, ESP_fields, ESP_stateReset

LEMMA ESPSetparam == ASSUME NEW s, NEW r, ESP_Kept(s) PROVE ESP_Kept(ESP_setparam(s, r))
BY DEF ESP_Kept, Has, ESP_fields, ESP_setparam, ESP_setTemp, ESP_setFan, DaikinSetMode

LEMMA ESPOptions == ASSUME NEW s, ESP_Kept(s) PROVE \A t \in ESP_options(s) : ESP_Kept(t)
<1>1. ASSUME NEW f, f \notin ESP_fields, NEW values
      PROVE  \A t \in Each(s, f, values) : ESP_Kept(t)
  BY <1>1, EachKeeps DEF ESP_Kept, Has, ESP_fields
<1>2. \A t \in Toggles(s, {"Sensor", "Mold", "Comfort", "WeeklyTimer"}) : ESP_Kept(t)
  BY TogglesKeeps DEF ESP_Kept, Has, ESP_fields
<1>3. \A on \in Bit :
        /\ ESP_Kept([s EXCEPT !.Quiet = on, !.Powerful = IF on = 1 THEN 0 ELSE @])
        /\ ESP_Kept([s EXCEPT !.Econo = on, !.Powerful = IF on = 1 THEN 0 ELSE @])
        /\ ESP_Kept([s EXCEPT !.Powerful = on, !.Quiet = IF on = 1 THEN 0 ELSE @,
                              !.Econo = IF on = 1 THEN 0 ELSE @])
  BY DEF ESP_Kept, Has, ESP_fields, Bit
<1>4. \A m : /\ ESP_Kept([s EXCEPT !.OnTimer = 1, !.OnTime = m])
             /\ ESP_Kept([s EXCEPT !.OffTimer = 1, !.OffTime = m])
             /\ ESP_Kept([s EXCEPT !.OnTimer = 0, !.OnTime = m])
             /\ ESP_Kept([s EXCEPT !.OffTimer = 0, !.OffTime = m])
  BY DEF ESP_Kept, Has, ESP_fields
<1>5. \A f \in {"SwingV", "SwingH", "CurrentTime", "CurrentDay"} : f \notin ESP_fields
  BY DEF ESP_fields
<1>6. QED
  BY <1>1, <1>2, <1>3, <1>4, <1>5, ZenonT(30) DEF ESP_options

----------------------------------------------------------------------------
(* Ir_Daikin152.                                                           *)

Daikin152_fields == {"Powerful", "Quiet", "Comfort", "Econo"}
Daikin152_Kept(s) ==
  /\ Has(s, Daikin152_fields)
  /\ ~ (s.Powerful = 1 /\ (s.Quiet = 1 \/ s.Comfort = 1 \/ s.Econo = 1))

LEMMA Daikin152Reset == Daikin152_Kept(Daikin152_stateReset)
BY DEF Daikin152_Kept, Has, Daikin152_fields, Daikin152_stateReset, Daikin152_bits

LEMMA Daikin152Setparam ==
  ASSUME NEW s, NEW r, Daikin152_Kept(s) PROVE Daikin152_Kept(Daikin152_setparam(s, r))
<1>1. ASSUME NEW t, Daikin152_Kept(t), NEW temp PROVE Daikin152_Kept(Daikin152_setTemp(t, temp))
  BY <1>1 DEF Daikin152_Kept, Has, Daikin152_fields, Daikin152_setTemp
<1>2. ASSUME NEW t, Daikin152_Kept(t), NEW v
      PROVE  /\ Daikin152_Kept([t EXCEPT !.Power = v])
             /\ Daikin152_Kept([t EXCEPT !.Fan = v])
             /\ Daikin152_Kept(DaikinSetMode(t, v))
  BY <1>2 DEF Daikin152_Kept, Has, Daikin152_fields, DaikinSetMode
<1>3. ASSUME NEW t, Daikin152_Kept(t), NEW mode PROVE Daikin152_Kept(Daikin152_setMode(t, mode))
  BY <1>1, <1>2, <1>3, ZenonT(30) DEF Daikin152_setMode
<1>4. QED
  BY <1>1, <1>2, <1>3, ZenonT(30) DEF Daikin152_setparam

LEMMA Daikin152Options ==
  ASSUME NEW s, Daikin152_Kept(s) PROVE \A t \in Daikin152_options(s) : Daikin152_Kept(t)
<1>1. \A t \in Each(s, "SwingV", {0, 15}) \union Toggles(s, {"Sensor"}) : Daikin152_Kept(t)
  BY EachKeeps, TogglesKeeps DEF Daikin152_Kept, Has, Daikin152_fields
<1>2. \A on \in Bit :
        /\ Daikin152_Kept([s EXCEPT !.Quiet = on, !.Powerful = IF on = 1 THEN 0 ELSE @])
        /\ Daikin152_Kept([s EXCEPT !.Econo = on, !.Powerful = IF on = 1 THEN 0 ELSE @])
  BY DEF Daikin152_Kept, Has, Daikin152_fields, Bit
<1>3. /\ Daikin152_Kept([s EXCEPT !.Powerful = 0])
      /\ Daikin152_Kept([s EXCEPT !.Powerful = 1, !.Quiet = 0, !.Comfort = 0, !.Econo = 0])
      /\ Daikin152_Kept([s EXCEPT !.Comfort = 0])
      /\ Daikin152_Kept([s EXCEPT !.Comfort = 1, !.Powerful = 0, !.Fan = kDaikinFanAuto,
                                  !.SwingV = 0])
  BY DEF Daikin152_Kept, Has, Daikin152_fields
<1>4. QED
  BY <1>1, <1>2, <1>3, ZenonT(30) DEF Daikin152_options

----------------------------------------------------------------------------
(* Ir_Daikin64.                                                            *)

Daikin64_Kept(s) == Has(s, {"Mode"}) /\ s.Mode \in {kDaikin64Dry, kDaikin64Cool, kDaikin64Fan}

LEMMA Daikin64Reset == Daikin64_Kept(Daikin64_stateReset)
BY DEF Daikin64_Kept, Has, Daikin64_stateReset, kDaikin64Dry, kDaikin64Cool, kDaikin64Fan

LEMMA Daikin64Setparam ==
  ASSUME NEW s, NEW r, Daikin64_Kept(s) PROVE Daikin64_Kept(Daikin64_setparam(s, r))
BY DEF Daikin64_Kept, Has, Daikin64_setparam, Daikin64_setMode, Daikin64_setFan, Daikin64_setTemp,
       OneOf, kDaikin64Dry, kDaikin64Cool, kDaikin64Fan

LEMMA Daikin64Options ==
  ASSUME NEW s, Daikin64_Kept(s) PROVE \A t \in Daikin64_options(s) : Daikin64_Kept(t)
<1>1. \A t \in Toggles(s, {"SwingV", "Sleep", "OnTimer", "OffTimer"}) : Daikin64_Kept(t)
  BY TogglesKeeps DEF Daikin64_Kept, Has
<1> DEFINE speed(v, on) == IF on THEN Daikin64_setFan(s, v)
                           ELSE IF s.Fan = v THEN Daikin64_setFan(s, kDaikin64FanAuto) ELSE s
<1>2. \A v, on : Daikin64_Kept(speed(v, on))
  <2>1. \A v : Daikin64_Kept(Daikin64_setFan(s, v))
    BY DEF Daikin64_Kept, Has, Daikin64_setFan
  <2>2. QED
    BY <2>1
<1>3. \A t : /\ Daikin64_Kept([s EXCEPT !.ClockMins = uint8ToBcd(DayMinutes(t) % 60),
                                        !.ClockHours = uint8ToBcd(DayMinutes(t) \div 60)])
             /\ Daikin64_Kept([s EXCEPT !.OnHours = HalfHours(t).hours,
                                        !.OnHalfHour = HalfHours(t).half])
             /\ Daikin64_Kept([s EXCEPT !.OffHours = HalfHours(t).hours,
                                        !.OffHalfHour = HalfHours(t).half])
  BY DEF Daikin64_Kept, Has
<1>4. QED
  BY <1>1, <1>2, <1>3, ZenonT(30) DEF Daikin64_options
----------------------------------------------------------------------------
(* Ir_Daikin176.                                                           *)

Daikin176_Kept(s) ==
  /\ Has(s, {"Mode", "Temp", "_saved_temp"})
  /\ s._saved_temp \in Nat
  /\ s.Temp + 9 = IF s.Mode \in {kDaikin176Dry, kDaikin176Fan}
                  THEN kDaikin176DryFanTemp ELSE s._saved_temp

LEMMA Daikin176Reset == Daikin176_Kept(Daikin176_stateReset)
BY DEF Daikin176_Kept, Has, Daikin176_stateReset, kDaikin176Dry, kDaikin176Fan

\* setTemp establishes what the fields of the temperature have to agree on.
LEMMA Daikin176Setparam ==
  ASSUME NEW s, NEW r, Daikin176_Kept(s), r.temp \in Nat
  PROVE  Daikin176_Kept(Daikin176_setparam(s, r))
<1>1. ASSUME NEW t, Has(t, {"Mode", "Temp", "_saved_temp"}), NEW temp \in Nat
      PROVE  Daikin176_Kept(Daikin176_setTemp(t, temp))
  BY <1>1 DEF Daikin176_Kept, Has, Daikin176_setTemp, Clamp, kDaikinMinTemp, kDaikinMaxTemp,
              kDaikin176DryFanTemp
<1>2. ASSUME NEW t, Daikin176_Kept(t), NEW fan
      PROVE  Daikin176_Kept(Daikin176_setFan(t, fan))
  BY <1>2 DEF Daikin176_Kept, Has, Daikin176_setFan
<1>3. ASSUME NEW t, Daikin176_Kept(t), NEW mode
      PROVE  Daikin176_Kept(Daikin176_setMode(t, mode))
  <2>1. ASSUME NEW m, NEW alt
        PROVE  /\ Has([t EXCEPT !.Mode = m, !.AltMode = alt], {"Mode", "Temp", "_saved_temp"})
               /\ t._saved_temp \in Nat
    BY <1>3 DEF Daikin176_Kept, Has
  <2>2. ASSUME NEW u, Daikin176_Kept(u) PROVE Daikin176_Kept([u EXCEPT !.ModeButton = 4])
    BY <2>2 DEF Daikin176_Kept, Has
  <2>3. QED
    BY <1>1, <2>1, <2>2, ZenonT(30) DEF Daikin176_setMode
<1>4. Daikin176_Kept([s EXCEPT !.Power = Truth(r.power), !.ModeButton = 0])
  BY DEF Daikin176_Kept, Has
<1>5. ASSUME NEW t, Daikin176_Kept(t) PROVE Has(t, {"Mode", "Temp", "_saved_temp"})
  BY <1>5 DEF Daikin176_Kept
<1>6. QED
  BY <1>1, <1>2, <1>3, <1>4, <1>5, ZenonT(30) DEF Daikin176_setparam

LEMMA Daikin176Options ==
  ASSUME NEW s, Daikin176_Kept(s) PROVE \A t \in Daikin176_options(s) : Daikin176_Kept(t)
<1>1. \A v : Daikin176_Kept([s EXCEPT !.SwingH = OneOf(v, {5, 6}, 5)])
  BY DEF Daikin176_Kept, Has
<1>2. QED
  BY <1>1, ZenonT(30) DEF Daikin176_options

----------------------------------------------------------------------------
(* Ir_Daikin128.                                                           *)

Daikin128_Kept(s) ==
  /\ Has(s, {"Econo", "Mode"})
  /\ s.Econo = 1 => s.Mode \in {kDaikin128Cool, kDaikin128Heat}

LEMMA Daikin128Reset == Daikin128_Kept(Daikin128_stateReset)
BY DEF Daikin128_Kept, Has, Daikin128_stateReset, Daikin128_bits

LEMMA Daikin128SetFan ==
  ASSUME NEW s, Daikin128_Kept(s), NEW fan PROVE Daikin128_Kept(Daikin128_setFan(s, fan))
BY DEF Daikin128_Kept, Has, Daikin128_setFan

\* setEcono looks at the mode, and setMode calls it again.
LEMMA Daikin128SetEcono ==
  ASSUME NEW s, Has(s, {"Econo", "Mode"}), NEW on
  PROVE  Daikin128_Kept(Daikin128_setEcono(s, on))
BY DEF Daikin128_Kept, Has, Daikin128_setEcono, BitOf

LEMMA Daikin128Setparam ==
  ASSUME NEW s, NEW r, Daikin128_Kept(s) PROVE Daikin128_Kept(Daikin128_setparam(s, r))
<1>1. Has([s EXCEPT !.Power = Truth(r.power)], {"Econo", "Mode"})
  BY DEF Daikin128_Kept, Has
<1>2. ASSUME NEW t, Has(t, {"Econo", "Mode"}), NEW mode
      PROVE  Daikin128_Kept(Daikin128_setMode(t, mode))
  <2>1. ASSUME NEW m, NEW fan
        PROVE  Has(Daikin128_setFan([t EXCEPT !.Mode = m], fan), {"Econo", "Mode"})
    BY <1>2 DEF Has, Daikin128_setFan
  <2>2. QED
    BY <2>1, Daikin128SetEcono, ZenonT(30) DEF Daikin128_setMode
<1>3. ASSUME NEW t, Daikin128_Kept(t), NEW temp
      PROVE  Daikin128_Kept(Daikin128_setTemp(t, temp))
  BY <1>3 DEF Daikin128_Kept, Has, Daikin128_setTemp
<1>4. QED
  BY <1>1, <1>2, <1>3, Daikin128SetFan, ZenonT(30) DEF Daikin128_setparam

LEMMA Daikin128Options ==
  ASSUME NEW s, Daikin128_Kept(s) PROVE \A t \in Daikin128_options(s) : Daikin128_Kept(t)
<1>1. \A t \in Toggles(s, {"SwingV", "Sleep", "OnTimer", "OffTimer"}) : Daikin128_Kept(t)
  BY TogglesKeeps DEF Daikin128_Kept, Has
<1> DEFINE speed(v, on) == IF on /\ s.Mode \in {kDaikin128Cool, kDaikin128Heat}
                           THEN Daikin128_setFan(s, v)
                           ELSE IF s.Fan = v THEN Daikin128_setFan(s, kDaikin128FanAuto) ELSE s
<1>2. \A v, on : Daikin128_Kept(speed(v, on))
  BY Daikin128SetFan
<1>3. \A on : Daikin128_Kept(Daikin128_setEcono(s, on))
  BY Daikin128SetEcono DEF Daikin128_Kept
<1>4. /\ \A t : Daikin128_Kept([s EXCEPT !.OnTimer = t % 2])
      /\ \A t : Daikin128_Kept([s EXCEPT !.OffHours = HalfHours(t).hours,
                                         !.OffHalfHour = HalfHours(t).half])
      /\ \A t : Daikin128_Kept([s EXCEPT !.ClockMins = uint8ToBcd(DayMinutes(t) % 60),
                                         !.ClockHours = uint8ToBcd(DayMinutes(t) \div 60)])
  BY DEF Daikin128_Kept, Has
<1>5. \A t \in Daikin128_timers(s) : Daikin128_Kept(t)
  BY <1>4, ZenonT(30) DEF Daikin128_timers
<1>6. /\ Daikin128_Kept([s EXCEPT !.Ceiling = 0, !.Wall = 0])
      /\ Daikin128_Kept([s EXCEPT !.Ceiling = 1, !.Wall = 0])
      /\ Daikin128_Kept([s EXCEPT !.Ceiling = 0, !.Wall = 1])
  BY DEF Daikin128_Kept, Has
<1>7. QED
  BY <1>1, <1>2, <1>3, <1>5, <1>6, ZenonT(30) DEF Daikin128_options

----------------------------------------------------------------------------
(* Ir_Daikin2.                                                             *)

Daikin2_fields ==
  {"Powerful", "Quiet", "SleepTimer", "OnTimer", "Power", "Power2", "Mode", "Temp"}
Daikin2_Kept(s) ==
  /\ Has(s, Daikin2_fields)
  /\ ~ (s.Powerful = 1 /\ s.Quiet = 1)
  /\ ~ (s.SleepTimer = 1 /\ s.OnTimer = 1)
  /\ s.Power2 = 1 - s.Power
  /\ s.Temp \in Nat
  /\ s.Mode = kDaikinCool => s.Temp >= kDaikin2MinCoolTemp

LEMMA Daikin2Reset == Daikin2_Kept(Daikin2_stateReset)
<1>1. Has(Daikin2_bits, Daikin2_fields)
  BY DEF Has, Daikin2_fields, Daikin2_bits
<1>2. QED
  BY <1>1 DEF Daikin2_Kept, Has, Daikin2_fields, Daikin2_stateReset, kDaikinCool

LEMMA Daikin2Setparam ==
  ASSUME NEW s, NEW r, Daikin2_Kept(s), r.temp \in Nat
  PROVE  Daikin2_Kept(Daikin2_setparam(s, r))
<1> DEFINE Warm(t) == /\ Has(t, Daikin2_fields)
                      /\ ~ (t.Powerful = 1 /\ t.Quiet = 1)
                      /\ ~ (t.SleepTimer = 1 /\ t.OnTimer = 1)
                      /\ t.Power2 = 1 - t.Power
                      /\ t.Temp \in Nat
<1>1. ASSUME NEW t, Warm(t), NEW temp \in Nat PROVE Daikin2_Kept(Daikin2_setTemp(t, temp))
  BY <1>1 DEF Daikin2_Kept, Has, Daikin2_fields, Daikin2_setTemp, Clamp, kDaikin2MinCoolTemp,
              kDaikinMinTemp, kDaikinMaxTemp
<1>2. ASSUME NEW t, Daikin2_Kept(t), NEW v
      PROVE  /\ Warm([t EXCEPT !.Fan = v])
             /\ Warm(DaikinSetMode(t, v))
             /\ DaikinSetMode(t, v).Mode # kDaikinCool => Daikin2_Kept(DaikinSetMode(t, v))
             /\ t.Temp \in Nat
  BY <1>2 DEF Daikin2_Kept, Has, Daikin2_fields, DaikinSetMode
<1>3. ASSUME NEW t, Daikin2_Kept(t), NEW on PROVE Daikin2_Kept(Daikin2_setPower(t, on))
  BY <1>3 DEF Daikin2_Kept, Has, Daikin2_fields, Daikin2_setPower
<1> HIDE DEF Warm
<1>4. ASSUME NEW t, Daikin2_Kept(t), NEW mode PROVE Daikin2_Kept(Daikin2_setMode(t, mode))
  BY <1>1, <1>2, <1>4 DEF Daikin2_setMode
<1>5. QED
  BY <1>1, <1>2, <1>3, <1>4, ZenonT(30) DEF Daikin2_setparam

LEMMA Daikin2Options ==
  ASSUME NEW s, Daikin2_Kept(s) PROVE \A t \in Daikin2_options(s) : Daikin2_Kept(t)
<1>1. ASSUME NEW f, f \notin Daikin2_fields, NEW values
      PROVE  \A t \in Each(s, f, values) : Daikin2_Kept(t)
  BY <1>1, EachKeeps DEF Daikin2_Kept, Has, Daikin2_fields
<1>2. /\ \A t \in Each(s, "SwingV", 1 .. 6 \union 12 .. 15) : Daikin2_Kept(t)
      /\ \A t \in Each(s, "SwingH", {163, 191}) : Daikin2_Kept(t)
      /\ \A t \in Each(s, "Beep", 1 .. 3) : Daikin2_Kept(t)
      /\ \A t \in Each(s, "Light", 1 .. 3) : Daikin2_Kept(t)
  BY <1>1 DEF Daikin2_fields
<1>3. \A t \in Toggles(s, {"Econo", "EyeAuto", "Purify", "Mold", "Clean", "FreshAir",
                           "FreshAirHigh"}) : Daikin2_Kept(t)
  BY TogglesKeeps DEF Daikin2_Kept, Has, Daikin2_fields
<1>4. /\ \A on \in Bit : Daikin2_Kept([s EXCEPT !.Quiet = on,
                                               !.Powerful = IF on = 1 THEN 0 ELSE @])
      /\ \A on \in Bit : Daikin2_Kept([s EXCEPT !.Powerful = on,
                                               !.Quiet = IF on = 1 THEN 0 ELSE @])
  BY DEF Daikin2_Kept, Has, Daikin2_fields, Bit
<1>5. \A t \in Daikin2_timers(s) : Daikin2_Kept(t)
  <2>1. /\ \A m : Daikin2_Kept([s EXCEPT !.SleepTimer = 0, !.OnTimer = 1, !.OnTime = m])
        /\ \A m : Daikin2_Kept([s EXCEPT !.SleepTimer = 1, !.OnTimer = 0, !.OnTime = m])
        /\ \A m : Daikin2_Kept([s EXCEPT !.SleepTimer = 0, !.OnTimer = 0, !.OnTime = m])
        /\ \A m : Daikin2_Kept([s EXCEPT !.OffTimer = 1, !.OffTime = m])
        /\ \A m : Daikin2_Kept([s EXCEPT !.OffTimer = 0, !.OffTime = m])
    BY DEF Daikin2_Kept, Has, Daikin2_fields
  <2>2. \A t \in Each(s, "CurrentTime", Minutes) : Daikin2_Kept(t)
    BY <1>1 DEF Daikin2_fields
  <2>3. QED
    BY <2>1, <2>2, ZenonT(30) DEF Daikin2_timers
<1> DEFINE quiet == {[s EXCEPT !.Quiet = on, !.Powerful = IF on = 1 THEN 0 ELSE @] : on \in Bit}
           powerful == {[s EXCEPT !.Powerful = on, !.Quiet = IF on = 1 THEN 0 ELSE @] : on \in Bit}
<1>6. \A t \in quiet \union powerful : Daikin2_Kept(t)
  BY <1>4, ZenonT(30)
<1> HIDE DEF quiet, powerful
<1>7. QED
  BY <1>2, <1>3, <1>5, <1>6, ZenonT(30) DEF Daikin2_options, quiet, powerful

----------------------------------------------------------------------------
(* IRHitachiAc1.                                                           *)

Hitachi1_fields == {"Mode", "Fan", "Sleep"}
Hitachi1_Kept(s) ==
  /\ Has(s, Hitachi1_fields)
  /\ s.Mode = kHitachiAc1Dry => s.Fan = kHitachiAc1FanLow
  /\ s.Mode = kHitachiAc1Auto => s.Fan = kHitachiAc1FanAuto
  /\ s.Sleep # 0 => s.Mode \in {kHitachiAc1Auto, kHitachiAc1Cool}

LEMMA Hitachi1Reset == Hitachi1_Kept(Hitachi1_stateReset)
BY DEF Hitachi1_Kept, Has, Hitachi1_fields, Hitachi1_stateReset, kHitachiAc1Auto, kHitachiAc1Dry

LEMMA Hitachi1SetSleep ==
  ASSUME NEW s, Has(s, Hitachi1_fields), NEW mode,
         NEW t, t = Hitachi1_setSleep(s, mode)
  PROVE  /\ Has(t, Hitachi1_fields) /\ t.Mode = s.Mode /\ t.Fan = s.Fan
         /\ t.Sleep # 0 => t.Mode \in {kHitachiAc1Auto, kHitachiAc1Cool}
BY DEF Has, Hitachi1_fields, Hitachi1_setSleep

\* setFan makes the speed agree with the mode, setSleep the sleep.
LEMMA Hitachi1SetFan ==
  ASSUME NEW s, Has(s, Hitachi1_fields), NEW speed,
         s.Sleep # 0 => s.Mode \in {kHitachiAc1Auto, kHitachiAc1Cool}
  PROVE  Hitachi1_Kept(Hitachi1_setFan(s, speed))
BY DEF Hitachi1_Kept, Has, Hitachi1_fields, Hitachi1_setFan, kHitachiAc1Auto, kHitachiAc1Dry,
       kHitachiAc1Heat, kHitachiAc1Fan, kHitachiAc1Cool

LEMMA Hitachi1Setparam ==
  ASSUME NEW s, NEW r, Hitachi1_Kept(s) PROVE Hitachi1_Kept(Hitachi1_setparam(s, r))
<1>1. ASSUME NEW t, Hitachi1_Kept(t), NEW temp PROVE Hitachi1_Kept(Hitachi1_setTemp(t, temp))
  BY <1>1 DEF Hitachi1_Kept, Has, Hitachi1_fields, Hitachi1_setTemp
<1>2. ASSUME NEW t, Hitachi1_Kept(t), NEW on PROVE Hitachi1_Kept(Hitachi1_setPower(t, on))
  BY <1>2 DEF Hitachi1_Kept, Has, Hitachi1_fields, Hitachi1_setPower
<1>3. ASSUME NEW t, Hitachi1_Kept(t), NEW mode PROVE Hitachi1_Kept(Hitachi1_setMode(t, mode))
  <2>1. ASSUME NEW u, Has(u, Hitachi1_fields), NEW sleep, NEW fan
        PROVE  Hitachi1_Kept(Hitachi1_setFan(Hitachi1_setSleep(u, sleep), fan))
    BY <2>1, Hitachi1SetSleep, Hitachi1SetFan
  <2>2. \A m, temp : /\ Has(Hitachi1_setTemp(t, temp), Hitachi1_fields)
                     /\ Has([t EXCEPT !.Mode = m], Hitachi1_fields)
                     /\ Has([Hitachi1_setTemp(t, temp) EXCEPT !.Mode = m], Hitachi1_fields)
    BY <1>3 DEF Hitachi1_Kept, Has, Hitachi1_fields, Hitachi1_setTemp
  <2> DEFINE warm(u) == Hitachi1_setTemp(u, 25)
             moded == CASE mode = kHitachiAc1Auto -> warm(t)
                        [] mode \in {kHitachiAc1Fan, kHitachiAc1Heat, kHitachiAc1Cool,
                                     kHitachiAc1Dry} -> [t EXCEPT !.Mode = mode]
                        [] OTHER -> [warm(t) EXCEPT !.Mode = kHitachiAc1Auto]
  <2>3. Has(moded, Hitachi1_fields)
    BY <2>2, ZenonT(30)
  <2>4. QED
    BY <2>1, <2>3, ZenonT(30) DEF Hitachi1_setMode
<1>4. ASSUME NEW t, Hitachi1_Kept(t), NEW speed PROVE Hitachi1_Kept(Hitachi1_setFan(t, speed))
  BY <1>4, Hitachi1SetFan DEF Hitachi1_Kept
<1>5. QED
  BY <1>1, <1>2, <1>3, <1>4, ZenonT(30) DEF Hitachi1_setparam

LEMMA Hitachi1Options ==
  ASSUME NEW s, Hitachi1_Kept(s) PROVE \A t \in Hitachi1_options(s) : Hitachi1_Kept(t)
<1>1. \A t \in Toggles(s, {"SwingToggle", "SwingV", "SwingH", "PowerToggle"}) : Hitachi1_Kept(t)
  BY TogglesKeeps DEF Hitachi1_Kept, Has, Hitachi1_fields
<1>2. /\ \A t : Hitachi1_Kept([s EXCEPT !.Model = t])
      /\ \A t : Hitachi1_Kept([s EXCEPT !.OnTimerLow = Hitachi1_time(t).low,
                                        !.OnTimerHigh = Hitachi1_time(t).high])
      /\ \A t : Hitachi1_Kept([s EXCEPT !.OffTimerLow = Hitachi1_time(t).low,
                                        !.OffTimerHigh = Hitachi1_time(t).high])
  BY DEF Hitachi1_Kept, Has, Hitachi1_fields
<1>3. \A v : Hitachi1_Kept(Hitachi1_setSleep(s, v))
  BY Hitachi1SetSleep DEF Hitachi1_Kept
<1>4. QED
  BY <1>1, <1>2, <1>3, ZenonT(30) DEF Hitachi1_options

LEMMA Hitachi1Sent == ASSUME NEW s, Hitachi1_Kept(s) PROVE Hitachi1_Kept(Hitachi1_sent(s))
BY DEF Hitachi1_Kept, Has, Hitachi1_fields, Hitachi1_sent

----------------------------------------------------------------------------
(* IRHitachiAc424.                                                         *)

Hitachi424_fields == {"Mode", "Fan"}
Hitachi424_Kept(s) ==
  /\ Has(s, Hitachi424_fields)
  /\ s.Fan \in Nat
  /\ s.Mode = kHitachiAc424Fan => s.Fan # kHitachiAc424FanAuto
  /\ s.Mode = kHitachiAc424Dry => s.Fan \in {1, 2, kHitachiAc424FanAuto}

LEMMA Hitachi424SetPower ==
  ASSUME NEW s, Hitachi424_Kept(s), NEW on PROVE Hitachi424_Kept(Hitachi424_setPower(s, on))
BY DEF Hitachi424_Kept, Has, Hitachi424_fields, Hitachi424_setPower

LEMMA Hitachi424SetTemp ==
  ASSUME NEW s, NEW celsius, NEW previous
  PROVE  /\ Has(s, Hitachi424_fields) => Has(Hitachi424_setTemp(s, celsius, previous), Hitachi424_fields)
         /\ Hitachi424_Kept(s) => Hitachi424_Kept(Hitachi424_setTemp(s, celsius, previous))
BY DEF Hitachi424_Kept, Has, Hitachi424_fields, Hitachi424_setTemp

\* setFan makes the speed agree with the mode, whatever it was.
LEMMA Hitachi424SetFan ==
  ASSUME NEW s, Has(s, Hitachi424_fields), NEW speed \in Nat
  PROVE  Hitachi424_Kept(Hitachi424_setFan(s, speed))
BY DEF Hitachi424_Kept, Has, Hitachi424_fields, Hitachi424_setFan, Clamp, kHitachiAc424Fan,
       kHitachiAc424Dry, kHitachiAc424FanMin, kHitachiAc424FanAuto, kHitachiAc424FanMax

LEMMA Hitachi424SetMode ==
  ASSUME NEW s, Hitachi424_Kept(s), NEW mode PROVE Hitachi424_Kept(Hitachi424_setMode(s, mode))
<1>1. ASSUME NEW celsius, NEW previous, NEW m
      PROVE  Has(Hitachi424_setTemp([s EXCEPT !.Mode = m], celsius, previous), Hitachi424_fields)
  <2>1. \A v : Has([s EXCEPT !.Mode = v], Hitachi424_fields)
    BY DEF Hitachi424_Kept, Has, Hitachi424_fields
  <2>2. QED
    BY <2>1, Hitachi424SetTemp
<1>2. ASSUME NEW t, Hitachi424_Kept(t), NEW b PROVE Hitachi424_Kept([t EXCEPT !.Button = b])
  BY <1>2 DEF Hitachi424_Kept, Has, Hitachi424_fields
<1>3. s.Fan \in Nat
  BY DEF Hitachi424_Kept
<1>4. QED
  BY <1>1, <1>2, <1>3, Hitachi424SetFan, ZenonT(30) DEF Hitachi424_setMode

LEMMA Hitachi424Reset == Hitachi424_Kept(Hitachi424_stateReset)
<1> DEFINE cleared == [[f \in DOMAIN Hitachi424_bits |-> 0] EXCEPT !.SwingH = 3]
<1>1. Has(Hitachi424_bits, Hitachi424_fields)
  BY DEF Has, Hitachi424_fields, Hitachi424_bits
<1>2. Hitachi424_Kept(cleared)
  BY <1>1 DEF Hitachi424_Kept, Has, Hitachi424_fields, kHitachiAc424Fan, kHitachiAc424Dry
<1>3. ASSUME NEW t, Hitachi424_Kept(t)
      PROVE  Hitachi424_Kept(Hitachi424_setFan(t, kHitachiAc424FanAuto))
  BY <1>3, Hitachi424SetFan DEF Hitachi424_Kept, kHitachiAc424FanAuto
<1>4. QED
  BY <1>2, <1>3, Hitachi424SetTemp, Hitachi424SetPower, Hitachi424SetMode, ZenonT(30) DEF Hitachi424_stateReset

LEMMA Hitachi424Options ==
  ASSUME NEW s, Hitachi424_Kept(s) PROVE \A t \in Hitachi424_options(s) : Hitachi424_Kept(t)
<1>1. \A f \in 0 .. 7 : f \in Nat
  OBVIOUS
<1>2. \A f \in 0 .. 7 : Hitachi424_Kept(Hitachi424_setFan(s, f))
  BY <1>1, Hitachi424SetFan, ZenonT(30) DEF Hitachi424_Kept
<1>3. \A on : Hitachi424_Kept(Hitachi424_setSwingVToggle(s, on))
  BY DEF Hitachi424_Kept, Has, Hitachi424_fields, Hitachi424_setSwingVToggle
<1>4. QED
  BY <1>2, <1>3, Hitachi424SetTemp, Hitachi424SetPower, Hitachi424SetMode, ZenonT(30)
     DEF Hitachi424_options

----------------------------------------------------------------------------
(* Ir_Panasonic: two bits that the setters take turns with.                *)

Panasonic_fields == {"bit21_0", "bit21_5"}
Panasonic_Kept(s) == Has(s, Panasonic_fields) /\ ~ (s.bit21_0 = 1 /\ s.bit21_5 = 1)

LEMMA PanasonicReset == Panasonic_Kept(Panasonic_stateReset)
BY DEF Panasonic_Kept, Has, Panasonic_fields, Panasonic_stateReset, Panasonic_bits

LEMMA PanasonicSetTemp ==
  ASSUME NEW s, Panasonic_Kept(s), NEW celsius, NEW remember
  PROVE  Panasonic_Kept(Panasonic_setTemp(s, celsius, remember))
BY DEF Panasonic_Kept, Has, Panasonic_fields, Panasonic_setTemp

LEMMA PanasonicSetparam ==
  ASSUME NEW s, NEW r, Panasonic_Kept(s) PROVE Panasonic_Kept(Panasonic_setparam(s, r))
<1>1. ASSUME NEW t, Panasonic_Kept(t), NEW v
      PROVE  /\ Panasonic_Kept([t EXCEPT !.Mode = v])
             /\ Panasonic_Kept([t EXCEPT !.Power = v])
             /\ Panasonic_Kept(Panasonic_setFan(t, v))
  BY <1>1 DEF Panasonic_Kept, Has, Panasonic_fields, Panasonic_setFan
<1>2. ASSUME NEW t, Panasonic_Kept(t), NEW mode PROVE Panasonic_Kept(Panasonic_setMode(t, mode))
  BY <1>1, <1>2, PanasonicSetTemp, ZenonT(30) DEF Panasonic_setMode
<1>3. QED
  BY <1>1, <1>2, PanasonicSetTemp, ZenonT(30) DEF Panasonic_setparam

LEMMA PanasonicSwing ==
  ASSUME NEW s, Panasonic_Kept(s), NEW v PROVE Panasonic_Kept(Panasonic_setSwingHorizontal(s, v))
BY DEF Panasonic_Kept, Has, Panasonic_fields, Panasonic_setSwingHorizontal

LEMMA PanasonicSetModel ==
  ASSUME NEW s, Panasonic_Kept(s), NEW model PROVE Panasonic_Kept(Panasonic_setModel(s, model))
<1> DEFINE cleared == [s EXCEPT !.Power = 0, !.OnTimer = 0, !.OffTimer = 0, !.bit3 = 0,
                                !.raw17 = 0, !.bit21_4 = 0, !.raw23 = 129, !.Clock = @ % 256]
<1>1. Panasonic_Kept(cleared)
  BY DEF Panasonic_Kept, Has, Panasonic_fields
<1> HIDE DEF cleared
<1>2. /\ Panasonic_Kept([cleared EXCEPT !.OnTimer = 1, !.raw17 = 6])
      /\ Panasonic_Kept([cleared EXCEPT !.raw23 = 1, !.Clock = @ + 6 * 256])
      /\ Panasonic_Kept([cleared EXCEPT !.raw17 = 6])
      /\ Panasonic_Kept([cleared EXCEPT !.bit21_4 = 1, !.raw23 = 1])
      /\ Panasonic_Kept([cleared EXCEPT !.bit3 = 1, !.raw23 = 137])
  BY <1>1 DEF Panasonic_Kept, Has, Panasonic_fields
<1>3. QED
  BY <1>1, <1>2, PanasonicSwing DEF Panasonic_setModel, cleared

LEMMA PanasonicOptions ==
  ASSUME NEW s, Panasonic_Kept(s) PROVE \A t \in Panasonic_options(s) : Panasonic_Kept(t)
<1>1. \A on \in Bit : /\ Panasonic_Kept(Panasonic_setQuiet(s, on))
                      /\ Panasonic_Kept(Panasonic_setPowerful(s, on))
  BY DEF Panasonic_Kept, Has, Panasonic_fields, Panasonic_setQuiet, Panasonic_setPowerful, Bit
<1>2. /\ \A on : Panasonic_Kept(Panasonic_setIon(s, on))
      /\ \A v : Panasonic_Kept([s EXCEPT !.SwingV = IF v = 15 THEN v ELSE Clamp(v, 1, 5)])
      /\ \A t : Panasonic_Kept([s EXCEPT !.Clock = Panasonic_time(t, FALSE)])
  BY DEF Panasonic_Kept, Has, Panasonic_fields, Panasonic_setIon
<1>3. \A v : /\ Panasonic_Kept(Panasonic_setModel(s, v))
             /\ Panasonic_Kept(Panasonic_setSwingHorizontal(s, v))
  BY PanasonicSetModel, PanasonicSwing
<1>4. \A t, on : /\ Panasonic_Kept(Panasonic_setOnTimer(s, t, on))
                 /\ Panasonic_Kept(Panasonic_setOffTimer(s, t, on))
  BY DEF Panasonic_Kept, Has, Panasonic_fields, Panasonic_setOnTimer, Panasonic_setOffTimer
<1>5. QED
  BY <1>1, <1>2, <1>3, <1>4, ZenonT(30) DEF Panasonic_options

----------------------------------------------------------------------------
(* IrToshiba: prev_mode is the mode to come back to from off.              *)

Toshiba_fields == {"Mode", "prev_mode", "length"}
Toshiba_Kept(s) ==
  /\ Has(s, Toshiba_fields)
  /\ s.Mode \in {s.prev_mode, kToshibaAcOff}
  /\ s.length \in {3, 4}

LEMMA ToshibaReset == Toshiba_Kept(Toshiba_stateReset)
BY DEF Toshiba_Kept, Has, Toshiba_fields, Toshiba_stateReset

LEMMA ToshibaSetStateLength ==
  ASSUME NEW s, Toshiba_Kept(s), NEW size \in {kToshibaACStateLength, kToshibaACStateLengthLong}
  PROVE  Toshiba_Kept(Toshiba_setStateLength(s, size))
BY DEF Toshiba_Kept, Has, Toshiba_fields, Toshiba_setStateLength, kToshibaAcMinLength,
       kToshibaACStateLength, kToshibaACStateLengthLong

LEMMA ToshibaSetMode ==
  ASSUME NEW s, Toshiba_Kept(s), NEW mode PROVE Toshiba_Kept(Toshiba_setMode(s, mode))
<1>1. ASSUME NEW t, Toshiba_Kept(t), NEW m
      PROVE  Toshiba_Kept([t EXCEPT !.Mode = m, !.prev_mode = IF m = kToshibaAcOff THEN @ ELSE m])
  BY <1>1 DEF Toshiba_Kept, Has, Toshiba_fields
<1>2. QED
  BY <1>1, ToshibaSetStateLength DEF Toshiba_setMode

LEMMA ToshibaSetPower ==
  ASSUME NEW s, Toshiba_Kept(s), NEW on \in Bit PROVE Toshiba_Kept(Toshiba_setPower(s, on))
BY ToshibaSetMode DEF Toshiba_setPower

LEMMA ToshibaSetparam ==
  ASSUME NEW s, NEW r, Toshiba_Kept(s) PROVE Toshiba_Kept(Toshiba_setparam(s, r))
<1>1. ASSUME NEW t, Toshiba_Kept(t), NEW v
      PROVE  Toshiba_Kept(Toshiba_setTemp(t, v)) /\ Toshiba_Kept(Toshiba_setFan(t, v))
  BY <1>1 DEF Toshiba_Kept, Has, Toshiba_fields, Toshiba_setTemp, Toshiba_setFan
<1>2. Truth(r.power) \in Bit
  BY DEF Truth, BitOf, Bit
<1>3. QED
  BY <1>1, <1>2, ToshibaSetMode, ToshibaSetPower, ZenonT(30) DEF Toshiba_setparam

LEMMA ToshibaOptions ==
  ASSUME NEW s, Toshiba_Kept(s) PROVE \A t \in Toshiba_options(s) : Toshiba_Kept(t)
<1>1. ASSUME NEW on \in Bit, NEW value, NEW other
      PROVE  Toshiba_Kept(Toshiba_setSpecial(s, on, value, other))
  <2>1. Toshiba_Kept([s EXCEPT !.EcoTurbo = value])
    BY DEF Toshiba_Kept, Has, Toshiba_fields
  <2>2. QED
    BY <2>1, ToshibaSetStateLength DEF Toshiba_setSpecial
<1>2. \A v : Toshiba_Kept([s EXCEPT !._send_swing = 1, !._swing_mode = v])
  BY DEF Toshiba_Kept, Has, Toshiba_fields
<1>3. QED
  BY <1>1, <1>2, ToshibaSetPower, ZenonT(30) DEF Toshiba_options, Toshiba_setTurbo, Toshiba_setEcono

LEMMA ToshibaSent == ASSUME NEW s, Toshiba_Kept(s) PROVE Toshiba_Kept(Toshiba_sent(s))
BY DEF Toshiba_Kept, Has, Toshiba_fields, Toshiba_sent

----------------------------------------------------------------------------
(* Ir_Gree.                                                                *)

Gree_fields == {"Mode", "Temp", "Fan"}
Gree_Kept(s) ==
  /\ Has(s, Gree_fields)
  /\ s.Mode = kGreeAuto => s.Temp = 9
  /\ s.Mode = kGreeDry => s.Fan = 1

LEMMA GreeReset == Gree_Kept(Gree_stateReset)
<1>1. Has(Gree_bits, Gree_fields)
  BY DEF Has, Gree_fields, Gree_bits
<1>2. QED
  BY <1>1 DEF Gree_Kept, Has, Gree_fields, Gree_stateReset, kGreeAuto, kGreeDry

LEMMA GreeSetPower ==
  ASSUME NEW s, Gree_Kept(s), NEW on PROVE Gree_Kept(Gree_setPower(s, on))
BY DEF Gree_Kept, Has, Gree_fields, Gree_setPower

\* In auto the temperature is 25 whatever is asked for, and in dry the speed is the lowest.
LEMMA GreeSetTemp ==
  ASSUME NEW s, Gree_Kept(s), NEW temp, NEW fahrenheit
  PROVE  Gree_Kept(Gree_setTemp(s, temp, fahrenheit))
<1>1. (18 * 25) \div 18 - kGreeMinTempC = 9
  BY DEF kGreeMinTempC
<1>2. QED
  BY <1>1 DEF Gree_Kept, Has, Gree_fields, Gree_setTemp

LEMMA GreeSetFan ==
  ASSUME NEW s, Gree_Kept(s), NEW speed PROVE Gree_Kept(Gree_setFan(s, speed))
BY DEF Gree_Kept, Has, Gree_fields, Gree_setFan

LEMMA GreeSetMode ==
  ASSUME NEW s, Gree_Kept(s), NEW mode \in kGreeAuto .. kGreeHeat
  PROVE  Gree_Kept(Gree_setMode(s, mode))
<1>1. CASE mode = kGreeAuto
  <2>1. LET t == Gree_setTemp(s, 25, 0) IN Has(t, Gree_fields) /\ t.Temp = 9
    BY DEF Gree_Kept, Has, Gree_fields, Gree_setTemp, Clamp, kGreeMinTempC, kGreeMaxTempC
  <2>2. QED
    BY <1>1, <2>1 DEF Gree_setMode, Gree_Kept, Has, Gree_fields, OneOf, kGreeAuto, kGreeDry,
                      kGreeHeat
<1>2. CASE mode = kGreeDry
  <2>1. LET t == Gree_setFan(s, 1) IN Has(t, Gree_fields) /\ t.Fan = 1
    BY DEF Gree_Kept, Has, Gree_fields, Gree_setFan, Clamp, kGreeFanMax
  <2>2. QED
    BY <1>2, <2>1 DEF Gree_setMode, Gree_Kept, Has, Gree_fields, OneOf, kGreeAuto, kGreeDry,
                      kGreeHeat
<1>3. CASE mode \notin {kGreeAuto, kGreeDry}
  BY <1>3 DEF Gree_setMode, Gree_Kept, Has, Gree_fields, OneOf, kGreeAuto, kGreeDry, kGreeHeat
<1>4. QED
  BY <1>1, <1>2, <1>3

LEMMA GreeSetparam ==
  ASSUME NEW s, NEW r, Gree_Kept(s) PROVE Gree_Kept(Gree_setparam(s, r))
<1>1. GreeMode(r.mode) \in kGreeAuto .. kGreeHeat
  BY DEF GreeMode, Lookup, kGreeAuto, kGreeCool, kGreeDry, kGreeFan, kGreeHeat, kCool, kHeat,
         kDry, kFan, :>, @@
<1>2. QED
  BY <1>1, GreeSetPower, GreeSetTemp, GreeSetFan, GreeSetMode, ZenonT(30) DEF Gree_setparam

LEMMA GreeOptions ==
  ASSUME NEW s, Gree_Kept(s) PROVE \A t \in Gree_options(s) : Gree_Kept(t)
<1>1. ASSUME NEW f, f \notin Gree_fields, NEW values
      PROVE  \A t \in Each(s, f, values) : Gree_Kept(t)
  BY <1>1, EachKeeps DEF Gree_Kept, Has, Gree_fields
<1>2. \A t \in Toggles(s, {"Light", "IFeel", "WiFi", "Xfan", "Sleep", "Turbo",
                           "UseFahrenheit"}) : Gree_Kept(t)
  BY TogglesKeeps DEF Gree_Kept, Has, Gree_fields
<1>3. /\ \A t \in Each(s, "_model", {YAW1F, YBOFB}) : Gree_Kept(t)
      /\ \A t \in Each(s, "DisplayTemp", 0 .. 3) : Gree_Kept(t)
  BY <1>1 DEF Gree_fields
<1>4. \A a, p : Gree_Kept(Gree_setSwingVertical(s, a, p))
  BY DEF Gree_Kept, Has, Gree_fields, Gree_setSwingVertical
<1>5. \A m : Gree_Kept(Gree_setTimer(s, m))
  BY DEF Gree_Kept, Has, Gree_fields, Gree_setTimer
<1>6. \A t : Gree_Kept(Gree_setTemp(s, t, 1))
  BY GreeSetTemp
<1>7. QED
  BY <1>2, <1>3, <1>4, <1>5, <1>6, ZenonT(30) DEF Gree_options

LEMMA GreeSent == ASSUME NEW s, Gree_Kept(s) PROVE Gree_Kept(Gree_getRaw(s))
BY GreeSetPower DEF Gree_getRaw

----------------------------------------------------------------------------
(* Ir_Midea.                                                               *)

Midea_fields == {"disableSensor", "BeepDisable"}
Midea_Kept(s) == Has(s, Midea_fields) /\ s.disableSensor = s.BeepDisable

LEMMA MideaReset == Midea_Kept(Midea_stateReset)
BY DEF Midea_Kept, Has, Midea_fields, Midea_stateReset

LEMMA MideaSetTemp ==
  ASSUME NEW s, Midea_Kept(s), NEW temp, NEW celsius
  PROVE  Midea_Kept(Midea_setTemp(s, temp, celsius))
BY DEF Midea_Kept, Has, Midea_fields, Midea_setTemp

\* The bits of the sensor and of the beep go together, whatever set them before.
LEMMA MideaSensor ==
  ASSUME NEW s, Has(s, Midea_fields), NEW on PROVE Midea_Kept(Midea_setEnableSensorTemp(s, on))
BY DEF Midea_Kept, Has, Midea_fields, Midea_setEnableSensorTemp

LEMMA MideaSetparam ==
  ASSUME NEW s, NEW r, Midea_Kept(s) PROVE Midea_Kept(Midea_setparam(s, r))
<1>1. \A p, m, f : Midea_Kept([s EXCEPT !.Power = p, !.Mode = m, !.Fan = f])
  BY DEF Midea_Kept, Has, Midea_fields
<1>2. QED
  BY <1>1, MideaSetTemp, ZenonT(30) DEF Midea_setparam

LEMMA MideaOptions ==
  ASSUME NEW s, Midea_Kept(s) PROVE \A t \in Midea_options(s) : Midea_Kept(t)
<1>1. \A t \in Toggles(s, {"Sleep", "_SwingVToggle", "_EconoToggle", "_TurboToggle",
                           "_LightToggle"}) : Midea_Kept(t)
  BY TogglesKeeps DEF Midea_Kept, Has, Midea_fields
<1>2. \A on : Midea_Kept(Midea_setUseCelsius(s, on))
  <2>1. \A v : Midea_Kept([s EXCEPT !.useFahrenheit = v])
    BY DEF Midea_Kept, Has, Midea_fields
  <2>2. QED
    BY <2>1, MideaSetTemp DEF Midea_setUseCelsius
<1>3. \A t : Midea_Kept(Midea_setTemp(s, t, 1))
  BY MideaSetTemp
<1>4. \A t : /\ Midea_Kept(Midea_setSensorTemp(s, t, 0))
             /\ Midea_Kept(Midea_setSensorTemp(s, t, 1))
  <2>1. \A v : Has([s EXCEPT !.SensorTemp = v], Midea_fields)
    BY DEF Midea_Kept, Has, Midea_fields
  <2>2. QED
    BY <2>1, MideaSensor, ZenonT(30) DEF Midea_setSensorTemp
<1>5. \A on : Midea_Kept(Midea_setEnableSensorTemp(s, on))
  BY MideaSensor DEF Midea_Kept
<1>6. \A t : Midea_Kept(Midea_setOnTimer(s, t))
  <2>1. ASSUME NEW u, Midea_Kept(u), NEW v PROVE Midea_Kept([u EXCEPT !.SensorTemp = v])
    BY <2>1 DEF Midea_Kept, Has, Midea_fields
  <2>2. QED
    BY <1>5, <2>1, ZenonT(30) DEF Midea_setOnTimer
<1>7. \A t : Midea_Kept(Midea_setOffTimer(s, t))
  BY DEF Midea_Kept, Has, Midea_fields, Midea_setOffTimer
<1>8. QED
  BY <1>1, <1>2, <1>3, <1>4, <1>5, <1>6, <1>7, ZenonT(30) DEF Midea_options

LEMMA MideaSent == ASSUME NEW s, Midea_Kept(s) PROVE Midea_Kept(Midea_sent(s))
BY DEF Midea_Kept, Has, Midea_fields, Midea_sent

----------------------------------------------------------------------------
(* IrNeoclimaAc.                                                           *)

Neoclima_fields == {"Mode", "Fan"}
Neoclima_Kept(s) == Has(s, Neoclima_fields) /\ (s.Mode = kGreeDry => s.Fan = kNeoclimaFanLow)

LEMMA NeoclimaReset == Neoclima_Kept(Neoclima_stateReset)
<1>1. Has(Neoclima_bits, Neoclima_fields)
  BY DEF Has, Neoclima_fields, Neoclima_bits
<1>2. QED
  BY <1>1 DEF Neoclima_Kept, Has, Neoclima_fields, Neoclima_stateReset, kGreeDry

LEMMA NeoclimaSetFan ==
  ASSUME NEW s, Has(s, Neoclima_fields), NEW speed
  PROVE  /\ Neoclima_Kept(Neoclima_setFan(s, speed))
         /\ speed = kNeoclimaFanLow => Neoclima_setFan(s, speed).Fan = kNeoclimaFanLow
BY DEF Neoclima_Kept, Has, Neoclima_fields, Neoclima_setFan, OneOf, kNeoclimaFanLow

LEMMA NeoclimaSetTemp ==
  ASSUME NEW s, Neoclima_Kept(s), NEW temp, NEW fahrenheit
  PROVE  Neoclima_Kept(Neoclima_setTemp(s, temp, fahrenheit))
BY DEF Neoclima_Kept, Has, Neoclima_fields, Neoclima_setTemp

LEMMA NeoclimaSetMode ==
  ASSUME NEW s, Neoclima_Kept(s), NEW mode PROVE Has(Neoclima_setMode(s, mode), Neoclima_fields)
<1>1. Has(Neoclima_setFan(s, kNeoclimaFanLow), Neoclima_fields)
  BY NeoclimaSetFan DEF Neoclima_Kept
<1>2. QED
  BY <1>1 DEF Neoclima_Kept, Has, Neoclima_fields, Neoclima_setMode

LEMMA NeoclimaSetparam ==
  ASSUME NEW s, NEW r, Neoclima_Kept(s) PROVE Neoclima_Kept(Neoclima_setparam(s, r))
<1>1. Neoclima_Kept([s EXCEPT !.Power = Truth(r.power), !.Button = kNeoclimaButtonPower])
  BY DEF Neoclima_Kept, Has, Neoclima_fields
<1>2. QED
  BY <1>1, NeoclimaSetFan, NeoclimaSetMode, NeoclimaSetTemp, ZenonT(30) DEF Neoclima_setparam

LEMMA NeoclimaOptions ==
  ASSUME NEW s, Neoclima_Kept(s) PROVE \A t \in Neoclima_options(s) : Neoclima_Kept(t)
<1>1. \A t \in Neoclima_pressed(s) : Neoclima_Kept(t)
  <2>1. ASSUME NEW f, f \notin Neoclima_fields, NEW on
        PROVE  Neoclima_Kept(Neoclima_press(s, f, on))
    BY <2>1 DEF Neoclima_Kept, Has, Neoclima_fields, Neoclima_press
  <2>2. \A f \in DOMAIN kNeoclimaButtons : f \notin Neoclima_fields
    BY DEF kNeoclimaButtons, Neoclima_fields
  <2>3. QED
    BY <2>1, <2>2 DEF Neoclima_pressed
<1>2. /\ \A on : Neoclima_Kept([s EXCEPT !.Button = kNeoclimaButtonSwing, !.SwingV = 2 - on])
      /\ \A on : Neoclima_Kept([s EXCEPT !.Button = kNeoclimaButtonAirFlow, !.SwingH = 1 - on])
      /\ \A b : Neoclima_Kept([s EXCEPT !.Button = OneOf(b, {19, 30}, kNeoclimaButtonPower)])
  BY DEF Neoclima_Kept, Has, Neoclima_fields
<1>3. \A t : Neoclima_Kept(Neoclima_setTemp(s, t, 1))
  BY NeoclimaSetTemp
<1>4. QED
  BY <1>1, <1>2, <1>3, ZenonT(30) DEF Neoclima_options

----------------------------------------------------------------------------
(* Ir_Airwell.                                                             *)

Airwell_fields == {"Mode", "Fan"}
Airwell_Kept(s) == Has(s, Airwell_fields) /\ (s.Mode = kAirwellDry => s.Fan = 0)

LEMMA AirwellReset == Airwell_Kept(Airwell_stateReset)
BY DEF Airwell_Kept, Has, Airwell_fields, Airwell_stateReset

LEMMA AirwellSetFan ==
  ASSUME NEW s, Has(s, Airwell_fields), NEW speed PROVE Airwell_Kept(Airwell_setFan(s, speed))
BY DEF Airwell_Kept, Has, Airwell_fields, Airwell_setFan

LEMMA AirwellSetMode ==
  ASSUME NEW s, Airwell_Kept(s), NEW mode PROVE Airwell_Kept(Airwell_setMode(s, mode))
<1>1. \A m : Has([s EXCEPT !.Mode = m], Airwell_fields)
  BY DEF Airwell_Kept, Has, Airwell_fields
<1>2. QED
  BY <1>1, AirwellSetFan, ZenonT(30) DEF Airwell_setMode

LEMMA AirwellSetparam ==
  ASSUME NEW s, NEW r, Airwell_Kept(s) PROVE Airwell_Kept(Airwell_setparam(s, r))
<1>1. \A v : Airwell_Kept([s EXCEPT !.PowerToggle = v])
  BY DEF Airwell_Kept, Has, Airwell_fields
<1>2. ASSUME NEW t, Airwell_Kept(t), NEW degrees PROVE Airwell_Kept(Airwell_setTemp(t, degrees))
  BY <1>2 DEF Airwell_Kept, Has, Airwell_fields, Airwell_setTemp
<1>3. ASSUME NEW t, Airwell_Kept(t) PROVE Has(t, Airwell_fields)
  BY <1>3 DEF Airwell_Kept
<1>4. QED
  BY <1>1, <1>2, <1>3, AirwellSetMode, AirwellSetFan, ZenonT(30) DEF Airwell_setparam

LEMMA AirwellOptions ==
  ASSUME NEW s, Airwell_Kept(s) PROVE \A t \in Airwell_options(s) : Airwell_Kept(t)
<1>1. \A t \in Toggles(s, {"PowerToggle"}) : Airwell_Kept(t)
  BY TogglesKeeps DEF Airwell_Kept, Has, Airwell_fields
<1>2. QED
  BY <1>1, AirwellSetMode, ZenonT(30) DEF Airwell_options

----------------------------------------------------------------------------
(* Ir_Amcor.                                                               *)

Amcor_fields == {"Mode", "Vent"}
Amcor_Kept(s) == Has(s, Amcor_fields) /\ ((s.Vent = kAmcorVentOn) <=> (s.Mode = kAmcorFan))

LEMMA AmcorReset == Amcor_Kept(Amcor_stateReset)
BY DEF Amcor_Kept, Has, Amcor_fields, Amcor_stateReset, kAmcorVentOn, kAmcorFan, kAmcorAuto

LEMMA AmcorSetMode ==
  ASSUME NEW s, Amcor_Kept(s), NEW mode PROVE Amcor_Kept(Amcor_setMode(s, mode))
BY DEF Amcor_Kept, Has, Amcor_fields, Amcor_setMode, OneOf, kAmcorVentOn, kAmcorFan, kAmcorAuto

LEMMA AmcorSetFan ==
  ASSUME NEW s, Amcor_Kept(s), NEW speed PROVE Amcor_Kept(Amcor_setFan(s, speed))
BY DEF Amcor_Kept, Has, Amcor_fields, Amcor_setFan

LEMMA AmcorSetparam ==
  ASSUME NEW s, NEW r, Amcor_Kept(s) PROVE Amcor_Kept(Amcor_setparam(s, r))
<1>1. ASSUME NEW t, Amcor_Kept(t), NEW v
      PROVE  Amcor_Kept(Amcor_setPower(t, v)) /\ Amcor_Kept(Amcor_setTemp(t, v))
  BY <1>1 DEF Amcor_Kept, Has, Amcor_fields, Amcor_setPower, Amcor_setTemp
<1>2. QED
  BY <1>1, AmcorSetMode, AmcorSetFan, ZenonT(30) DEF Amcor_setparam

LEMMA AmcorOptions ==
  ASSUME NEW s, Amcor_Kept(s) PROVE \A t \in Amcor_options(s) : Amcor_Kept(t)
<1>1. \A on : Amcor_Kept(Amcor_setMax(s, on))
  BY DEF Amcor_Kept, Has, Amcor_fields, Amcor_setMax
<1>2. QED
  BY <1>1, AmcorSetMode, AmcorSetFan, ZenonT(30) DEF Amcor_options

----------------------------------------------------------------------------
(* Ir_Samsung.                                                             *)

Samsung_fields == {"Mode", "Fan", "Quiet1", "Quiet5"}
Samsung_Kept(s) ==
  /\ Has(s, Samsung_fields)
  /\ (s.Mode = kSamsungAcAuto) <=> (s.Fan = kSamsungAcFanAuto2)
  /\ s.Quiet5 = 1 - s.Quiet1

LEMMA SamsungReset == Samsung_Kept(Samsung_stateReset)
BY DEF Samsung_Kept, Has, Samsung_fields, Samsung_stateReset, kSamsungAcAuto, kSamsungAcFanAuto2

LEMMA SamsungSetFan ==
  ASSUME NEW s, Samsung_Kept(s), NEW speed PROVE Samsung_Kept(Samsung_setFan(s, speed))
BY DEF Samsung_Kept, Has, Samsung_fields, Samsung_setFan, kSamsungAcFanAuto2, kSamsungAcFanTurbo

LEMMA SamsungSetMode ==
  ASSUME NEW s, Samsung_Kept(s), NEW mode PROVE Samsung_Kept(Samsung_setMode(s, mode))
BY DEF Samsung_Kept, Has, Samsung_fields, Samsung_setMode, kSamsungAcFanAuto2, kSamsungAcFanAuto

LEMMA SamsungSetPower ==
  ASSUME NEW s, Samsung_Kept(s), NEW on PROVE Samsung_Kept(Samsung_setPower(s, on))
BY DEF Samsung_Kept, Has, Samsung_fields, Samsung_setPower

LEMMA SamsungQuietBits ==
  ASSUME NEW s, Samsung_Kept(s), NEW on \in Bit PROVE Samsung_Kept(Samsung_quietBits(s, on))
BY DEF Samsung_Kept, Has, Samsung_fields, Samsung_quietBits, Bit

LEMMA SamsungSetparam ==
  ASSUME NEW s, NEW r, Samsung_Kept(s) PROVE Samsung_Kept(Samsung_setparam(s, r))
<1>1. ASSUME NEW t, Samsung_Kept(t), NEW temp PROVE Samsung_Kept(Samsung_setTemp(t, temp))
  BY <1>1 DEF Samsung_Kept, Has, Samsung_fields, Samsung_setTemp
<1>2. QED
  BY <1>1, SamsungSetPower, SamsungSetMode, SamsungSetFan, ZenonT(30) DEF Samsung_setparam

LEMMA SamsungSetPowerful ==
  ASSUME NEW s, Samsung_Kept(s), NEW on PROVE Samsung_Kept(Samsung_setPowerful(s, on))
<1>1. \A v, w : Samsung_Kept([s EXCEPT !.Powerful10 = v, !.Powerful8 = w])
  BY DEF Samsung_Kept, Has, Samsung_fields
<1>2. 0 \in Bit
  BY DEF Bit
<1>3. QED
  BY <1>1, <1>2, SamsungSetFan, SamsungQuietBits, ZenonT(30) DEF Samsung_setPowerful

LEMMA SamsungOptions ==
  ASSUME NEW s, Samsung_Kept(s) PROVE \A t \in Samsung_options(s) : Samsung_Kept(t)
<1>1. \A t \in Toggles(s, {"Beep", "Display", "Ion"}) : Samsung_Kept(t)
  BY TogglesKeeps DEF Samsung_Kept, Has, Samsung_fields
<1>2. /\ \A v : Samsung_Kept([s EXCEPT !.Clean10 = v, !.Clean11 = v])
      /\ \A v : Samsung_Kept([s EXCEPT !.Powerful10 = v])
  BY DEF Samsung_Kept, Has, Samsung_fields
<1>3. ASSUME NEW t, Samsung_Kept(t), NEW on PROVE Samsung_Kept(Samsung_setSwing(t, on))
  BY <1>3 DEF Samsung_Kept, Has, Samsung_fields, Samsung_setSwing
<1>4. 0 \in Bit /\ 1 \in Bit
  BY DEF Bit
<1>5. \A on : Samsung_Kept(Samsung_setQuiet(s, on))
  BY <1>4, SamsungSetFan, SamsungQuietBits, SamsungSetPowerful, ZenonT(30) DEF Samsung_setQuiet
<1>6. \A on : Samsung_Kept(Samsung_setBreeze(s, on))
  BY <1>2, <1>3, SamsungSetFan, ZenonT(30) DEF Samsung_setBreeze
<1>7. QED
  BY <1>1, <1>2, <1>3, <1>5, <1>6, SamsungSetFan, SamsungSetPower, SamsungSetPowerful, ZenonT(30)
     DEF Samsung_options

LEMMA SamsungSent == ASSUME NEW s, Samsung_Kept(s) PROVE Samsung_Kept(Samsung_sent(s))
BY DEF Samsung_Kept, Has, Samsung_fields, Samsung_sent

----------------------------------------------------------------------------
(* Ir_Whirlpool: every setter but the one of Super takes it back, or       *)
(* leaves the mode and the speed it needs.                                 *)

Whirlpool_fields == {"Super", "Fan", "Mode"}
Whirlpool_Kept(s) ==
  /\ Has(s, Whirlpool_fields)
  /\ s.Super = 1 => s.Fan = kWhirlpoolAcFanHigh
  /\ s.Super = 1 => s.Mode \in {kWhirlpoolAcHeat, kWhirlpoolAcCool}
Whirlpool_Calm(s) == Has(s, Whirlpool_fields) /\ s.Super = 0

LEMMA WhirlpoolCalm == ASSUME NEW s, Whirlpool_Calm(s) PROVE Whirlpool_Kept(s)
BY DEF Whirlpool_Kept, Whirlpool_Calm

LEMMA WhirlpoolStoreTemp ==
  ASSUME NEW s, NEW temp
  PROVE  /\ Whirlpool_Kept(s) => Whirlpool_Kept(Whirlpool_storeTemp(s, temp))
         /\ Whirlpool_Calm(s) => Whirlpool_Calm(Whirlpool_storeTemp(s, temp))
         /\ Has(s, Whirlpool_fields) => /\ Has(Whirlpool_storeTemp(s, temp), Whirlpool_fields)
                                        /\ Whirlpool_storeTemp(s, temp).Mode = s.Mode
                                        /\ Whirlpool_storeTemp(s, temp).Fan = s.Fan
BY DEF Whirlpool_Kept, Whirlpool_Calm, Has, Whirlpool_fields, Whirlpool_storeTemp

LEMMA WhirlpoolReset == Whirlpool_Kept(Whirlpool_stateReset)
<1> DEFINE zero == [f \in DOMAIN Whirlpool_bits |-> 0]
<1>1. Has(Whirlpool_bits, Whirlpool_fields)
  BY DEF Has, Whirlpool_fields, Whirlpool_bits
<1>2. Whirlpool_Calm(zero)
  BY <1>1 DEF Whirlpool_Calm, Has, Whirlpool_fields
<1> HIDE DEF zero
<1>3. ASSUME NEW s, Whirlpool_Kept(s), NEW v PROVE Whirlpool_Kept([s EXCEPT !._desiredtemp = v])
  BY <1>3 DEF Whirlpool_Kept, Has, Whirlpool_fields
<1>4. QED
  BY <1>2, <1>3, WhirlpoolCalm, WhirlpoolStoreTemp, ZenonT(30)
     DEF Whirlpool_stateReset, Whirlpool_keepTemp, zero

LEMMA WhirlpoolSetTemp ==
  ASSUME NEW s, Has(s, Whirlpool_fields), NEW temp
  PROVE  /\ Whirlpool_Calm(Whirlpool_setTemp(s, temp))
         /\ Whirlpool_setTemp(s, temp).Mode = s.Mode
         /\ Whirlpool_setTemp(s, temp).Fan = s.Fan
<1>1. LET t == Whirlpool_storeTemp(s, temp)
      IN  Has(t, Whirlpool_fields) /\ t.Mode = s.Mode /\ t.Fan = s.Fan
  BY WhirlpoolStoreTemp
<1>2. QED
  BY <1>1 DEF Whirlpool_Calm, Has, Whirlpool_fields, Whirlpool_setTemp, Whirlpool_keepTemp

LEMMA WhirlpoolSetFan ==
  ASSUME NEW s, NEW speed
  PROVE  /\ Whirlpool_Kept(s) => Whirlpool_Kept(Whirlpool_setFan(s, speed))
         /\ Whirlpool_Calm(s) => Whirlpool_Calm(Whirlpool_setFan(s, speed))
BY DEF Whirlpool_Kept, Whirlpool_Calm, Has, Whirlpool_fields, Whirlpool_setFan

LEMMA WhirlpoolSetSleep ==
  ASSUME NEW s, NEW on
  PROVE  /\ Whirlpool_Kept(s) => Whirlpool_Kept(Whirlpool_setSleep(s, on))
         /\ Whirlpool_Calm(s) => Whirlpool_Calm(Whirlpool_setSleep(s, on))
<1>1. ASSUME NEW t, NEW v, NEW w
      PROVE  /\ Whirlpool_Kept(t) => /\ Whirlpool_Kept([t EXCEPT !.Sleep = v])
                                     /\ Whirlpool_Kept([t EXCEPT !.Command = w])
             /\ Whirlpool_Calm(t) => /\ Whirlpool_Calm([t EXCEPT !.Sleep = v])
                                     /\ Whirlpool_Calm([t EXCEPT !.Command = w])
  BY DEF Whirlpool_Kept, Whirlpool_Calm, Has, Whirlpool_fields
<1>2. QED
  BY <1>1, WhirlpoolSetFan, ZenonT(30) DEF Whirlpool_setSleep

LEMMA WhirlpoolSetMode ==
  ASSUME NEW s, Has(s, Whirlpool_fields), NEW mode
  PROVE  Whirlpool_Calm(Whirlpool_setMode(s, mode))
<1> DEFINE plain == [s EXCEPT !.Super = 0, !.Command = kWhirlpoolAcCommandSuper]
<1>1. Whirlpool_Calm(plain)
  BY DEF Whirlpool_Calm, Has, Whirlpool_fields
<1> HIDE DEF plain
<1>2. ASSUME NEW t, Whirlpool_Calm(t), NEW v, NEW w
      PROVE  /\ Whirlpool_Calm([t EXCEPT !.Command = w])
             /\ Whirlpool_Calm([t EXCEPT !.Mode = v, !.Command = w])
  BY <1>2 DEF Whirlpool_Calm, Has, Whirlpool_fields
<1>3. QED
  BY <1>1, <1>2, WhirlpoolSetFan, WhirlpoolStoreTemp, WhirlpoolSetSleep, ZenonT(30)
     DEF Whirlpool_setMode, plain

LEMMA WhirlpoolCool ==
  ASSUME NEW s, Has(s, Whirlpool_fields)
  PROVE  /\ Has(Whirlpool_setMode(s, kWhirlpoolAcCool), Whirlpool_fields)
         /\ Whirlpool_setMode(s, kWhirlpoolAcCool).Mode = kWhirlpoolAcCool
         /\ Whirlpool_setMode(s, kWhirlpoolAcCool).Fan = s.Fan
<1>1. Whirlpool_setMode(s, kWhirlpoolAcCool)
        = [[s EXCEPT !.Super = 0, !.Command = kWhirlpoolAcCommandSuper]
             EXCEPT !.Mode = kWhirlpoolAcCool, !.Command = kWhirlpoolAcCommandMode]
  BY DEF Whirlpool_setMode, kWhirlpoolAcAuto, kWhirlpoolAcCool, kWhirlpoolAcFan
<1>2. QED
  BY <1>1 DEF Has, Whirlpool_fields

\* setSuper goes to the mode and the speed that Super needs before it stores the bit.
LEMMA WhirlpoolSetSuper ==
  ASSUME NEW s, Whirlpool_Kept(s), NEW on \in Bit PROVE Whirlpool_Kept(Whirlpool_setSuper(s, on))
<1> DEFINE blown == Whirlpool_setFan(s, kWhirlpoolAcFanHigh)
<1>1. Has(blown, Whirlpool_fields) /\ blown.Mode = s.Mode /\ blown.Fan = kWhirlpoolAcFanHigh
  BY DEF Whirlpool_Kept, Has, Whirlpool_fields, Whirlpool_setFan, kWhirlpoolAcFanHigh
<1> HIDE DEF blown
<1> DEFINE warm(temp) == Whirlpool_setTemp(blown, temp)
           cool(temp) == Whirlpool_setMode(warm(temp), kWhirlpoolAcCool)
<1>2. \A temp : /\ Has(warm(temp), Whirlpool_fields) /\ warm(temp).Mode = s.Mode
                /\ warm(temp).Fan = kWhirlpoolAcFanHigh
  BY <1>1, WhirlpoolSetTemp DEF Whirlpool_Calm
<1> HIDE DEF warm
<1>3. \A temp : /\ Has(cool(temp), Whirlpool_fields) /\ cool(temp).Mode = kWhirlpoolAcCool
                /\ cool(temp).Fan = kWhirlpoolAcFanHigh
  BY <1>2, WhirlpoolCool
<1> HIDE DEF cool
<1> DEFINE moved == IF s.Mode = kWhirlpoolAcHeat
                    THEN warm(kWhirlpoolAcMaxTemp + Whirlpool_getTempOffset(s))
                    ELSE cool(kWhirlpoolAcMinTemp + Whirlpool_getTempOffset(s))
<1>4. Whirlpool_setSuper(s, on) = [(IF on = 1 THEN moved ELSE s)
                                     EXCEPT !.Super = on, !.Command = kWhirlpoolAcCommandSuper]
  BY ZenonT(30) DEF Whirlpool_setSuper, blown, warm, cool
<1>5. /\ Has(moved, Whirlpool_fields) /\ moved.Fan = kWhirlpoolAcFanHigh
      /\ moved.Mode \in {kWhirlpoolAcHeat, kWhirlpoolAcCool}
  BY <1>2, <1>3
<1> HIDE DEF moved
<1>6. QED
  BY <1>4, <1>5 DEF Whirlpool_Kept, Has, Whirlpool_fields

LEMMA WhirlpoolSetparam ==
  ASSUME NEW s, NEW r, Whirlpool_Kept(s) PROVE Whirlpool_Kept(Whirlpool_setparam(s, r))
<1>1. Has(Whirlpool_setPowerToggle(s, Truth(r.power)), Whirlpool_fields)
  BY DEF Whirlpool_Kept, Has, Whirlpool_fields, Whirlpool_setPowerToggle
<1>2. ASSUME NEW t, Whirlpool_Calm(t) PROVE Has(t, Whirlpool_fields)
  BY <1>2 DEF Whirlpool_Calm
<1>3. QED
  BY <1>1, <1>2, WhirlpoolCalm, WhirlpoolSetMode, WhirlpoolSetFan, WhirlpoolSetTemp, ZenonT(30)
     DEF Whirlpool_setparam

LEMMA WhirlpoolOptions ==
  ASSUME NEW s, Whirlpool_Kept(s) PROVE \A t \in Whirlpool_options(s) : Whirlpool_Kept(t)
<1>1. /\ \A on : Whirlpool_Kept([s EXCEPT !.Swing1 = on, !.Swing2 = on,
                                          !.Command = kWhirlpoolAcCommandSwing])
      /\ \A on : Whirlpool_Kept([s EXCEPT !.OnEnabled = on, !.Command = kWhirlpoolAcCommandOnTimer])
      /\ \A on : Whirlpool_Kept([s EXCEPT !.OffEnabled = on,
                                          !.Command = kWhirlpoolAcCommandOffTimer])
      /\ \A t : Whirlpool_Kept([s EXCEPT !.ClockHour = Hour(t), !.ClockMinute = t % 60])
      /\ \A t : Whirlpool_Kept([s EXCEPT !.OnHour = Hour(t), !.OnMinute = t % 60])
      /\ \A t : Whirlpool_Kept([s EXCEPT !.OffHour = Hour(t), !.OffMinute = t % 60])
      /\ \A alt : Whirlpool_Kept([s EXCEPT !.AltTemp = alt])
  BY DEF Whirlpool_Kept, Has, Whirlpool_fields
<1>2. \A alt : Whirlpool_Kept(Whirlpool_setModel(s, alt))
  BY <1>1, WhirlpoolStoreTemp, ZenonT(30) DEF Whirlpool_setModel
<1>3. \A t \in Toggles(s, {"LightOff"}) : Whirlpool_Kept(t)
  BY TogglesKeeps DEF Whirlpool_Kept, Has, Whirlpool_fields
<1>4. \A t \in Whirlpool_timers(s) : Whirlpool_Kept(t)
  BY <1>1, ZenonT(30) DEF Whirlpool_timers
<1>5. \A on \in Bit : /\ Whirlpool_Kept(Whirlpool_setSleep(s, on))
                     /\ Whirlpool_Kept(Whirlpool_setSuper(s, on))
  BY WhirlpoolSetSleep, WhirlpoolSetSuper
<1>6. QED
  BY <1>1, <1>2, <1>3, <1>4, <1>5, ZenonT(30) DEF Whirlpool_options

----------------------------------------------------------------------------
(* All the classes together.                                               *)

Kept(p, s) ==
  /\ p = "ESP" => ESP_Kept(s)
  /\ p = "Daikin2" => Daikin2_Kept(s)
  /\ p = "Daikin64" => Daikin64_Kept(s)
  /\ p = "Daikin128" => Daikin128_Kept(s)
  /\ p = "Daikin152" => Daikin152_Kept(s)
  /\ p = "Daikin176" => Daikin176_Kept(s)
  /\ p = "Hitachi1" => Hitachi1_Kept(s)
  /\ p = "Hitachi424" => Hitachi424_Kept(s)
  /\ p = "Panasonic" => Panasonic_Kept(s)
  /\ p = "Toshiba" => Toshiba_Kept(s)
  /\ p = "Gree" => Gree_Kept(s)
  /\ p = "Midea" => Midea_Kept(s)
  /\ p = "Neoclima" => Neoclima_Kept(s)
  /\ p = "Airwell" => Airwell_Kept(s)
  /\ p = "Amcor" => Amcor_Kept(s)
  /\ p = "Samsung" => Samsung_Kept(s)
  /\ p = "Whirlpool" => Whirlpool_Kept(s)

LEMMA KeptAgrees == ASSUME NEW p, NEW s, Kept(p, s) PROVE Agreeing(p, s)
<1>1. CASE p = "ESP"
  BY <1>1 DEF Kept, ESP_Kept, Agreeing
<1>2. CASE p = "Daikin2"
  BY <1>2 DEF Kept, Daikin2_Kept, Agreeing
<1>3. CASE p = "Daikin64"
  BY <1>3 DEF Kept, Daikin64_Kept, Agreeing
<1>4. CASE p = "Daikin128"
  BY <1>4 DEF Kept, Daikin128_Kept, Agreeing
<1>5. CASE p = "Daikin152"
  BY <1>5 DEF Kept, Daikin152_Kept, Agreeing
<1>6. CASE p = "Daikin176"
  BY <1>6 DEF Kept, Daikin176_Kept, Agreeing
<1>7. CASE p = "Hitachi1"
  BY <1>7 DEF Kept, Hitachi1_Kept, Agreeing
<1>8. CASE p = "Hitachi424"
  BY <1>8 DEF Kept, Hitachi424_Kept, Agreeing
<1>9. CASE p = "Panasonic"
  BY <1>9 DEF Kept, Panasonic_Kept, Agreeing
<1>10. CASE p = "Toshiba"
  BY <1>10 DEF Kept, Toshiba_Kept, Agreeing
<1>11. CASE p = "Gree"
  BY <1>11 DEF Kept, Gree_Kept, Agreeing
<1>12. CASE p = "Midea"
  BY <1>12 DEF Kept, Midea_Kept, Agreeing
<1>13. CASE p = "Neoclima"
  BY <1>13 DEF Kept, Neoclima_Kept, Agreeing
<1>14. CASE p = "Airwell"
  BY <1>14 DEF Kept, Airwell_Kept, Agreeing
<1>15. CASE p = "Amcor"
  BY <1>15 DEF Kept, Amcor_Kept, Agreeing
<1>16. CASE p = "Samsung"
  BY <1>16 DEF Kept, Samsung_Kept, Agreeing
<1>17. CASE p = "Whirlpool"
  BY <1>17 DEF Kept, Whirlpool_Kept, Agreeing
<1>18. CASE p \notin {"ESP", "Daikin2", "Daikin64", "Daikin128", "Daikin152", "Daikin176",
                      "Hitachi1", "Hitachi424", "Panasonic", "Toshiba", "Gree", "Midea",
                      "Neoclima", "Airwell", "Amcor", "Samsung", "Whirlpool"}
  BY <1>18 DEF Agreeing
<1>19. QED
  BY <1>1, <1>2, <1>3, <1>4, <1>5, <1>6, <1>7, <1>8, <1>9, <1>10, <1>11, <1>12,
     <1>13, <1>14, <1>15, <1>16, <1>17, <1>18

LEMMA FreshKept == ASSUME NEW p, NEW s \in Fresh[p] PROVE Kept(p, s)
<1>1. p = "ESP" => ESP_Kept(s)
  BY ESPReset DEF Fresh
<1>2. p = "Daikin2" => Daikin2_Kept(s)
  BY Daikin2Reset DEF Fresh
<1>3. p = "Daikin64" => Daikin64_Kept(s)
  BY Daikin64Reset DEF Fresh
<1>4. p = "Daikin128" => Daikin128_Kept(s)
  BY Daikin128Reset DEF Fresh
<1>5. p = "Daikin152" => Daikin152_Kept(s)
  BY Daikin152Reset DEF Fresh
<1>6. p = "Daikin176" => Daikin176_Kept(s)
  BY Daikin176Reset DEF Fresh
<1>7. p = "Hitachi1" => Hitachi1_Kept(s)
  BY Hitachi1Reset DEF Fresh
<1>8. p = "Hitachi424" => Hitachi424_Kept(s)
  BY Hitachi424Reset DEF Fresh
<1>9. p = "Panasonic" => Panasonic_Kept(s)
  BY PanasonicReset DEF Fresh
<1>10. p = "Toshiba" => Toshiba_Kept(s)
  BY ToshibaReset DEF Fresh
<1>11. p = "Gree" => Gree_Kept(s)
  BY GreeReset DEF Fresh
<1>12. p = "Midea" => Midea_Kept(s)
  BY MideaReset DEF Fresh
<1>13. p = "Neoclima" => Neoclima_Kept(s)
  BY NeoclimaReset DEF Fresh
<1>14. p = "Airwell" => Airwell_Kept(s)
  BY AirwellReset DEF Fresh
<1>15. p = "Amcor" => Amcor_Kept(s)
  BY AmcorReset DEF Fresh
<1>16. p = "Samsung" => Samsung_Kept(s)
  BY SamsungReset DEF Fresh
<1>17. p = "Whirlpool" => Whirlpool_Kept(s)
  BY WhirlpoolReset DEF Fresh
<1>18. QED
  BY <1>1, <1>2, <1>3, <1>4, <1>5, <1>6, <1>7, <1>8, <1>9, <1>10, <1>11, <1>12,
     <1>13, <1>14, <1>15, <1>16, <1>17 DEF Kept

LEMMA SetParamKeeps ==
  ASSUME NEW p, NEW s, NEW r, Kept(p, s), r.temp \in Nat
  PROVE  Kept(p, SetParam(p, s, r))
<1>1. p = "ESP" => ESP_Kept(SetParam(p, s, r))
  BY ESPSetparam DEF Kept, SetParam
<1>2. p = "Daikin2" => Daikin2_Kept(SetParam(p, s, r))
  BY Daikin2Setparam DEF Kept, SetParam
<1>3. p = "Daikin64" => Daikin64_Kept(SetParam(p, s, r))
  BY Daikin64Setparam DEF Kept, SetParam
<1>4. p = "Daikin128" => Daikin128_Kept(SetParam(p, s, r))
  BY Daikin128Setparam DEF Kept, SetParam
<1>5. p = "Daikin152" => Daikin152_Kept(SetParam(p, s, r))
  BY Daikin152Setparam DEF Kept, SetParam
<1>6. p = "Daikin176" => Daikin176_Kept(SetParam(p, s, r))
  BY Daikin176Setparam DEF Kept, SetParam
<1>7. p = "Hitachi1" => Hitachi1_Kept(SetParam(p, s, r))
  BY Hitachi1Setparam DEF Kept, SetParam
<1>8. p = "Hitachi424" => Hitachi424_Kept(SetParam(p, s, r))
  BY DEF Kept, SetParam
<1>9. p = "Panasonic" => Panasonic_Kept(SetParam(p, s, r))
  BY PanasonicSetparam DEF Kept, SetParam
<1>10. p = "Toshiba" => Toshiba_Kept(SetParam(p, s, r))
  BY ToshibaSetparam DEF Kept, SetParam
<1>11. p = "Gree" => Gree_Kept(SetParam(p, s, r))
  BY GreeSetparam DEF Kept, SetParam
<1>12. p = "Midea" => Midea_Kept(SetParam(p, s, r))
  BY MideaSetparam DEF Kept, SetParam
<1>13. p = "Neoclima" => Neoclima_Kept(SetParam(p, s, r))
  BY NeoclimaSetparam DEF Kept, SetParam
<1>14. p = "Airwell" => Airwell_Kept(SetParam(p, s, r))
  BY AirwellSetparam DEF Kept, SetParam
<1>15. p = "Amcor" => Amcor_Kept(SetParam(p, s, r))
  BY AmcorSetparam DEF Kept, SetParam
<1>16. p = "Samsung" => Samsung_Kept(SetParam(p, s, r))
  BY SamsungSetparam DEF Kept, SetParam
<1>17. p = "Whirlpool" => Whirlpool_Kept(SetParam(p, s, r))
  BY WhirlpoolSetparam DEF Kept, SetParam
<1>18. QED
  BY <1>1, <1>2, <1>3, <1>4, <1>5, <1>6, <1>7, <1>8, <1>9, <1>10, <1>11, <1>12,
     <1>13, <1>14, <1>15, <1>16, <1>17 DEF Kept

LEMMA OptionsKeep ==
  ASSUME NEW p, NEW s, Kept(p, s), NEW t \in Options(p, s) PROVE Kept(p, t)
<1>1. p = "ESP" => ESP_Kept(t)
  BY ESPOptions DEF Kept, Options
<1>2. p = "Daikin2" => Daikin2_Kept(t)
  BY Daikin2Options DEF Kept, Options
<1>3. p = "Daikin64" => Daikin64_Kept(t)
  BY Daikin64Options DEF Kept, Options
<1>4. p = "Daikin128" => Daikin128_Kept(t)
  BY Daikin128Options DEF Kept, Options
<1>5. p = "Daikin152" => Daikin152_Kept(t)
  BY Daikin152Options DEF Kept, Options
<1>6. p = "Daikin176" => Daikin176_Kept(t)
  BY Daikin176Options DEF Kept, Options
<1>7. p = "Hitachi1" => Hitachi1_Kept(t)
  BY Hitachi1Options DEF Kept, Options
<1>8. p = "Hitachi424" => Hitachi424_Kept(t)
  BY Hitachi424Options DEF Kept, Options
<1>9. p = "Panasonic" => Panasonic_Kept(t)
  BY PanasonicOptions DEF Kept, Options
<1>10. p = "Toshiba" => Toshiba_Kept(t)
  BY ToshibaOptions DEF Kept, Options
<1>11. p = "Gree" => Gree_Kept(t)
  BY GreeOptions DEF Kept, Options
<1>12. p = "Midea" => Midea_Kept(t)
  BY MideaOptions DEF Kept, Options
<1>13. p = "Neoclima" => Neoclima_Kept(t)
  BY NeoclimaOptions DEF Kept, Options
<1>14. p = "Airwell" => Airwell_Kept(t)
  BY AirwellOptions DEF Kept, Options
<1>15. p = "Amcor" => Amcor_Kept(t)
  BY AmcorOptions DEF Kept, Options
<1>16. p = "Samsung" => Samsung_Kept(t)
  BY SamsungOptions DEF Kept, Options
<1>17. p = "Whirlpool" => Whirlpool_Kept(t)
  BY WhirlpoolOptions DEF Kept, Options
<1>18. QED
  BY <1>1, <1>2, <1>3, <1>4, <1>5, <1>6, <1>7, <1>8, <1>9, <1>10, <1>11, <1>12,
     <1>13, <1>14, <1>15, <1>16, <1>17 DEF Kept

LEMMA SentKeeps == ASSUME NEW p, NEW s, Kept(p, s) PROVE Kept(p, Sent(p, s))
<1>1. p = "ESP" => ESP_Kept(Sent(p, s))
  BY DEF Kept, Sent, OnAir
<1>2. p = "Daikin2" => Daikin2_Kept(Sent(p, s))
  BY DEF Kept, Sent, OnAir
<1>3. p = "Daikin64" => Daikin64_Kept(Sent(p, s))
  BY DEF Kept, Sent, OnAir
<1>4. p = "Daikin128" => Daikin128_Kept(Sent(p, s))
  BY DEF Kept, Sent, OnAir
<1>5. p = "Daikin152" => Daikin152_Kept(Sent(p, s))
  BY DEF Kept, Sent, OnAir
<1>6. p = "Daikin176" => Daikin176_Kept(Sent(p, s))
  BY DEF Kept, Sent, OnAir
<1>7. p = "Hitachi1" => Hitachi1_Kept(Sent(p, s))
  BY Hitachi1Sent DEF Kept, Sent, OnAir
<1>8. p = "Hitachi424" => Hitachi424_Kept(Sent(p, s))
  BY DEF Kept, Sent, OnAir
<1>9. p = "Panasonic" => Panasonic_Kept(Sent(p, s))
  BY DEF Kept, Sent, OnAir
<1>10. p = "Toshiba" => Toshiba_Kept(Sent(p, s))
  BY ToshibaSent DEF Kept, Sent, OnAir
<1>11. p = "Gree" => Gree_Kept(Sent(p, s))
  BY GreeSent DEF Kept, Sent, OnAir
<1>12. p = "Midea" => Midea_Kept(Sent(p, s))
  BY MideaSent DEF Kept, Sent, OnAir
<1>13. p = "Neoclima" => Neoclima_Kept(Sent(p, s))
  BY DEF Kept, Sent, OnAir
<1>14. p = "Airwell" => Airwell_Kept(Sent(p, s))
  BY DEF Kept, Sent, OnAir
<1>15. p = "Amcor" => Amcor_Kept(Sent(p, s))
  BY DEF Kept, Sent, OnAir
<1>16. p = "Samsung" => Samsung_Kept(Sent(p, s))
  BY SamsungSent DEF Kept, Sent, OnAir
<1>17. p = "Whirlpool" => Whirlpool_Kept(Sent(p, s))
  BY DEF Kept, Sent, OnAir
<1>18. QED
  BY <1>1, <1>2, <1>3, <1>4, <1>5, <1>6, <1>7, <1>8, <1>9, <1>10, <1>11, <1>12,
     <1>13, <1>14, <1>15, <1>16, <1>17 DEF Kept

----------------------------------------------------------------------------
(* The machine: an object is kept from its constructor to its destructor.  *)

\* The inductive invariant of SettingsAgree.
KeptInv ==
  /\ irAcValue \in [power : Byte, mode : Byte, fan : Byte, temp : Byte]
  /\ stage \in {"idle", "parsed"} => protocol = "none"
  /\ protocol \in DOMAIN Bits => Kept(protocol, remote)

LEMMA NoClass == "none" \notin DOMAIN Bits /\ (Constants \union Silent) \cap DOMAIN Bits = {}
BY DEF Bits, Constants, Silent

LEMMA KeptInit == Init => KeptInv
BY NoClass DEF Init, KeptInv, Byte

LEMMA KeptNext == KeptInv /\ [Next]_vars => KeptInv'
<1> SUFFICES ASSUME KeptInv, [Next]_vars PROVE KeptInv'
  OBVIOUS
<1>1. CASE json_parser_command_contrl
  BY <1>1, NoClass, RequestsAssumption DEF json_parser_command_contrl, KeptInv
<1>2. CASE Construct
  <2>1. PICK p \in DOMAIN Bits : \E s \in Fresh[p] : protocol' = p /\ remote' = s
    BY <1>2 DEF Construct
  <2>2. Kept(protocol', remote')
    BY <2>1, FreshKept
  <2>3. QED
    BY <1>2, <2>2 DEF Construct, KeptInv
<1>3. CASE setparam
  <2>1. CASE protocol \in DOMAIN Bits
    <3>1. Kept(protocol, remote) /\ irAcValue.temp \in Nat
      BY <2>1 DEF KeptInv, Byte
    <3>2. Kept(protocol, SetParam(protocol, remote, irAcValue))
      BY <3>1, SetParamKeeps
    <3>3. QED
      BY <1>3, <3>2 DEF setparam, KeptInv
  <2>2. CASE protocol \notin DOMAIN Bits
    BY <1>3, <2>2 DEF setparam, KeptInv
  <2>3. QED
    BY <2>1, <2>2
<1>4. CASE Option
  <2>1. CASE protocol \in DOMAIN Bits
    BY <1>4, <2>1, OptionsKeep DEF Option, KeptInv
  <2>2. CASE protocol \notin DOMAIN Bits
    BY <1>4, <2>2 DEF Option, KeptInv
  <2>3. QED
    BY <2>1, <2>2
<1>5. CASE send
  <2>1. CASE protocol \in DOMAIN Bits
    BY <1>5, <2>1, SentKeeps DEF send, KeptInv
  <2>2. CASE protocol \notin DOMAIN Bits
    BY <1>5, <2>2 DEF send, KeptInv
  <2>3. QED
    BY <2>1, <2>2
<1>6. CASE SendConstant
  BY <1>6, NoClass DEF SendConstant, KeptInv
<1>7. CASE Destroy
  BY <1>7, NoClass DEF Destroy, KeptInv
<1>8. CASE UNCHANGED vars
  BY <1>8 DEF vars, KeptInv
<1>9. QED
  BY <1>1, <1>2, <1>3, <1>4, <1>5, <1>6, <1>7, <1>8 DEF Next

LEMMA KeptAlways == Spec => []KeptInv
BY KeptInit, KeptNext, PTL DEF Spec

\* The settings of one remote agree after any number of setters in any order, whatever a
\* message asks for: whichever setter an object is called by next (setQuiet and setPowerful
\* of the Daikin classes, setModel of Panasonic, setSuper of Whirlpool), it takes back or
\* brings about what its argument excludes or implies.  Nothing is said of Daikin216.
THEOREM RemoteSettingsAgree == Spec => []SettingsAgree
<1>1. KeptInv => SettingsAgree
  BY KeptAgrees DEF KeptInv, SettingsAgree
<1>2. QED
  BY <1>1, KeptAlways, PTL

----------------------------------------------------------------------------
(* The frames.                                                             *)

\* What the frames of most classes are made of.
LEMMA WholeOne ==
  ASSUME NEW b \in Nat, NEW sums,
         \A c \in sums : c.from <= c.to /\ {c.to, c.at} \subseteq 0 .. b
  PROVE  Whole(<<Section(0, b)>>, sums)
BY DEF Whole, Section

LEMMA WholeTwo ==
  ASSUME NEW a \in Nat, NEW b \in Nat, a < b, NEW sums,
         \A c \in sums : c.from <= c.to /\ {c.to, c.at} \subseteq 0 .. b
  PROVE  Whole(<<Section(0, a), Section(a + 1, b)>>, sums)
BY DEF Whole, Section

LEMMA WholeThree ==
  ASSUME NEW a \in Nat, NEW b \in Nat, NEW d \in Nat, a < b, b < d, NEW sums,
         \A c \in sums : c.from <= c.to /\ {c.to, c.at} \subseteq 0 .. d
  PROVE  Whole(<<Section(0, a), Section(a + 1, b), Section(b + 1, d)>>, sums)
BY DEF Whole, Section

\* What send cuts a state into and what checksum sums of it fit, in every class.
LEMMA ClassWhole ==
  ASSUME NEW p \in DOMAIN Bits, NEW s, Kept(p, s)
  PROVE  Whole(Sections(p, s), Sums(p, s))
<1>1. CASE p = "ESP"
  <2>1. Whole(ESP_send, ESP_checksum)
    BY WholeThree DEF ESP_send, ESP_checksum, Sum
  <2>2. QED
    BY <1>1, <2>1 DEF Sections, Sums, FixedSections, FixedSums
<1>2. CASE p = "Daikin2"
  <2>1. Whole(Daikin2_send, Daikin2_checksum)
    BY WholeTwo DEF Daikin2_send, Daikin2_checksum, Sum
  <2>2. QED
    BY <1>2, <2>1 DEF Sections, Sums, FixedSections, FixedSums
<1>3. CASE p = "Daikin64"
  <2>1. Whole(Daikin64_send, Daikin64_checksum)
    BY WholeOne DEF Daikin64_send, Daikin64_checksum, Sum
  <2>2. QED
    BY <1>3, <2>1 DEF Sections, Sums, FixedSections, FixedSums
<1>4. CASE p = "Daikin128"
  <2>1. Whole(Daikin128_send, Daikin128_checksum)
    BY WholeTwo DEF Daikin128_send, Daikin128_checksum, Sum
  <2>2. QED
    BY <1>4, <2>1 DEF Sections, Sums, FixedSections, FixedSums
<1>5. CASE p = "Daikin152"
  <2>1. Whole(Daikin152_send, Daikin152_checksum)
    BY WholeOne DEF Daikin152_send, Daikin152_checksum, Sum
  <2>2. QED
    BY <1>5, <2>1 DEF Sections, Sums, FixedSections, FixedSums
<1>6. CASE p = "Daikin160"
  <2>1. Whole(Daikin160_send, Daikin160_checksum)
    BY WholeTwo DEF Daikin160_send, Daikin160_checksum, Sum
  <2>2. QED
    BY <1>6, <2>1 DEF Sections, Sums, FixedSections, FixedSums
<1>7. CASE p = "Daikin176"
  <2>1. Whole(Daikin176_send, Daikin176_checksum)
    BY WholeTwo DEF Daikin176_send, Daikin176_checksum, Sum
  <2>2. QED
    BY <1>7, <2>1 DEF Sections, Sums, FixedSections, FixedSums
<1>8. CASE p = "Daikin216"
  <2>1. Whole(Daikin216_send, Daikin216_checksum)
    BY WholeTwo DEF Daikin216_send, Daikin216_checksum, Sum
  <2>2. QED
    BY <1>8, <2>1 DEF Sections, Sums, FixedSections, FixedSums
<1>9. CASE p = "Hitachi1"
  <2>1. Whole(Hitachi1_send, Hitachi1_checksum)
    BY WholeOne DEF Hitachi1_send, Hitachi1_checksum, Sum
  <2>2. QED
    BY <1>9, <2>1 DEF Sections, Sums, FixedSections, FixedSums
<1>10. CASE p = "MitsubishiAC"
  <2>1. Whole(MitsubishiAC_send, MitsubishiAC_checksum)
    BY WholeOne DEF MitsubishiAC_send, MitsubishiAC_checksum, Sum
  <2>2. QED
    BY <1>10, <2>1 DEF Sections, Sums, FixedSections, FixedSums
<1>11. CASE p = "Mitsubishi112"
  <2>1. Whole(Mitsubishi112_send, Mitsubishi112_checksum)
    BY WholeOne DEF Mitsubishi112_send, Mitsubishi112_checksum, Sum
  <2>2. QED
    BY <1>11, <2>1 DEF Sections, Sums, FixedSections, FixedSums
<1>12. CASE p = "Mitsubishi136"
  <2>1. Whole(Mitsubishi136_send, Mitsubishi136_checksum)
    BY WholeOne DEF Mitsubishi136_send, Mitsubishi136_checksum, Sum
  <2>2. QED
    BY <1>12, <2>1 DEF Sections, Sums, FixedSections, FixedSums
<1>13. CASE p = "Heavy88"
  <2>1. Whole(Heavy88_send, Heavy88_checksum)
    BY WholeOne DEF Heavy88_send, Heavy88_checksum, Sum
  <2>2. QED
    BY <1>13, <2>1 DEF Sections, Sums, FixedSections, FixedSums
<1>14. CASE p = "Heavy152"
  <2>1. Whole(Heavy152_send, Heavy152_checksum)
    BY WholeOne DEF Heavy152_send, Heavy152_checksum, Sum
  <2>2. QED
    BY <1>14, <2>1 DEF Sections, Sums, FixedSections, FixedSums
<1>15. CASE p = "Fujitsu"
  <2>1. Whole(Fujitsu_send(s), Fujitsu_built(s))
    BY WholeOne DEF Fujitsu_send, Fujitsu_built, Fujitsu_checksum, Fujitsu_length, Sum
  <2>2. QED
    BY <1>15, <2>1 DEF Sections, Sums
<1>16. CASE p = "Panasonic"
  <2>1. Whole(Panasonic_send, Panasonic_checksum)
    BY WholeTwo DEF Panasonic_send, Panasonic_checksum, Sum
  <2>2. QED
    BY <1>16, <2>1 DEF Sections, Sums, FixedSections, FixedSums
<1>17. CASE p = "Sharp"
  <2>1. Whole(Sharp_send, Sharp_checksum)
    BY WholeOne DEF Sharp_send, Sharp_checksum, Sum
  <2>2. QED
    BY <1>17, <2>1 DEF Sections, Sums, FixedSections, FixedSums
<1>18. CASE p = "Sanyo"
  <2>1. Whole(Sanyo_send, Sanyo_checksum)
    BY WholeOne DEF Sanyo_send, Sanyo_checksum, Sum
  <2>2. QED
    BY <1>18, <2>1 DEF Sections, Sums, FixedSections, FixedSums
<1>19. CASE p = "Toshiba"
  <2>1. s.length \in {3, 4}
    BY <1>19 DEF Kept, Toshiba_Kept
  <2>2. Whole(Toshiba_send(s), Toshiba_checksum(s))
    BY <2>1, WholeOne DEF Toshiba_send, Toshiba_checksum, kToshibaAcMinLength, Sum
  <2>3. QED
    BY <1>19, <2>2 DEF Sections, Sums
<1>20. CASE p = "Gree"
  <2>1. Whole(Gree_send, Gree_checksum)
    BY WholeTwo DEF Gree_send, Gree_checksum, Sum
  <2>2. QED
    BY <1>20, <2>1 DEF Sections, Sums, FixedSections, FixedSums
<1>21. CASE p = "Kelvinator"
  <2>1. Whole(Kelvinator_send, Kelvinator_checksum)
    BY DEF Whole, Section, Kelvinator_send, Kelvinator_checksum, Sum
  <2>2. QED
    BY <1>21, <2>1 DEF Sections, Sums, FixedSections, FixedSums
<1>22. CASE p = "Midea"
  <2>1. Whole(Midea_send, Midea_checksum)
    BY WholeOne DEF Midea_send, Midea_checksum, Sum
  <2>2. QED
    BY <1>22, <2>1 DEF Sections, Sums, FixedSections, FixedSums
<1>23. CASE p = "TCL"
  <2>1. Whole(TCL_send, TCL_checksum)
    BY WholeOne DEF TCL_send, TCL_checksum, Sum
  <2>2. QED
    BY <1>23, <2>1 DEF Sections, Sums, FixedSections, FixedSums
<1>24. CASE p = "Goodweather"
  <2>1. Whole(Goodweather_send, Goodweather_checksum)
    BY WholeOne DEF Goodweather_send, Goodweather_checksum, Sum
  <2>2. QED
    BY <1>24, <2>1 DEF Sections, Sums, FixedSections, FixedSums
<1>25. CASE p = "Neoclima"
  <2>1. Whole(Neoclima_send, Neoclima_checksum)
    BY WholeOne DEF Neoclima_send, Neoclima_checksum, Sum
  <2>2. QED
    BY <1>25, <2>1 DEF Sections, Sums, FixedSections, FixedSums
<1>26. CASE p = "Casper"
  <2>1. Whole(Casper_send, Casper_checksum)
    BY WholeOne DEF Casper_send, Casper_checksum, Sum
  <2>2. QED
    BY <1>26, <2>1 DEF Sections, Sums, FixedSections, FixedSums
<1>27. CASE p = "Argo"
  <2>1. Whole(Argo_send, Argo_checksum)
    BY WholeOne DEF Argo_send, Argo_checksum, Sum
  <2>2. QED
    BY <1>27, <2>1 DEF Sections, Sums, FixedSections, FixedSums
<1>28. CASE p = "Airwell"
  <2>1. Whole(Airwell_send, Airwell_checksum)
    BY WholeOne DEF Airwell_send, Airwell_checksum, Sum
  <2>2. QED
    BY <1>28, <2>1 DEF Sections, Sums, FixedSections, FixedSums
<1>29. CASE p = "Amcor"
  <2>1. Whole(Amcor_send, Amcor_checksum)
    BY WholeOne DEF Amcor_send, Amcor_checksum, Sum
  <2>2. QED
    BY <1>29, <2>1 DEF Sections, Sums, FixedSections, FixedSums
<1>30. CASE p = "LG"
  <2>1. Whole(LG_send, LG_checksum)
    BY WholeOne DEF LG_send, LG_checksum, Sum
  <2>2. QED
    BY <1>30, <2>1 DEF Sections, Sums, FixedSections, FixedSums
<1>31. CASE p = "Samsung"
  <2>1. Whole(<<Section(0, 6), Section(7, 13), Section(14, 20)>>, Samsung_checksum)
    BY WholeThree DEF Samsung_checksum, Sum
  <2>2. Whole(<<Section(0, 6), Section(7, 13)>>, Samsung_checksum)
    BY WholeTwo DEF Samsung_checksum, Sum
  <2>3. Whole(Samsung_send(s), Samsung_checksum)
    BY <2>1, <2>2, ZenonT(30) DEF Samsung_send
  <2>4. QED
    BY <1>31, <2>3 DEF Sections, Sums, FixedSums
<1>32. CASE p = "Whirlpool"
  <2>1. Whole(Whirlpool_send, Whirlpool_checksum)
    BY WholeThree DEF Whirlpool_send, Whirlpool_checksum, Sum
  <2>2. QED
    BY <1>32, <2>1 DEF Sections, Sums, FixedSections, FixedSums
<1>33. CASE p = "Teco"
  <2>1. Whole(Teco_send, Teco_checksum)
    BY WholeOne DEF Teco_send, Teco_checksum, Sum
  <2>2. QED
    BY <1>33, <2>1 DEF Sections, Sums, FixedSections, FixedSums
<1>34. CASE p = "Hitachi424"
  <2>1. Whole(Hitachi424_send, Hitachi424_checksum)
    BY WholeOne DEF Hitachi424_send, Hitachi424_checksum, Sum
  <2>2. QED
    BY <1>34, <2>1 DEF Sections, Sums, FixedSections, FixedSums
<1>35. QED
  BY <1>1, <1>2, <1>3, <1>4, <1>5, <1>6, <1>7, <1>8, <1>9, <1>10, <1>11, <1>12, <1>13,
     <1>14, <1>15, <1>16, <1>17, <1>18, <1>19, <1>20, <1>21, <1>22, <1>23, <1>24, <1>25,
     <1>26, <1>27, <1>28, <1>29, <1>30, <1>31, <1>32, <1>33, <1>34 DEF Bits

\* The inductive invariant of FramesWhole: an object stands on the stack while it is used.
FrameInv == KeptInv /\ (stage \in {"made", "set"} => protocol \in DOMAIN Bits) /\ FramesWhole

LEMMA FrameInit == Init => FrameInv
BY KeptInit DEF Init, FrameInv, FramesWhole

LEMMA FrameNext == FrameInv /\ [Next]_vars => FrameInv'
<1> SUFFICES ASSUME FrameInv, [Next]_vars PROVE FrameInv'
  OBVIOUS
<1>1. KeptInv'
  BY KeptNext DEF FrameInv
<1>2. CASE json_parser_command_contrl
  BY <1>1, <1>2 DEF json_parser_command_contrl, FrameInv, FramesWhole
<1>3. CASE Construct
  BY <1>1, <1>3 DEF Construct, FrameInv, FramesWhole
<1>4. CASE setparam
  BY <1>1, <1>4 DEF setparam, FrameInv, FramesWhole
<1>5. CASE Option
  BY <1>1, <1>5 DEF Option, FrameInv, FramesWhole
<1>6. CASE send
  <2>1. protocol \in DOMAIN Bits
    BY <1>6 DEF send, FrameInv
  <2>2. Kept(protocol, remote)
    BY <2>1 DEF FrameInv, KeptInv
  <2>3. QED
    BY <1>1, <1>6, <2>1, <2>2, ClassWhole DEF send, FrameInv, FramesWhole
<1>7. CASE SendConstant
  <2>1. ASSUME NEW b \in Nat PROVE Whole(<<Section(0, b)>>, {})
    BY WholeOne
  <2>2. Whole(<< >>, {})
    BY DEF Whole
  <2>3. PICK p : frame' = [NoFrame EXCEPT !.sections = CASE p = "HitachiAC2" -> <<Section(0, 52)>>
                                                        [] p = "PanasonicAC32" -> <<Section(0, 3)>>
                                                        [] OTHER -> << >>]
    BY <1>7 DEF SendConstant
  <2>4. Whole(frame'.sections, frame'.sums)
    BY <2>1, <2>2, <2>3 DEF NoFrame
  <2>5. QED
    BY <1>1, <1>7, <2>4 DEF SendConstant, FrameInv, FramesWhole
<1>8. CASE Destroy
  BY <1>1, <1>8 DEF Destroy, FrameInv, FramesWhole
<1>9. CASE UNCHANGED vars
  BY <1>1, <1>9 DEF vars, FrameInv, FramesWhole
<1>10. QED
  BY <1>2, <1>3, <1>4, <1>5, <1>6, <1>7, <1>8, <1>9 DEF Next

\* Every frame goes out whole: its sections follow one another from the first byte, and
\* each checksum is sent with the bytes it is taken over.  The classes whose length depends
\* on the state (Fujitsu, Toshiba, Samsung) decide on it the same way in send and in the
\* checksum, in every state their setters lead to.
THEOREM FramesGoOutWhole == Spec => []FramesWhole
<1>1. Spec => []FrameInv
  BY FrameInit, FrameNext, PTL DEF Spec
<1>2. FrameInv => FramesWhole
  BY DEF FrameInv
<1>3. QED
  BY <1>1, <1>2, PTL

----------------------------------------------------------------------------
(* The widths of the fields.                                               *)

\* What a field of n bits holds, and what a message asks for.
U(n) == 0 .. 2 ^ n - 1
Values == [power : Byte, mode : Byte, fan : Byte, temp : Byte]

LEMMA Widths ==
  /\ U(1) = 0 .. 1 /\ U(2) = 0 .. 3 /\ U(3) = 0 .. 7 /\ U(4) = 0 .. 15 /\ U(5) = 0 .. 31
  /\ U(6) = 0 .. 63 /\ U(7) = 0 .. 127 /\ U(8) = 0 .. 255 /\ U(11) = 0 .. 2047
  /\ U(12) = 0 .. 4095
BY DEF U

LEMMA Within ==
  /\ \A v \in 0 .. 1 : v \in U(1)
  /\ \A v \in 0 .. 3 : v \in U(2)
  /\ \A v \in 0 .. 7 : v \in U(3)
  /\ \A v \in 0 .. 15 : v \in U(4)
  /\ \A v \in 0 .. 31 : v \in U(5)
  /\ \A v \in 0 .. 63 : v \in U(6)
  /\ \A v \in 0 .. 127 : v \in U(7)
  /\ \A v \in 0 .. 255 : v \in U(8)
  /\ \A v \in 0 .. 2047 : v \in U(11)
  /\ \A v \in 0 .. 4095 : v \in U(12)
BY DEF U

LEMMA TruthFits == \A v : Truth(v) \in Bit /\ Truth(v) \in U(1) /\ BitOf(v) \in U(1)
BY Widths DEF Truth, BitOf, Bit

LEMMA Binary == 0 \in Bit /\ 1 \in Bit
BY DEF Bit

LEMMA BitFits == \A v \in Bit : v \in U(1)
BY Widths DEF Bit

LEMMA MinutesFit == \A t \in Minutes : t \in U(11) /\ t \in U(12)
BY Widths DEF Minutes

LEMMA ValuesRead ==
  \A r \in Values : /\ r.power \in 0 .. 255 /\ r.mode \in 0 .. 255
                    /\ r.fan \in 0 .. 255 /\ r.temp \in 0 .. 255
                    /\ r.temp \in Int
BY DEF Values, Byte

LEMMA LowByte == \A n \in U(11) : n % 256 \in U(8) /\ n % 256 \in U(11)
BY DEF U

\* The fields of a remote of class p, each with a number it has the bits for.
Fits(p, s) ==
  /\ DOMAIN s = DOMAIN Bits[p]
  /\ \A f \in DOMAIN s : s[f] \in U(Bits[p][f])

----------------------------------------------------------------------------
(* ESP.                                                                    *)

ESP_remotes ==
  [Comfort : U(1), CurrentTime : U(11), CurrentDay : U(3), Power : U(1), OnTimer : U(1),
   OffTimer : U(1), Mode : U(3), Temp : U(7), SwingV : U(4), Fan : U(4), SwingH : U(4),
   OnTime : U(12), OffTime : U(12), Powerful : U(1), Quiet : U(1), Sensor : U(1), Econo : U(1),
   WeeklyTimer : U(1), Mold : U(1)]

LEMMA ESPResetTyped == ESP_stateReset \in ESP_remotes
<1>1. {0, 1} \subseteq U(1) /\ {0, kDaikinHeat} \subseteq U(3) /\ {0, kDaikinFanQuiet}
          \subseteq U(4) /\ {15} \subseteq U(7) /\ {0} \subseteq U(11) /\ {kDaikinUnusedTime}
          \subseteq U(12)
  BY Widths DEF kDaikinFanQuiet, kDaikinHeat, kDaikinUnusedTime
<1>2. QED
  BY <1>1 DEF ESP_remotes, ESP_stateReset

LEMMA ESPSetTempTyped ==
  ASSUME NEW s \in ESP_remotes, NEW v \in Int
  PROVE  ESP_setTemp(s, v) \in ESP_remotes
<1>1. Clamp(v, kDaikinMinTemp, kDaikinMaxTemp) \in U(7)
  BY Widths DEF Clamp, kDaikinMaxTemp, kDaikinMinTemp
<1>2. QED
  BY <1>1 DEF ESP_remotes, ESP_setTemp

LEMMA ESPSetFanTyped == ASSUME NEW s \in ESP_remotes, NEW v PROVE ESP_setFan(s, v) \in ESP_remotes
<1>1. DaikinFanSet(v) \in U(4)
  BY Widths DEF DaikinFanSet, kDaikinFanAuto, kDaikinFanMax, kDaikinFanMin, kDaikinFanQuiet
<1>2. QED
  BY <1>1 DEF ESP_remotes, ESP_setFan

LEMMA ESPSetModeTyped ==
  ASSUME NEW s \in ESP_remotes, NEW v
  PROVE  DaikinSetMode(s, v) \in ESP_remotes
<1>1. OneOf(v, kDaikinModes, kDaikinAuto) \in U(3)
  BY Widths DEF OneOf, kDaikinAuto, kDaikinModes, kDaikinCool, kDaikinDry, kDaikinFan, kDaikinHeat
<1>2. QED
  BY <1>1 DEF ESP_remotes, DaikinSetMode

LEMMA ESPSetparamTyped ==
  ASSUME NEW s \in ESP_remotes, NEW r \in Values
  PROVE  ESP_setparam(s, r) \in ESP_remotes
<1>1. [s EXCEPT !.Power = Truth(r.power)] \in ESP_remotes
  BY TruthFits DEF ESP_remotes
<1>2. QED
  BY <1>1, ValuesRead, ESPSetTempTyped, ESPSetFanTyped, ESPSetModeTyped DEF ESP_setparam

LEMMA ESPOptionsTyped ==
  ASSUME NEW s \in ESP_remotes
  PROVE  \A t \in ESP_options(s) : t \in ESP_remotes
<1>1. \A t \in Each(s, "SwingV", {0, 15}) : t \in ESP_remotes
  BY Within, BitFits, MinutesFit DEF ESP_remotes, Each
<1>2. \A t \in Each(s, "SwingH", {0, 15}) : t \in ESP_remotes
  BY Within, BitFits, MinutesFit DEF ESP_remotes, Each
<1>3. ASSUME NEW on \in Bit
      PROVE  [s EXCEPT !.Quiet = on, !.Powerful = IF on = 1 THEN 0 ELSE @] \in ESP_remotes
  <2>1. s.Powerful \in U(1)
    BY DEF ESP_remotes
  <2>2. on \in U(1)
    BY Widths, <2>1, <1>3 DEF Bit
  <2>3. (IF on = 1 THEN 0 ELSE s.Powerful) \in U(1)
    BY Widths, <2>1, <1>3 DEF Bit
  <2>4. QED
    BY <2>2, <2>3 DEF ESP_remotes
<1>4. ASSUME NEW on \in Bit
      PROVE  [s EXCEPT !.Econo = on, !.Powerful = IF on = 1 THEN 0 ELSE @] \in ESP_remotes
  <2>1. s.Powerful \in U(1)
    BY DEF ESP_remotes
  <2>2. on \in U(1)
    BY Widths, <2>1, <1>4 DEF Bit
  <2>3. (IF on = 1 THEN 0 ELSE s.Powerful) \in U(1)
    BY Widths, <2>1, <1>4 DEF Bit
  <2>4. QED
    BY <2>2, <2>3 DEF ESP_remotes
<1>5. ASSUME NEW on \in Bit
      PROVE  [s EXCEPT !.Powerful = on, !.Quiet = IF on = 1 THEN 0 ELSE @, !.Econo = IF on = 1
          THEN 0 ELSE @] \in ESP_remotes
  <2>1. s.Econo \in U(1) /\ s.Quiet \in U(1)
    BY DEF ESP_remotes
  <2>2. on \in U(1)
    BY Widths, <2>1, <1>5 DEF Bit
  <2>3. (IF on = 1 THEN 0 ELSE s.Quiet) \in U(1)
    BY Widths, <2>1, <1>5 DEF Bit
  <2>4. (IF on = 1 THEN 0 ELSE s.Econo) \in U(1)
    BY Widths, <2>1, <1>5 DEF Bit
  <2>5. QED
    BY <2>2, <2>3, <2>4 DEF ESP_remotes
<1>6. \A t \in Each(s, "SwingV", {0, 15}) \union Each(s, "SwingH", {0, 15}) \union {[s EXCEPT
          !.Quiet = on, !.Powerful = IF on = 1 THEN 0 ELSE @] : on \in Bit} \union {[s EXCEPT
          !.Econo = on, !.Powerful = IF on = 1 THEN 0 ELSE @] : on \in Bit} \union {[s EXCEPT
          !.Powerful = on, !.Quiet = IF on = 1 THEN 0 ELSE @, !.Econo = IF on = 1 THEN 0 ELSE @] :
          on \in Bit} : t \in ESP_remotes
  BY <1>1, <1>2, <1>3, <1>4, <1>5, ZenonT(30)
<1>7. \A t \in Toggles(s, {"Sensor", "Mold", "Comfort", "WeeklyTimer"}) : t \in ESP_remotes
  BY Within, BitFits, MinutesFit DEF ESP_remotes, Toggles, Each
<1>8. ASSUME NEW t \in Minutes PROVE [s EXCEPT !.OnTimer = 1, !.OnTime = t] \in ESP_remotes
  <2>1. 1 \in U(1)
    BY Widths, <1>8 DEF Minutes
  <2>2. t \in U(12)
    BY Widths, <1>8 DEF Minutes
  <2>3. QED
    BY <2>1, <2>2 DEF ESP_remotes
<1>9. ASSUME NEW t \in Minutes PROVE [s EXCEPT !.OffTimer = 1, !.OffTime = t] \in ESP_remotes
  <2>1. 1 \in U(1)
    BY Widths, <1>9 DEF Minutes
  <2>2. t \in U(12)
    BY Widths, <1>9 DEF Minutes
  <2>3. QED
    BY <2>1, <2>2 DEF ESP_remotes
<1>10. [s EXCEPT !.OnTimer = 0, !.OnTime = kDaikinUnusedTime] \in ESP_remotes
  <2>1. 0 \in U(1)
    BY Widths
  <2>2. kDaikinUnusedTime \in U(12)
    BY Widths DEF kDaikinUnusedTime
  <2>3. QED
    BY <2>1, <2>2 DEF ESP_remotes
<1>11. [s EXCEPT !.OffTimer = 0, !.OffTime = kDaikinUnusedTime] \in ESP_remotes
  <2>1. 0 \in U(1)
    BY Widths
  <2>2. kDaikinUnusedTime \in U(12)
    BY Widths DEF kDaikinUnusedTime
  <2>3. QED
    BY <2>1, <2>2 DEF ESP_remotes
<1>12. \A t \in Each(s, "SwingV", {0, 15}) \union Each(s, "SwingH", {0, 15}) \union {[s EXCEPT
           !.Quiet = on, !.Powerful = IF on = 1 THEN 0 ELSE @] : on \in Bit} \union {[s EXCEPT
           !.Econo = on, !.Powerful = IF on = 1 THEN 0 ELSE @] : on \in Bit} \union {[s EXCEPT
           !.Powerful = on, !.Quiet = IF on = 1 THEN 0 ELSE @, !.Econo = IF on = 1 THEN 0 ELSE @]
           : on \in Bit} \union Toggles(s, {"Sensor", "Mold", "Comfort", "WeeklyTimer"}) \union
           {[s EXCEPT !.OnTimer = 1, !.OnTime = t] : t \in Minutes} \union {[s EXCEPT !.OffTimer =
           1, !.OffTime = t] : t \in Minutes} \union {[s EXCEPT !.OnTimer = 0, !.OnTime =
           kDaikinUnusedTime], [s EXCEPT !.OffTimer = 0, !.OffTime = kDaikinUnusedTime]} : t \in
           ESP_remotes
  BY <1>6, <1>7, <1>8, <1>9, <1>10, <1>11, ZenonT(30)
<1>13. \A t \in Each(s, "CurrentTime", Minutes) : t \in ESP_remotes
  BY Within, BitFits, MinutesFit DEF ESP_remotes, Each
<1>14. \A t \in Each(s, "CurrentDay", 0 .. 7) : t \in ESP_remotes
  BY Within, BitFits, MinutesFit DEF ESP_remotes, Each
<1>15. QED
  BY <1>12, <1>13, <1>14, ZenonT(30) DEF ESP_options

LEMMA ESPFits == ASSUME NEW s \in ESP_remotes PROVE Fits("ESP", s)
<1>1. Bits["ESP"] = ESP_bits
  BY DEF Bits
<1>2. DOMAIN s = DOMAIN ESP_bits /\ \A f \in DOMAIN s : s[f] \in U(ESP_bits[f])
  BY DEF ESP_remotes, ESP_bits
<1>3. QED
  BY <1>1, <1>2 DEF Fits

----------------------------------------------------------------------------
(* Daikin2.                                                                *)

Daikin2_remotes ==
  [CurrentTime : U(12), Power2 : U(1), Light : U(2), Beep : U(2), FreshAir : U(1), Mold : U(1),
   Clean : U(1), FreshAirHigh : U(1), EyeAuto : U(1), SwingH : U(8), SwingV : U(4), Power : U(1),
   OnTimer : U(1), OffTimer : U(1), Mode : U(3), Temp : U(7), Fan : U(4), OnTime : U(12),
   OffTime : U(12), Powerful : U(1), Quiet : U(1), Eye : U(1), Econo : U(1), Purify : U(1),
   SleepTimer : U(1)]

LEMMA Daikin2ResetTyped == Daikin2_stateReset \in Daikin2_remotes
<1>1. {0, 1} \subseteq U(1) /\ {0, 3, 1} \subseteq U(2) /\ {0} \subseteq U(3) /\ {0,
          kDaikinFanAuto} \subseteq U(4) /\ {0} \subseteq U(7) /\ {0, 190} \subseteq U(8) /\ {0,
          kDaikinUnusedTime} \subseteq U(12)
  BY Widths DEF kDaikinFanAuto, kDaikinUnusedTime
<1>2. QED
  BY <1>1, ZenonT(40) DEF Daikin2_remotes, Daikin2_stateReset, Daikin2_bits

LEMMA Daikin2SetPowerTyped ==
  ASSUME NEW s \in Daikin2_remotes, NEW v \in Bit
  PROVE  Daikin2_setPower(s, v) \in Daikin2_remotes
<1>1. v \in U(1)
  BY Widths DEF Bit
<1>2. 1 - v \in U(1)
  BY Widths DEF Bit
<1>3. QED
  BY <1>1, <1>2 DEF Daikin2_remotes, Daikin2_setPower

LEMMA Daikin2SetTempTyped ==
  ASSUME NEW s \in Daikin2_remotes, NEW v \in Int
  PROVE  Daikin2_setTemp(s, v) \in Daikin2_remotes
<1>1. s.Mode \in U(3)
  BY DEF Daikin2_remotes
<1>2. Clamp(v, IF s.Mode = kDaikinCool THEN kDaikin2MinCoolTemp ELSE kDaikinMinTemp,
          kDaikinMaxTemp) \in U(7)
  BY Widths, <1>1 DEF Clamp, kDaikin2MinCoolTemp, kDaikinCool, kDaikinMaxTemp, kDaikinMinTemp
<1>3. QED
  BY <1>2 DEF Daikin2_remotes, Daikin2_setTemp

LEMMA Daikin2StoreModeTyped ==
  ASSUME NEW s \in Daikin2_remotes, NEW v
  PROVE  DaikinSetMode(s, v) \in Daikin2_remotes
<1>1. OneOf(v, kDaikinModes, kDaikinAuto) \in U(3)
  BY Widths DEF OneOf, kDaikinAuto, kDaikinModes, kDaikinCool, kDaikinDry, kDaikinFan, kDaikinHeat
<1>2. QED
  BY <1>1 DEF Daikin2_remotes, DaikinSetMode

LEMMA Daikin2SetModeTyped ==
  ASSUME NEW s \in Daikin2_remotes, NEW v
  PROVE  Daikin2_setMode(s, v) \in Daikin2_remotes
<1>1. s.Temp \in Int
  BY Widths DEF Daikin2_remotes
<1>2. QED
  BY <1>1, Daikin2SetTempTyped, Daikin2StoreModeTyped DEF Daikin2_setMode

LEMMA Daikin2SetFanTyped ==
  ASSUME NEW s \in Daikin2_remotes, NEW v
  PROVE  [s EXCEPT !.Fan = DaikinFanSet(v)] \in Daikin2_remotes
<1>1. DaikinFanSet(v) \in U(4)
  BY Widths DEF DaikinFanSet, kDaikinFanAuto, kDaikinFanQuiet, kDaikinFanMin, kDaikinFanMax
<1>2. QED
  BY <1>1 DEF Daikin2_remotes

LEMMA Daikin2SetparamTyped ==
  ASSUME NEW s \in Daikin2_remotes, NEW r \in Values
  PROVE  Daikin2_setparam(s, r) \in Daikin2_remotes
<1>1. Daikin2_setPower(s, Truth(r.power)) \in Daikin2_remotes
  BY TruthFits, Daikin2SetPowerTyped
<1>2. QED
  BY <1>1, ValuesRead, Daikin2SetPowerTyped, Daikin2SetTempTyped, Daikin2StoreModeTyped,
     Daikin2SetModeTyped, Daikin2SetFanTyped
     DEF Daikin2_setparam

LEMMA Daikin2TimersTyped ==
  ASSUME NEW s \in Daikin2_remotes
  PROVE  \A t \in Daikin2_timers(s) : t \in Daikin2_remotes
<1>1. ASSUME NEW t \in Minutes
      PROVE  [s EXCEPT !.SleepTimer = 0, !.OnTimer = 1, !.OnTime = t] \in Daikin2_remotes
  <2>1. 0 \in U(1)
    BY Widths, <1>1 DEF Minutes
  <2>2. 1 \in U(1)
    BY Widths, <1>1 DEF Minutes
  <2>3. t \in U(12)
    BY Widths, <1>1 DEF Minutes
  <2>4. QED
    BY <2>1, <2>2, <2>3 DEF Daikin2_remotes
<1>2. ASSUME NEW t \in Minutes
      PROVE  [s EXCEPT !.SleepTimer = 1, !.OnTimer = 0, !.OnTime = t] \in Daikin2_remotes
  <2>1. 1 \in U(1)
    BY Widths, <1>2 DEF Minutes
  <2>2. 0 \in U(1)
    BY Widths, <1>2 DEF Minutes
  <2>3. t \in U(12)
    BY Widths, <1>2 DEF Minutes
  <2>4. QED
    BY <2>1, <2>2, <2>3 DEF Daikin2_remotes
<1>3. [s EXCEPT !.SleepTimer = 0, !.OnTimer = 0, !.OnTime = kDaikinUnusedTime] \in Daikin2_remotes
  <2>1. 0 \in U(1)
    BY Widths
  <2>2. 0 \in U(1)
    BY Widths
  <2>3. kDaikinUnusedTime \in U(12)
    BY Widths DEF kDaikinUnusedTime
  <2>4. QED
    BY <2>1, <2>2, <2>3 DEF Daikin2_remotes
<1>4. ASSUME NEW t \in Minutes PROVE [s EXCEPT !.OffTimer = 1, !.OffTime = t] \in Daikin2_remotes
  <2>1. 1 \in U(1)
    BY Widths, <1>4 DEF Minutes
  <2>2. t \in U(12)
    BY Widths, <1>4 DEF Minutes
  <2>3. QED
    BY <2>1, <2>2 DEF Daikin2_remotes
<1>5. [s EXCEPT !.OffTimer = 0, !.OffTime = kDaikinUnusedTime] \in Daikin2_remotes
  <2>1. 0 \in U(1)
    BY Widths
  <2>2. kDaikinUnusedTime \in U(12)
    BY Widths DEF kDaikinUnusedTime
  <2>3. QED
    BY <2>1, <2>2 DEF Daikin2_remotes
<1>6. \A t \in Each(s, "CurrentTime", Minutes) : t \in Daikin2_remotes
  BY Within, BitFits, MinutesFit DEF Daikin2_remotes, Each
<1>7. QED
  BY <1>1, <1>2, <1>3, <1>4, <1>5, <1>6, ZenonT(30) DEF Daikin2_timers

LEMMA Daikin2OptionsTyped ==
  ASSUME NEW s \in Daikin2_remotes
  PROVE  \A t \in Daikin2_options(s) : t \in Daikin2_remotes
<1>1. \A t \in Each(s, "SwingV", 1 .. 6 \union 12 .. 15) : t \in Daikin2_remotes
  BY Within, BitFits, MinutesFit DEF Daikin2_remotes, Each
<1>2. \A t \in Each(s, "SwingH", {163, 191}) : t \in Daikin2_remotes
  BY Within, BitFits, MinutesFit DEF Daikin2_remotes, Each
<1>3. \A t \in Each(s, "SwingV", 1 .. 6 \union 12 .. 15) \union Each(s, "SwingH", {163, 191})
          : t \in Daikin2_remotes
  BY <1>1, <1>2, ZenonT(30)
<1>4. ASSUME NEW on \in Bit
      PROVE  [s EXCEPT !.Quiet = on, !.Powerful = IF on = 1 THEN 0 ELSE @] \in Daikin2_remotes
  <2>1. s.Powerful \in U(1)
    BY DEF Daikin2_remotes
  <2>2. on \in U(1)
    BY Widths, <2>1, <1>4 DEF Bit
  <2>3. (IF on = 1 THEN 0 ELSE s.Powerful) \in U(1)
    BY Widths, <2>1, <1>4 DEF Bit
  <2>4. QED
    BY <2>2, <2>3 DEF Daikin2_remotes
<1>5. \A t \in Each(s, "SwingV", 1 .. 6 \union 12 .. 15) \union Each(s, "SwingH", {163, 191})
          \union {[s EXCEPT !.Quiet = on, !.Powerful = IF on = 1 THEN 0 ELSE @] : on \in Bit} : t
          \in Daikin2_remotes
  BY <1>3, <1>4, ZenonT(30)
<1>6. ASSUME NEW on \in Bit
      PROVE  [s EXCEPT !.Powerful = on, !.Quiet = IF on = 1 THEN 0 ELSE @] \in Daikin2_remotes
  <2>1. s.Quiet \in U(1)
    BY DEF Daikin2_remotes
  <2>2. on \in U(1)
    BY Widths, <2>1, <1>6 DEF Bit
  <2>3. (IF on = 1 THEN 0 ELSE s.Quiet) \in U(1)
    BY Widths, <2>1, <1>6 DEF Bit
  <2>4. QED
    BY <2>2, <2>3 DEF Daikin2_remotes
<1>7. \A t \in Each(s, "SwingV", 1 .. 6 \union 12 .. 15) \union Each(s, "SwingH", {163, 191})
          \union {[s EXCEPT !.Quiet = on, !.Powerful = IF on = 1 THEN 0 ELSE @] : on \in Bit}
          \union {[s EXCEPT !.Powerful = on, !.Quiet = IF on = 1 THEN 0 ELSE @] : on \in Bit} : t
          \in Daikin2_remotes
  BY <1>5, <1>6, ZenonT(30)
<1>8. \A t \in Toggles(s, {"Econo", "EyeAuto", "Purify", "Mold", "Clean", "FreshAir",
          "FreshAirHigh"}) : t \in Daikin2_remotes
  BY Within, BitFits, MinutesFit DEF Daikin2_remotes, Toggles, Each
<1>9. \A t \in Each(s, "SwingV", 1 .. 6 \union 12 .. 15) \union Each(s, "SwingH", {163, 191})
          \union {[s EXCEPT !.Quiet = on, !.Powerful = IF on = 1 THEN 0 ELSE @] : on \in Bit}
          \union {[s EXCEPT !.Powerful = on, !.Quiet = IF on = 1 THEN 0 ELSE @] : on \in Bit}
          \union Toggles(s, {"Econo", "EyeAuto", "Purify", "Mold", "Clean", "FreshAir",
          "FreshAirHigh"}) : t \in Daikin2_remotes
  BY <1>7, <1>8, ZenonT(30)
<1>10. \A t \in Each(s, "Beep", 1 .. 3) : t \in Daikin2_remotes
  BY Within, BitFits, MinutesFit DEF Daikin2_remotes, Each
<1>11. \A t \in Each(s, "SwingV", 1 .. 6 \union 12 .. 15) \union Each(s, "SwingH", {163, 191})
           \union {[s EXCEPT !.Quiet = on, !.Powerful = IF on = 1 THEN 0 ELSE @] : on \in Bit}
           \union {[s EXCEPT !.Powerful = on, !.Quiet = IF on = 1 THEN 0 ELSE @] : on \in Bit}
           \union Toggles(s, {"Econo", "EyeAuto", "Purify", "Mold", "Clean", "FreshAir",
           "FreshAirHigh"}) \union Each(s, "Beep", 1 .. 3) : t \in Daikin2_remotes
  BY <1>9, <1>10, ZenonT(30)
<1>12. \A t \in Each(s, "Light", 1 .. 3) : t \in Daikin2_remotes
  BY Within, BitFits, MinutesFit DEF Daikin2_remotes, Each
<1>13. \A t \in Daikin2_timers(s) : t \in Daikin2_remotes
  BY Daikin2TimersTyped
<1>14. QED
  BY <1>11, <1>12, <1>13, ZenonT(30) DEF Daikin2_options

LEMMA Daikin2Fits == ASSUME NEW s \in Daikin2_remotes PROVE Fits("Daikin2", s)
<1>1. Bits["Daikin2"] = Daikin2_bits
  BY DEF Bits
<1>2. DOMAIN s = DOMAIN Daikin2_bits /\ \A f \in DOMAIN s : s[f] \in U(Daikin2_bits[f])
  BY DEF Daikin2_remotes, Daikin2_bits
<1>3. QED
  BY <1>1, <1>2 DEF Fits

----------------------------------------------------------------------------
(* Daikin64.                                                               *)

Daikin64_remotes ==
  [Mode : U(4), Fan : U(4), ClockMins : U(8), ClockHours : U(8), OnHours : U(6),
   OnHalfHour : U(1), OnTimer : U(1), OffHours : U(6), OffHalfHour : U(1), OffTimer : U(1),
   Temp : U(8), SwingV : U(1), Sleep : U(1), Power : U(1)]

LEMMA Daikin64ResetTyped == Daikin64_stateReset \in Daikin64_remotes
<1>1. {0, 1} \subseteq U(1) /\ {2, 4} \subseteq U(4) /\ {22} \subseteq U(6) /\ {32, 7, 22}
          \subseteq U(8)
  BY Widths
<1>2. QED
  BY <1>1 DEF Daikin64_remotes, Daikin64_stateReset

LEMMA Daikin64SetTempTyped ==
  ASSUME NEW s \in Daikin64_remotes, NEW v \in Int
  PROVE  Daikin64_setTemp(s, v) \in Daikin64_remotes
<1>1. uint8ToBcd(Clamp(v, 16, 30)) \in U(8)
  BY Widths DEF Clamp, uint8ToBcd
<1>2. QED
  BY <1>1 DEF Daikin64_remotes, Daikin64_setTemp

LEMMA Daikin64SetFanTyped ==
  ASSUME NEW s \in Daikin64_remotes, NEW v
  PROVE  Daikin64_setFan(s, v) \in Daikin64_remotes
<1>1. OneOf(v, {1, 2, 3, 4, 8, 9}, kDaikin64FanAuto) \in U(4)
  BY Widths DEF OneOf, kDaikin64FanAuto
<1>2. QED
  BY <1>1 DEF Daikin64_remotes, Daikin64_setFan

LEMMA Daikin64SetModeTyped ==
  ASSUME NEW s \in Daikin64_remotes, NEW v
  PROVE  Daikin64_setMode(s, v) \in Daikin64_remotes
<1>1. OneOf(v, {kDaikin64Fan, kDaikin64Dry, kDaikin64Cool}, kDaikin64Cool) \in U(4)
  BY Widths DEF OneOf, kDaikin64Cool, kDaikin64Dry, kDaikin64Fan
<1>2. QED
  BY <1>1 DEF Daikin64_remotes, Daikin64_setMode

LEMMA Daikin64SetparamTyped ==
  ASSUME NEW s \in Daikin64_remotes, NEW r \in Values
  PROVE  Daikin64_setparam(s, r) \in Daikin64_remotes
<1>1. [s EXCEPT !.Power = Truth(r.power)] \in Daikin64_remotes
  BY TruthFits DEF Daikin64_remotes
<1>2. QED
  BY <1>1, ValuesRead, Daikin64SetTempTyped, Daikin64SetFanTyped, Daikin64SetModeTyped
     DEF Daikin64_setparam

LEMMA Daikin64ClockTyped ==
  ASSUME NEW t \in Minutes
  PROVE  /\ uint8ToBcd(DayMinutes(t) % 60) \in U(8)
         /\ uint8ToBcd(DayMinutes(t) \div 60) \in U(8)
         /\ HalfHours(t).hours \in U(6) /\ HalfHours(t).half \in U(1)
<1>1. DayMinutes(t) \in {0, 605, 1439}
  BY DEF DayMinutes, Minutes
<1>2. /\ DayMinutes(t) % 60 \in 0 .. 59 /\ DayMinutes(t) \div 60 \in 0 .. 23
  BY <1>1
<1>3. QED
  BY <1>2, Widths DEF HalfHours, uint8ToBcd, BitOf

LEMMA Daikin64OptionsTyped ==
  ASSUME NEW s \in Daikin64_remotes
  PROVE  \A t \in Daikin64_options(s) : t \in Daikin64_remotes
<1> DEFINE speed(v, on) == IF on THEN Daikin64_setFan(s, v)
                            ELSE IF s.Fan = v THEN Daikin64_setFan(s, kDaikin64FanAuto) ELSE s
<1>1. \A t \in Toggles(s, {"SwingV", "Sleep", "OnTimer", "OffTimer"}) : t \in Daikin64_remotes
  BY Within, BitFits DEF Daikin64_remotes, Toggles, Each
<1>2. ASSUME NEW v, NEW on \in BOOLEAN PROVE speed(v, on) \in Daikin64_remotes
  BY Daikin64SetFanTyped
<1>3. ASSUME NEW t \in Minutes
      PROVE  [s EXCEPT !.ClockMins = uint8ToBcd(DayMinutes(t) % 60),
                       !.ClockHours = uint8ToBcd(DayMinutes(t) \div 60)] \in Daikin64_remotes
  BY Daikin64ClockTyped DEF Daikin64_remotes
<1>4. ASSUME NEW t \in Minutes
      PROVE  /\ [s EXCEPT !.OnHours = HalfHours(t).hours, !.OnHalfHour = HalfHours(t).half]
                   \in Daikin64_remotes
             /\ [s EXCEPT !.OffHours = HalfHours(t).hours, !.OffHalfHour = HalfHours(t).half]
                   \in Daikin64_remotes
  BY Daikin64ClockTyped DEF Daikin64_remotes
<1>5. QED
  BY <1>1, <1>2, <1>3, <1>4, ZenonT(30) DEF Daikin64_options

LEMMA Daikin64Fits == ASSUME NEW s \in Daikin64_remotes PROVE Fits("Daikin64", s)
<1>1. Bits["Daikin64"] = Daikin64_bits
  BY DEF Bits
<1>2. DOMAIN s = DOMAIN Daikin64_bits /\ \A f \in DOMAIN s : s[f] \in U(Daikin64_bits[f])
  BY DEF Daikin64_remotes, Daikin64_bits
<1>3. QED
  BY <1>1, <1>2 DEF Fits

----------------------------------------------------------------------------
(* Daikin128.                                                              *)

Daikin128_remotes ==
  [Mode : U(4), Fan : U(4), ClockMins : U(8), ClockHours : U(8), OnHours : U(6),
   OnHalfHour : U(1), OnTimer : U(1), OffHours : U(6), OffHalfHour : U(1), OffTimer : U(1),
   Temp : U(8), SwingV : U(1), Sleep : U(1), Power : U(1), Ceiling : U(1), Econo : U(1),
   Wall : U(1)]

LEMMA Daikin128ResetTyped == Daikin128_stateReset \in Daikin128_remotes
<1>1. {0} \subseteq U(1) /\ {0} \subseteq U(4) /\ {0} \subseteq U(6) /\ {0} \subseteq U(8)
  BY Widths
<1>2. QED
  BY <1>1 DEF Daikin128_remotes, Daikin128_stateReset, Daikin128_bits

LEMMA Daikin128SetTempTyped ==
  ASSUME NEW s \in Daikin128_remotes, NEW v \in Int
  PROVE  Daikin128_setTemp(s, v) \in Daikin128_remotes
<1>1. uint8ToBcd(Clamp(v, 16, 30)) \in U(8)
  BY Widths DEF Clamp, uint8ToBcd
<1>2. QED
  BY <1>1 DEF Daikin128_remotes, Daikin128_setTemp

LEMMA Daikin128SetFanTyped ==
  ASSUME NEW s \in Daikin128_remotes, NEW v
  PROVE  Daikin128_setFan(s, v) \in Daikin128_remotes
<1>1. OneOf(v, {1, 2, 4, 8}, kDaikin128FanAuto) \in U(4)
  BY Widths DEF OneOf, kDaikin128FanAuto
<1>2. [s EXCEPT !.Fan = OneOf(v, {1, 2, 4, 8}, kDaikin128FanAuto)] \in Daikin128_remotes
  BY <1>1 DEF Daikin128_remotes
<1>3. QED
  BY <1>2 DEF Daikin128_setFan

LEMMA Daikin128SetEconoTyped ==
  ASSUME NEW s \in Daikin128_remotes, NEW v
  PROVE  Daikin128_setEcono(s, v) \in Daikin128_remotes
BY TruthFits DEF Daikin128_remotes, Daikin128_setEcono

LEMMA Daikin128SetModeTyped ==
  ASSUME NEW s \in Daikin128_remotes, NEW v
  PROVE  Daikin128_setMode(s, v) \in Daikin128_remotes
<1> DEFINE native == OneOf(v, {kDaikin128Dry, kDaikin128Cool, kDaikin128Fan, kDaikin128Heat},
                           kDaikin128Auto)
<1>1. native \in U(4)
  BY Widths DEF OneOf, kDaikin128Dry, kDaikin128Cool, kDaikin128Fan, kDaikin128Heat, kDaikin128Auto
<1>2. [s EXCEPT !.Mode = native] \in Daikin128_remotes
  BY <1>1 DEF Daikin128_remotes
<1>3. QED
  BY <1>2, Daikin128SetFanTyped, Daikin128SetEconoTyped DEF Daikin128_setMode

LEMMA Daikin128SetparamTyped ==
  ASSUME NEW s \in Daikin128_remotes, NEW r \in Values
  PROVE  Daikin128_setparam(s, r) \in Daikin128_remotes
<1>1. [s EXCEPT !.Power = Truth(r.power)] \in Daikin128_remotes
  BY TruthFits DEF Daikin128_remotes
<1>2. QED
  BY <1>1, ValuesRead, Daikin128SetTempTyped, Daikin128SetFanTyped, Daikin128SetEconoTyped,
     Daikin128SetModeTyped
     DEF Daikin128_setparam

LEMMA Daikin128TimersTyped ==
  ASSUME NEW s \in Daikin128_remotes
  PROVE  \A t \in Daikin128_timers(s) : t \in Daikin128_remotes
<1>1. ASSUME NEW t \in Minutes PROVE [s EXCEPT !.OnTimer = t % 2] \in Daikin128_remotes
  <2>1. t % 2 \in U(1)
    BY Widths DEF Minutes
  <2>2. QED
    BY <2>1 DEF Daikin128_remotes
<1>2. ASSUME NEW t \in Minutes
      PROVE  [s EXCEPT !.OffHours = HalfHours(t).hours, !.OffHalfHour = HalfHours(t).half]
               \in Daikin128_remotes
  BY Daikin64ClockTyped DEF Daikin128_remotes
<1>3. ASSUME NEW t \in Minutes
      PROVE  [s EXCEPT !.ClockMins = uint8ToBcd(DayMinutes(t) % 60),
                       !.ClockHours = uint8ToBcd(DayMinutes(t) \div 60)] \in Daikin128_remotes
  BY Daikin64ClockTyped DEF Daikin128_remotes
<1>4. QED
  BY <1>1, <1>2, <1>3, ZenonT(30) DEF Daikin128_timers

LEMMA Daikin128OptionsTyped ==
  ASSUME NEW s \in Daikin128_remotes
  PROVE  \A t \in Daikin128_options(s) : t \in Daikin128_remotes
<1> DEFINE speed(v, on) == IF on /\ s.Mode \in {kDaikin128Cool, kDaikin128Heat}
                            THEN Daikin128_setFan(s, v)
                            ELSE IF s.Fan = v THEN Daikin128_setFan(s, kDaikin128FanAuto) ELSE s
<1>1. \A t \in Toggles(s, {"SwingV", "Sleep", "OnTimer", "OffTimer"}) : t \in Daikin128_remotes
  BY Within, BitFits DEF Daikin128_remotes, Toggles, Each
<1>2. ASSUME NEW v, NEW on \in BOOLEAN PROVE speed(v, on) \in Daikin128_remotes
  BY Daikin128SetFanTyped
<1>3. \A on \in Bit : Daikin128_setEcono(s, on) \in Daikin128_remotes
  BY Daikin128SetEconoTyped
<1>4. 0 \in U(1) /\ 1 \in U(1)
  BY Widths
<1>5. /\ [s EXCEPT !.Ceiling = 0, !.Wall = 0] \in Daikin128_remotes
      /\ [s EXCEPT !.Ceiling = 1, !.Wall = 0] \in Daikin128_remotes
      /\ [s EXCEPT !.Ceiling = 0, !.Wall = 1] \in Daikin128_remotes
  BY <1>4 DEF Daikin128_remotes
<1>6. QED
  BY <1>1, <1>2, <1>3, <1>5, Daikin128TimersTyped, ZenonT(30) DEF Daikin128_options

LEMMA Daikin128Fits == ASSUME NEW s \in Daikin128_remotes PROVE Fits("Daikin128", s)
<1>1. Bits["Daikin128"] = Daikin128_bits
  BY DEF Bits
<1>2. DOMAIN s = DOMAIN Daikin128_bits /\ \A f \in DOMAIN s : s[f] \in U(Daikin128_bits[f])
  BY DEF Daikin128_remotes, Daikin128_bits
<1>3. QED
  BY <1>1, <1>2 DEF Fits

----------------------------------------------------------------------------
(* Daikin152.                                                              *)

Daikin152_remotes ==
  [Power : U(1), Mode : U(3), Temp : U(7), SwingV : U(4), Fan : U(4), Powerful : U(1),
   Quiet : U(1), Comfort : U(1), Econo : U(1), Sensor : U(1)]

LEMMA Daikin152ResetTyped == Daikin152_stateReset \in Daikin152_remotes
<1>1. {0} \subseteq U(1) /\ {0} \subseteq U(3) /\ {0} \subseteq U(4) /\ {0} \subseteq U(7)
  BY Widths
<1>2. QED
  BY <1>1 DEF Daikin152_remotes, Daikin152_stateReset, Daikin152_bits

LEMMA Daikin152SetTempTyped ==
  ASSUME NEW s \in Daikin152_remotes, NEW v \in Int
  PROVE  Daikin152_setTemp(s, v) \in Daikin152_remotes
<1>1. s.Mode \in U(3)
  BY DEF Daikin152_remotes
<1>2. (IF v = kDaikin152FanTemp THEN v ELSE Clamp(v, IF s.Mode = kDaikinHeat THEN
          kDaikinMinTemp ELSE kDaikin2MinCoolTemp, kDaikinMaxTemp)) \in U(7)
  BY Widths, <1>1
     DEF Clamp, kDaikin152FanTemp, kDaikin2MinCoolTemp, kDaikinHeat, kDaikinMaxTemp,
         kDaikinMinTemp
<1>3. QED
  BY <1>2 DEF Daikin152_remotes, Daikin152_setTemp

LEMMA Daikin152StoreModeTyped ==
  ASSUME NEW s \in Daikin152_remotes, NEW v
  PROVE  DaikinSetMode(s, v) \in Daikin152_remotes
<1>1. OneOf(v, kDaikinModes, kDaikinAuto) \in U(3)
  BY Widths DEF OneOf, kDaikinAuto, kDaikinModes, kDaikinCool, kDaikinDry, kDaikinFan, kDaikinHeat
<1>2. QED
  BY <1>1 DEF Daikin152_remotes, DaikinSetMode

LEMMA Daikin152SetModeTyped ==
  ASSUME NEW s \in Daikin152_remotes, NEW v
  PROVE  Daikin152_setMode(s, v) \in Daikin152_remotes
BY Daikin152SetTempTyped, Daikin152StoreModeTyped
   DEF Daikin152_setMode, kDaikin152FanTemp, kDaikin2MinCoolTemp

LEMMA Daikin152SetFanTyped ==
  ASSUME NEW s \in Daikin152_remotes, NEW v
  PROVE  [s EXCEPT !.Fan = DaikinFanSet(v)] \in Daikin152_remotes
<1>1. DaikinFanSet(v) \in U(4)
  BY Widths DEF DaikinFanSet, kDaikinFanAuto, kDaikinFanQuiet, kDaikinFanMin, kDaikinFanMax
<1>2. QED
  BY <1>1 DEF Daikin152_remotes

LEMMA Daikin152SetparamTyped ==
  ASSUME NEW s \in Daikin152_remotes, NEW r \in Values
  PROVE  Daikin152_setparam(s, r) \in Daikin152_remotes
<1>1. [s EXCEPT !.Power = Truth(r.power)] \in Daikin152_remotes
  BY TruthFits DEF Daikin152_remotes
<1>2. QED
  BY <1>1, ValuesRead, Daikin152SetTempTyped, Daikin152StoreModeTyped, Daikin152SetModeTyped,
     Daikin152SetFanTyped
     DEF Daikin152_setparam

LEMMA Daikin152OptionsTyped ==
  ASSUME NEW s \in Daikin152_remotes
  PROVE  \A t \in Daikin152_options(s) : t \in Daikin152_remotes
<1>1. \A t \in Each(s, "SwingV", {0, 15}) : t \in Daikin152_remotes
  BY Within, BitFits, MinutesFit DEF Daikin152_remotes, Each
<1>2. \A t \in Toggles(s, {"Sensor"}) : t \in Daikin152_remotes
  BY Within, BitFits, MinutesFit DEF Daikin152_remotes, Toggles, Each
<1>3. ASSUME NEW on \in Bit
      PROVE  [s EXCEPT !.Quiet = on, !.Powerful = IF on = 1 THEN 0 ELSE @] \in
          Daikin152_remotes
  <2>1. s.Powerful \in U(1)
    BY DEF Daikin152_remotes
  <2>2. on \in U(1)
    BY Widths, <2>1, <1>3 DEF Bit
  <2>3. (IF on = 1 THEN 0 ELSE s.Powerful) \in U(1)
    BY Widths, <2>1, <1>3 DEF Bit
  <2>4. QED
    BY <2>2, <2>3 DEF Daikin152_remotes
<1>4. ASSUME NEW on \in Bit
      PROVE  [s EXCEPT !.Econo = on, !.Powerful = IF on = 1 THEN 0 ELSE @] \in
          Daikin152_remotes
  <2>1. s.Powerful \in U(1)
    BY DEF Daikin152_remotes
  <2>2. on \in U(1)
    BY Widths, <2>1, <1>4 DEF Bit
  <2>3. (IF on = 1 THEN 0 ELSE s.Powerful) \in U(1)
    BY Widths, <2>1, <1>4 DEF Bit
  <2>4. QED
    BY <2>2, <2>3 DEF Daikin152_remotes
<1>5. [s EXCEPT !.Powerful = 0] \in Daikin152_remotes
  <2>1. 0 \in U(1)
    BY Widths
  <2>2. QED
    BY <2>1 DEF Daikin152_remotes
<1>6. [s EXCEPT !.Powerful = 1, !.Quiet = 0, !.Comfort = 0, !.Econo = 0] \in Daikin152_remotes
  <2>1. 1 \in U(1)
    BY Widths
  <2>2. 0 \in U(1)
    BY Widths
  <2>3. 0 \in U(1)
    BY Widths
  <2>4. 0 \in U(1)
    BY Widths
  <2>5. QED
    BY <2>1, <2>2, <2>3, <2>4 DEF Daikin152_remotes
<1>7. [s EXCEPT !.Comfort = 0] \in Daikin152_remotes
  <2>1. 0 \in U(1)
    BY Widths
  <2>2. QED
    BY <2>1 DEF Daikin152_remotes
<1>8. [s EXCEPT !.Comfort = 1, !.Powerful = 0, !.Fan = kDaikinFanAuto, !.SwingV = 0] \in
          Daikin152_remotes
  <2>1. 1 \in U(1)
    BY Widths
  <2>2. 0 \in U(1)
    BY Widths
  <2>3. kDaikinFanAuto \in U(4)
    BY Widths DEF kDaikinFanAuto
  <2>4. 0 \in U(4)
    BY Widths
  <2>5. QED
    BY <2>1, <2>2, <2>3, <2>4 DEF Daikin152_remotes
<1>9. QED
  BY <1>1, <1>2, <1>3, <1>4, <1>5, <1>6, <1>7, <1>8, ZenonT(30) DEF Daikin152_options

LEMMA Daikin152Fits == ASSUME NEW s \in Daikin152_remotes PROVE Fits("Daikin152", s)
<1>1. Bits["Daikin152"] = Daikin152_bits
  BY DEF Bits
<1>2. DOMAIN s = DOMAIN Daikin152_bits /\ \A f \in DOMAIN s : s[f] \in U(Daikin152_bits[f])
  BY DEF Daikin152_remotes, Daikin152_bits
<1>3. QED
  BY <1>1, <1>2 DEF Fits

----------------------------------------------------------------------------
(* Daikin160.                                                              *)

Daikin160_remotes ==
  [Power : U(1), Mode : U(3), SwingV : U(4), Temp : U(6), Fan : U(4)]

LEMMA Daikin160ResetTyped == Daikin160_stateReset \in Daikin160_remotes
<1>1. {0} \subseteq U(1) /\ {kDaikinCool} \subseteq U(3) /\ {1, kDaikinFanAuto} \subseteq U(4)
          /\ {15} \subseteq U(6)
  BY Widths DEF kDaikinCool, kDaikinFanAuto
<1>2. QED
  BY <1>1 DEF Daikin160_remotes, Daikin160_stateReset

LEMMA Daikin160SetTempTyped ==
  ASSUME NEW s \in Daikin160_remotes, NEW v \in Int
  PROVE  Daikin160_setTemp(s, v) \in Daikin160_remotes
<1>1. Clamp(v, kDaikinMinTemp, kDaikinMaxTemp) - 10 \in U(6)
  BY Widths DEF Clamp, kDaikinMaxTemp, kDaikinMinTemp
<1>2. QED
  BY <1>1 DEF Daikin160_remotes, Daikin160_setTemp

LEMMA Daikin160StoreModeTyped ==
  ASSUME NEW s \in Daikin160_remotes, NEW v
  PROVE  DaikinSetMode(s, v) \in Daikin160_remotes
<1>1. OneOf(v, kDaikinModes, kDaikinAuto) \in U(3)
  BY Widths DEF OneOf, kDaikinAuto, kDaikinModes, kDaikinCool, kDaikinDry, kDaikinFan, kDaikinHeat
<1>2. QED
  BY <1>1 DEF Daikin160_remotes, DaikinSetMode

LEMMA Daikin160SetFanTyped ==
  ASSUME NEW s \in Daikin160_remotes, NEW v
  PROVE  [s EXCEPT !.Fan = DaikinFanSet(v)] \in Daikin160_remotes
<1>1. DaikinFanSet(v) \in U(4)
  BY Widths DEF DaikinFanSet, kDaikinFanAuto, kDaikinFanQuiet, kDaikinFanMin, kDaikinFanMax
<1>2. QED
  BY <1>1 DEF Daikin160_remotes

LEMMA Daikin160SetparamTyped ==
  ASSUME NEW s \in Daikin160_remotes, NEW r \in Values
  PROVE  Daikin160_setparam(s, r) \in Daikin160_remotes
<1>1. [s EXCEPT !.Power = Truth(r.power)] \in Daikin160_remotes
  BY TruthFits DEF Daikin160_remotes
<1>2. QED
  BY <1>1, ValuesRead, Daikin160SetTempTyped, Daikin160StoreModeTyped, Daikin160SetFanTyped
     DEF Daikin160_setparam

LEMMA Daikin160OptionsTyped ==
  ASSUME NEW s \in Daikin160_remotes
  PROVE  \A t \in Daikin160_options(s) : t \in Daikin160_remotes
<1>1. ASSUME NEW v \in 0 .. 15
      PROVE  [s EXCEPT !.SwingV = OneOf(v, 1 .. 5 \union {15}, 15)] \in Daikin160_remotes
  <2>1. OneOf(v, 1 .. 5 \union {15}, 15) \in U(4)
    BY Widths, <1>1 DEF OneOf
  <2>2. QED
    BY <2>1 DEF Daikin160_remotes
<1>2. QED
  BY <1>1, ZenonT(30) DEF Daikin160_options

LEMMA Daikin160Fits == ASSUME NEW s \in Daikin160_remotes PROVE Fits("Daikin160", s)
<1>1. Bits["Daikin160"] = Daikin160_bits
  BY DEF Bits
<1>2. DOMAIN s = DOMAIN Daikin160_bits /\ \A f \in DOMAIN s : s[f] \in U(Daikin160_bits[f])
  BY DEF Daikin160_remotes, Daikin160_bits
<1>3. QED
  BY <1>1, <1>2 DEF Fits

----------------------------------------------------------------------------
(* Daikin176.                                                              *)

Daikin176_remotes ==
  [AltMode : U(3), ModeButton : U(8), Power : U(1), Mode : U(3), Temp : U(6), SwingH : U(4),
   Fan : U(4), _saved_temp : U(8)]

LEMMA Daikin176ResetTyped == Daikin176_stateReset \in Daikin176_remotes
<1>1. {0} \subseteq U(1) /\ {7, 2} \subseteq U(3) /\ {6, 1} \subseteq U(4) /\ {0} \subseteq
          U(6) /\ {0, 9} \subseteq U(8)
  BY Widths
<1>2. QED
  BY <1>1 DEF Daikin176_remotes, Daikin176_stateReset

LEMMA Daikin176SetTempTyped ==
  ASSUME NEW s \in Daikin176_remotes, NEW v \in Int
  PROVE  Daikin176_setTemp(s, v) \in Daikin176_remotes
<1>1. s.Mode \in U(3)
  BY DEF Daikin176_remotes
<1>2. (LET degrees == Clamp(v, kDaikinMinTemp, kDaikinMaxTemp) shown == IF s.Mode \in
          {kDaikin176Dry, kDaikin176Fan} THEN kDaikin176DryFanTemp ELSE degrees IN degrees) \in
          U(8)
  BY Widths, <1>1
     DEF Clamp, kDaikin176Dry, kDaikin176DryFanTemp, kDaikin176Fan, kDaikinMaxTemp, kDaikinMinTemp
<1>3. (LET degrees == Clamp(v, kDaikinMinTemp, kDaikinMaxTemp) shown == IF s.Mode \in
          {kDaikin176Dry, kDaikin176Fan} THEN kDaikin176DryFanTemp ELSE degrees IN shown - 9) \in
          U(6)
  BY Widths, <1>1
     DEF Clamp, kDaikin176Dry, kDaikin176DryFanTemp, kDaikin176Fan, kDaikinMaxTemp, kDaikinMinTemp
<1>4. (LET degrees == Clamp(v, kDaikinMinTemp, kDaikinMaxTemp) shown == IF s.Mode \in
          {kDaikin176Dry, kDaikin176Fan} THEN kDaikin176DryFanTemp ELSE degrees IN 0) \in U(8)
  BY Widths, <1>1
     DEF Clamp, kDaikin176Dry, kDaikin176DryFanTemp, kDaikin176Fan, kDaikinMaxTemp, kDaikinMinTemp
<1>5. QED
  BY <1>2, <1>3, <1>4 DEF Daikin176_remotes, Daikin176_setTemp

LEMMA Daikin176SetFanTyped ==
  ASSUME NEW s \in Daikin176_remotes, NEW v
  PROVE  Daikin176_setFan(s, v) \in Daikin176_remotes
<1>1. OneOf(v, {kDaikinFanMin, 3}, 3) \in U(4)
  BY Widths DEF OneOf, kDaikinFanMin
<1>2. 0 \in U(8)
  BY Widths
<1>3. QED
  BY <1>1, <1>2 DEF Daikin176_remotes, Daikin176_setFan

LEMMA Daikin176SetModeTyped ==
  ASSUME NEW s \in Daikin176_remotes, NEW v
  PROVE  Daikin176_setMode(s, v) \in Daikin176_remotes
<1> DEFINE native == OneOf(v, {kDaikin176Dry, kDaikin176Fan, kDaikin176Auto, kDaikin176Heat},
                           kDaikin176Cool)
           alt == Lookup(kDaikin176Dry :> 2 @@ kDaikin176Fan :> 6, native, 7)
<1>1. native \in U(3)
  BY Widths
     DEF OneOf, kDaikin176Dry, kDaikin176Fan, kDaikin176Auto, kDaikin176Heat, kDaikin176Cool
<1>2. alt \in U(3)
  BY Widths DEF Lookup, :>, @@
<1> HIDE DEF native, alt
<1>3. [s EXCEPT !.Mode = native, !.AltMode = alt] \in Daikin176_remotes
  BY <1>1, <1>2 DEF Daikin176_remotes
<1>4. s._saved_temp \in U(8)
  BY DEF Daikin176_remotes
<1>5. s._saved_temp \in Int /\ 4 \in U(8)
  BY <1>4, Widths
<1>6. Daikin176_setTemp([s EXCEPT !.Mode = native, !.AltMode = alt], s._saved_temp)
        \in Daikin176_remotes
  BY <1>3, <1>5, Daikin176SetTempTyped
<1>7. \A t \in Daikin176_remotes : [t EXCEPT !.ModeButton = 4] \in Daikin176_remotes
  BY <1>5 DEF Daikin176_remotes
<1>8. QED
  BY <1>6, <1>7 DEF Daikin176_setMode, native, alt

LEMMA Daikin176SetPowerTyped ==
  ASSUME NEW s \in Daikin176_remotes, NEW v
  PROVE  [s EXCEPT !.Power = Truth(v), !.ModeButton = 0] \in Daikin176_remotes
<1>1. 0 \in U(8)
  BY Widths
<1>2. QED
  BY <1>1, TruthFits DEF Daikin176_remotes

LEMMA Daikin176SetparamTyped ==
  ASSUME NEW s \in Daikin176_remotes, NEW r \in Values
  PROVE  Daikin176_setparam(s, r) \in Daikin176_remotes
BY ValuesRead, Daikin176SetTempTyped, Daikin176SetFanTyped, Daikin176SetModeTyped, Daikin176SetPowerTyped
   DEF Daikin176_setparam

LEMMA Daikin176OptionsTyped ==
  ASSUME NEW s \in Daikin176_remotes
  PROVE  \A t \in Daikin176_options(s) : t \in Daikin176_remotes
<1>1. ASSUME NEW v \in {0, 5, 6}
      PROVE  [s EXCEPT !.SwingH = OneOf(v, {5, 6}, 5)] \in Daikin176_remotes
  <2>1. OneOf(v, {5, 6}, 5) \in U(4)
    BY Widths, <1>1 DEF OneOf
  <2>2. QED
    BY <2>1 DEF Daikin176_remotes
<1>2. QED
  BY <1>1, ZenonT(30) DEF Daikin176_options

LEMMA Daikin176Fits == ASSUME NEW s \in Daikin176_remotes PROVE Fits("Daikin176", s)
<1>1. Bits["Daikin176"] = Daikin176_bits
  BY DEF Bits
<1>2. DOMAIN s = DOMAIN Daikin176_bits /\ \A f \in DOMAIN s : s[f] \in U(Daikin176_bits[f])
  BY DEF Daikin176_remotes, Daikin176_bits
<1>3. QED
  BY <1>1, <1>2 DEF Fits

----------------------------------------------------------------------------
(* Daikin216.                                                              *)

Daikin216_remotes ==
  [Power : U(1), Mode : U(3), Temp : U(6), SwingV : U(4), Fan : U(4), SwingH : U(4),
   Powerful : U(1)]

LEMMA Daikin216ResetTyped == Daikin216_stateReset \in Daikin216_remotes
<1>1. {0} \subseteq U(1) /\ {0} \subseteq U(3) /\ {0} \subseteq U(4) /\ {0} \subseteq U(6)
  BY Widths
<1>2. QED
  BY <1>1 DEF Daikin216_remotes, Daikin216_stateReset, Daikin216_bits

LEMMA Daikin216SetTempTyped ==
  ASSUME NEW s \in Daikin216_remotes, NEW v \in Int
  PROVE  Daikin216_setTemp(s, v) \in Daikin216_remotes
<1>1. Clamp(v, kDaikinMinTemp, kDaikinMaxTemp) \in U(6)
  BY Widths DEF Clamp, kDaikinMaxTemp, kDaikinMinTemp
<1>2. QED
  BY <1>1 DEF Daikin216_remotes, Daikin216_setTemp

LEMMA Daikin216StoreModeTyped ==
  ASSUME NEW s \in Daikin216_remotes, NEW v
  PROVE  DaikinSetMode(s, v) \in Daikin216_remotes
<1>1. OneOf(v, kDaikinModes, kDaikinAuto) \in U(3)
  BY Widths DEF OneOf, kDaikinAuto, kDaikinModes, kDaikinCool, kDaikinDry, kDaikinFan, kDaikinHeat
<1>2. QED
  BY <1>1 DEF Daikin216_remotes, DaikinSetMode

LEMMA Daikin216SetFanTyped ==
  ASSUME NEW s \in Daikin216_remotes, NEW v
  PROVE  [s EXCEPT !.Fan = DaikinFanSet(v)] \in Daikin216_remotes
<1>1. DaikinFanSet(v) \in U(4)
  BY Widths DEF DaikinFanSet, kDaikinFanAuto, kDaikinFanQuiet, kDaikinFanMin, kDaikinFanMax
<1>2. QED
  BY <1>1 DEF Daikin216_remotes

LEMMA Daikin216SetparamTyped ==
  ASSUME NEW s \in Daikin216_remotes, NEW r \in Values
  PROVE  Daikin216_setparam(s, r) \in Daikin216_remotes
<1>1. [s EXCEPT !.Power = Truth(r.power)] \in Daikin216_remotes
  BY TruthFits DEF Daikin216_remotes
<1>2. QED
  BY <1>1, ValuesRead, Daikin216SetTempTyped, Daikin216StoreModeTyped, Daikin216SetFanTyped
     DEF Daikin216_setparam

LEMMA Daikin216OptionsTyped ==
  ASSUME NEW s \in Daikin216_remotes
  PROVE  \A t \in Daikin216_options(s) : t \in Daikin216_remotes
<1> DEFINE unquiet(t) == IF DaikinFanGet(t.Fan) = kDaikinFanQuiet
                         THEN [t EXCEPT !.Fan = kDaikinFanAuto] ELSE t
<1>1. kDaikinFanAuto \in U(4) /\ kDaikinFanQuiet \in U(4) /\ 0 \in U(1) /\ 1 \in U(1)
  BY Widths DEF kDaikinFanAuto, kDaikinFanQuiet
<1>2. ASSUME NEW t \in Daikin216_remotes PROVE unquiet(t) \in Daikin216_remotes
  BY <1>1 DEF Daikin216_remotes
<1>3. /\ [s EXCEPT !.Fan = kDaikinFanQuiet, !.Powerful = 0] \in Daikin216_remotes
      /\ [s EXCEPT !.Powerful = 1] \in Daikin216_remotes
      /\ [s EXCEPT !.Powerful = 0] \in Daikin216_remotes
  BY <1>1 DEF Daikin216_remotes
<1>4. \A t \in Each(s, "SwingV", {0, 15}) : t \in Daikin216_remotes
  BY Within DEF Daikin216_remotes, Each
<1>5. \A t \in Each(s, "SwingH", {0, 15}) : t \in Daikin216_remotes
  BY Within DEF Daikin216_remotes, Each
<1>6. unquiet(s) \in Daikin216_remotes /\ unquiet([s EXCEPT !.Powerful = 1]) \in Daikin216_remotes
  BY <1>2, <1>3
<1> HIDE DEF unquiet
<1>7. QED
  BY <1>3, <1>4, <1>5, <1>6, ZenonT(30) DEF Daikin216_options, unquiet

LEMMA Daikin216Fits == ASSUME NEW s \in Daikin216_remotes PROVE Fits("Daikin216", s)
<1>1. Bits["Daikin216"] = Daikin216_bits
  BY DEF Bits
<1>2. DOMAIN s = DOMAIN Daikin216_bits /\ \A f \in DOMAIN s : s[f] \in U(Daikin216_bits[f])
  BY DEF Daikin216_remotes, Daikin216_bits
<1>3. QED
  BY <1>1, <1>2 DEF Fits

----------------------------------------------------------------------------
(* Hitachi1.                                                               *)

Hitachi1_remotes ==
  [Model : U(2), Fan : U(4), Mode : U(4), Temp : U(5), OffTimerLow : U(8), OffTimerHigh : U(8),
   OnTimerLow : U(8), OnTimerHigh : U(8), SwingToggle : U(1), Sleep : U(3), PowerToggle : U(1),
   Power : U(1), SwingV : U(1), SwingH : U(1)]

LEMMA Hitachi1ResetTyped == Hitachi1_stateReset \in Hitachi1_remotes
<1>1. {1, 0} \subseteq U(1) /\ {2} \subseteq U(2) /\ {0} \subseteq U(3) /\
          {kHitachiAc1FanAuto, kHitachiAc1Auto} \subseteq U(4) /\ {9} \subseteq U(5) /\ {0}
          \subseteq U(8)
  BY Widths DEF kHitachiAc1Auto, kHitachiAc1FanAuto
<1>2. QED
  BY <1>1 DEF Hitachi1_remotes, Hitachi1_stateReset

LEMMA Hitachi1SetPowerTyped ==
  ASSUME NEW s \in Hitachi1_remotes, NEW v \in Bit
  PROVE  Hitachi1_setPower(s, v) \in Hitachi1_remotes
<1>1. s.Power \in U(1) /\ s.PowerToggle \in U(1)
  BY DEF Hitachi1_remotes
<1>2. (IF v # s.Power THEN 1 ELSE s.PowerToggle) \in U(1)
  BY Widths, <1>1 DEF Bit
<1>3. v \in U(1)
  BY Widths, <1>1 DEF Bit
<1>4. QED
  BY <1>2, <1>3 DEF Hitachi1_remotes, Hitachi1_setPower

LEMMA Hitachi1SetTempTyped ==
  ASSUME NEW s \in Hitachi1_remotes, NEW v \in Int
  PROVE  Hitachi1_setTemp(s, v) \in Hitachi1_remotes
<1>1. [s EXCEPT !.Temp = reverseFive(Clamp(v, kHitachiAcMinTemp, kHitachiAcMaxTemp) -
          kHitachiAc1TempDelta)] \in Hitachi1_remotes
  <2>1. reverseFive(Clamp(v, kHitachiAcMinTemp, kHitachiAcMaxTemp) - kHitachiAc1TempDelta) \in
            U(5)
    BY Widths
       DEF Clamp, kHitachiAc1TempDelta, kHitachiAcMaxTemp, kHitachiAcMinTemp, reverseFive,
           reverseNibble
  <2>2. QED
    BY <2>1 DEF Hitachi1_remotes
<1>2. QED
  BY <1>1 DEF Hitachi1_setTemp

LEMMA Hitachi1SetSleepTyped ==
  ASSUME NEW s \in Hitachi1_remotes, NEW v \in Int
  PROVE  Hitachi1_setSleep(s, v) \in Hitachi1_remotes
<1>1. s.Mode \in U(4)
  BY DEF Hitachi1_remotes
<1>2. (IF s.Mode \in {kHitachiAc1Auto, kHitachiAc1Cool} THEN Clamp(v, 0, 4) ELSE 0) \in U(3)
  BY Widths, <1>1 DEF Clamp, kHitachiAc1Auto, kHitachiAc1Cool
<1>3. QED
  BY <1>2 DEF Hitachi1_remotes, Hitachi1_setSleep

LEMMA Hitachi1SetFanTyped ==
  ASSUME NEW s \in Hitachi1_remotes, NEW v
  PROVE  Hitachi1_setFan(s, v) \in Hitachi1_remotes
<1>1. s.Fan \in U(4) /\ s.Mode \in U(4)
  BY DEF Hitachi1_remotes
<1>2. (LET known == {kHitachiAc1FanAuto, kHitachiAc1FanHigh, kHitachiAc1FanMed,
          kHitachiAc1FanLow} IN CASE s.Mode = kHitachiAc1Dry -> kHitachiAc1FanLow [] s.Mode =
          kHitachiAc1Auto -> kHitachiAc1FanAuto [] s.Mode \in {kHitachiAc1Heat, kHitachiAc1Fan} ->
          IF kHitachiAc1FanAuto \in {v, s.Fan} THEN kHitachiAc1FanLow ELSE s.Fan [] OTHER ->
          OneOf(v, known, kHitachiAc1FanAuto)) \in U(4)
  BY Widths, <1>1
     DEF OneOf, kHitachiAc1Auto, kHitachiAc1Dry, kHitachiAc1Fan, kHitachiAc1FanAuto,
         kHitachiAc1FanHigh, kHitachiAc1FanLow, kHitachiAc1FanMed, kHitachiAc1Heat
<1>3. QED
  BY <1>2 DEF Hitachi1_remotes, Hitachi1_setFan

LEMMA Hitachi1SetModeTyped ==
  ASSUME NEW s \in Hitachi1_remotes, NEW v
  PROVE  Hitachi1_setMode(s, v) \in Hitachi1_remotes
<1> DEFINE modes == {kHitachiAc1Fan, kHitachiAc1Heat, kHitachiAc1Cool, kHitachiAc1Dry}
<1>1. modes \subseteq U(4) /\ kHitachiAc1Auto \in U(4)
  BY Widths
     DEF kHitachiAc1Fan, kHitachiAc1Heat, kHitachiAc1Cool, kHitachiAc1Dry, kHitachiAc1Auto
<1> HIDE DEF modes
<1>2. ASSUME v \in modes PROVE [s EXCEPT !.Mode = v] \in Hitachi1_remotes
  BY <1>1, <1>2 DEF Hitachi1_remotes
<1>3. Hitachi1_setTemp(s, 25) \in Hitachi1_remotes
  BY Hitachi1SetTempTyped
<1>4. [Hitachi1_setTemp(s, 25) EXCEPT !.Mode = kHitachiAc1Auto] \in Hitachi1_remotes
  BY <1>1, <1>3 DEF Hitachi1_remotes
<1>5. s.Sleep \in U(3)
  BY DEF Hitachi1_remotes
<1>6. s.Sleep \in Int
  BY <1>5, Widths
<1>7. QED
  BY <1>2, <1>3, <1>4, <1>6, Hitachi1SetSleepTyped, Hitachi1SetFanTyped DEF Hitachi1_setMode, modes

LEMMA Hitachi1SetparamTyped ==
  ASSUME NEW s \in Hitachi1_remotes, NEW r \in Values
  PROVE  Hitachi1_setparam(s, r) \in Hitachi1_remotes
BY TruthFits, ValuesRead, Hitachi1SetPowerTyped, Hitachi1SetModeTyped, Hitachi1SetFanTyped,
   Hitachi1SetTempTyped
   DEF Hitachi1_setparam

LEMMA Hitachi1OptionsTyped ==
  ASSUME NEW s \in Hitachi1_remotes
  PROVE  \A t \in Hitachi1_options(s) : t \in Hitachi1_remotes
<1>1. \A t \in Toggles(s, {"SwingToggle", "SwingV", "SwingH", "PowerToggle"}) : t \in
          Hitachi1_remotes
  BY Within, BitFits, MinutesFit DEF Hitachi1_remotes, Toggles, Each
<1>2. ASSUME NEW v \in {1, 2} PROVE [s EXCEPT !.Model = v] \in Hitachi1_remotes
  <2>1. v \in U(2)
    BY Widths, <1>2
  <2>2. QED
    BY <2>1 DEF Hitachi1_remotes
<1>3. ASSUME NEW v \in 0 .. 5 PROVE Hitachi1_setSleep(s, v) \in Hitachi1_remotes
  BY <1>3, Widths, Hitachi1SetSleepTyped
<1>4. ASSUME NEW t \in Minutes
      PROVE  [s EXCEPT !.OnTimerLow = Hitachi1_time(t).low, !.OnTimerHigh =
          Hitachi1_time(t).high] \in Hitachi1_remotes
  <2>1. Hitachi1_time(t).low \in U(8)
    BY Widths, <1>4 DEF Hitachi1_time, reverseByte, reverseNibble, Minutes
  <2>2. Hitachi1_time(t).high \in U(8)
    BY Widths, <1>4 DEF Hitachi1_time, reverseByte, reverseNibble, Minutes
  <2>3. QED
    BY <2>1, <2>2 DEF Hitachi1_remotes
<1>5. ASSUME NEW t \in Minutes
      PROVE  [s EXCEPT !.OffTimerLow = Hitachi1_time(t).low, !.OffTimerHigh =
          Hitachi1_time(t).high] \in Hitachi1_remotes
  <2>1. Hitachi1_time(t).low \in U(8)
    BY Widths, <1>5 DEF Hitachi1_time, reverseByte, reverseNibble, Minutes
  <2>2. Hitachi1_time(t).high \in U(8)
    BY Widths, <1>5 DEF Hitachi1_time, reverseByte, reverseNibble, Minutes
  <2>3. QED
    BY <2>1, <2>2 DEF Hitachi1_remotes
<1>6. QED
  BY <1>1, <1>2, <1>3, <1>4, <1>5, ZenonT(30) DEF Hitachi1_options

LEMMA Hitachi1SentTyped ==
  ASSUME NEW s \in Hitachi1_remotes
  PROVE  Hitachi1_sent(s) \in Hitachi1_remotes
<1>1. 0 \in U(1)
  BY Widths
<1>2. 0 \in U(1)
  BY Widths
<1>3. QED
  BY <1>1, <1>2 DEF Hitachi1_remotes, Hitachi1_sent

LEMMA Hitachi1Fits == ASSUME NEW s \in Hitachi1_remotes PROVE Fits("Hitachi1", s)
<1>1. Bits["Hitachi1"] = Hitachi1_bits
  BY DEF Bits
<1>2. DOMAIN s = DOMAIN Hitachi1_bits /\ \A f \in DOMAIN s : s[f] \in U(Hitachi1_bits[f])
  BY DEF Hitachi1_remotes, Hitachi1_bits
<1>3. QED
  BY <1>1, <1>2 DEF Fits

----------------------------------------------------------------------------
(* MitsubishiAC.                                                           *)

MitsubishiAC_remotes ==
  [Power : U(1), Mode : U(3), Temp : U(8), mode8 : U(4), WideVane : U(4), Fan : U(3), Vane : U(3),
   VaneBit : U(1), FanAuto : U(1), Clock : U(8), StopClock : U(8), StartClock : U(8), Timer : U(3)]

LEMMA MitsubishiACResetTyped == MitsubishiAC_stateReset \in MitsubishiAC_remotes
<1>1. {1, 0} \subseteq U(1) /\ {kMitsubishiAcHeat, 5, 0} \subseteq U(3) /\ {0, 3} \subseteq
          U(4) /\ {6, 103, 0} \subseteq U(8)
  BY Widths DEF kMitsubishiAcHeat
<1>2. QED
  BY <1>1 DEF MitsubishiAC_remotes, MitsubishiAC_stateReset

LEMMA MitsubishiACConvertFanTyped == ASSUME NEW v PROVE MitsubishiAC_convertFan(v) \in 0 .. 6
BY DEF MitsubishiAC_convertFan, kLow, kMax, kMin, kMitsubishiAcFanAuto, kMitsubishiAcFanSilent

LEMMA MitsubishiACSetModeTyped ==
  ASSUME NEW s \in MitsubishiAC_remotes, NEW v
  PROVE  MitsubishiAC_setMode(s, v) \in MitsubishiAC_remotes
<1>1. OneOf(v, 1 .. 4, kMitsubishiAcAuto) \in U(3)
  BY Widths DEF OneOf, kMitsubishiAcAuto
<1>2. 3 \in U(4)
  BY Widths
<1>3. Lookup(kMitsubishiAcCool :> 6 @@ kMitsubishiAcDry :> 2, v, 0) \in U(4)
  BY Widths DEF Lookup, kMitsubishiAcCool, kMitsubishiAcDry, :>, @@
<1>4. QED
  BY <1>1, <1>2, <1>3 DEF MitsubishiAC_remotes, MitsubishiAC_setMode

LEMMA MitsubishiACSetFanTyped ==
  ASSUME NEW s \in MitsubishiAC_remotes, NEW v \in 0 .. 6
  PROVE  MitsubishiAC_setFan(s, v) \in MitsubishiAC_remotes
<1>1. (LET fan == IF v > kMitsubishiAcFanSilent THEN kMitsubishiAcFanMax ELSE v IN BitOf(fan =
          kMitsubishiAcFanAuto)) \in U(1)
  BY Widths DEF BitOf, kMitsubishiAcFanAuto, kMitsubishiAcFanMax, kMitsubishiAcFanSilent
<1>2. (LET fan == IF v > kMitsubishiAcFanSilent THEN kMitsubishiAcFanMax ELSE v IN IF fan >=
          kMitsubishiAcFanMax THEN fan - 1 ELSE fan) \in U(3)
  BY Widths DEF kMitsubishiAcFanMax, kMitsubishiAcFanSilent
<1>3. QED
  BY <1>1, <1>2 DEF MitsubishiAC_remotes, MitsubishiAC_setFan

LEMMA MitsubishiACSetTempTyped ==
  ASSUME NEW s \in MitsubishiAC_remotes, NEW v \in Int
  PROVE  MitsubishiAC_setTemp(s, v) \in MitsubishiAC_remotes
<1>1. Clamp(v, kMitsubishiAcMinTemp, kMitsubishiAcMaxTemp) - kMitsubishiAcMinTemp \in U(8)
  BY Widths DEF Clamp, kMitsubishiAcMaxTemp, kMitsubishiAcMinTemp
<1>2. QED
  BY <1>1 DEF MitsubishiAC_remotes, MitsubishiAC_setTemp

LEMMA MitsubishiACSetparamTyped ==
  ASSUME NEW s \in MitsubishiAC_remotes, NEW r \in Values
  PROVE  MitsubishiAC_setparam(s, r) \in MitsubishiAC_remotes
<1>1. [s EXCEPT !.Power = Truth(r.power)] \in MitsubishiAC_remotes
  BY TruthFits DEF MitsubishiAC_remotes
<1>2. QED
  BY <1>1, ValuesRead, MitsubishiACConvertFanTyped, MitsubishiACSetModeTyped,
     MitsubishiACSetFanTyped, MitsubishiACSetTempTyped
     DEF MitsubishiAC_setparam

LEMMA MitsubishiACOptionsTyped ==
  ASSUME NEW s \in MitsubishiAC_remotes
  PROVE  \A t \in MitsubishiAC_options(s) : t \in MitsubishiAC_remotes
<1>1. ASSUME NEW p \in 0 .. 8
      PROVE  [s EXCEPT !.VaneBit = 1, !.Vane = Clamp(p, 0, 7)] \in MitsubishiAC_remotes
  <2>1. 1 \in U(1)
    BY Widths, <1>1
  <2>2. Clamp(p, 0, 7) \in U(3)
    BY Widths, <1>1 DEF Clamp
  <2>3. QED
    BY <2>1, <2>2 DEF MitsubishiAC_remotes
<1>2. ASSUME NEW p \in 0 .. 9
      PROVE  [s EXCEPT !.WideVane = Clamp(p, 0, 8)] \in MitsubishiAC_remotes
  <2>1. Clamp(p, 0, 8) \in U(4)
    BY Widths, <1>2 DEF Clamp
  <2>2. QED
    BY <2>1 DEF MitsubishiAC_remotes
<1>3. \A t \in {[s EXCEPT !.VaneBit = 1, !.Vane = Clamp(p, 0, 7)] : p \in 0 .. 8} \union {[s
          EXCEPT !.WideVane = Clamp(p, 0, 8)] : p \in 0 .. 9} : t \in MitsubishiAC_remotes
  BY <1>1, <1>2, ZenonT(30)
<1>4. \A t \in Each(s, "Timer", {0, 3, 5, 7}) : t \in MitsubishiAC_remotes
  BY Within, BitFits, MinutesFit DEF MitsubishiAC_remotes, Each
<1>5. \A t \in UNION {Each(s, f, {0, 143, 255}) : f \in {"Clock", "StartClock", "StopClock"}} :
        t \in MitsubishiAC_remotes
  <2>1. ASSUME NEW f \in {"Clock", "StartClock", "StopClock"}
        PROVE  \A t \in Each(s, f, {0, 143, 255}) : t \in MitsubishiAC_remotes
    BY <2>1, Within, BitFits, MinutesFit DEF MitsubishiAC_remotes, Each
  <2>2. QED
    BY <2>1, ZenonT(30)
<1>6. QED
  BY <1>3, <1>4, <1>5, ZenonT(30) DEF MitsubishiAC_options

LEMMA MitsubishiACFits == ASSUME NEW s \in MitsubishiAC_remotes PROVE Fits("MitsubishiAC", s)
<1>1. Bits["MitsubishiAC"] = MitsubishiAC_bits
  BY DEF Bits
<1>2. DOMAIN s = DOMAIN MitsubishiAC_bits /\ \A f \in DOMAIN s : s[f] \in U(MitsubishiAC_bits[f])
  BY DEF MitsubishiAC_remotes, MitsubishiAC_bits
<1>3. QED
  BY <1>1, <1>2 DEF Fits

----------------------------------------------------------------------------
(* Mitsubishi136.                                                          *)

Mitsubishi136_remotes ==
  [Power : U(1), Mode : U(3), Temp : U(4), Fan : U(2), SwingV : U(4)]

LEMMA Mitsubishi136ResetTyped == Mitsubishi136_stateReset \in Mitsubishi136_remotes
<1>1. {1} \subseteq U(1) /\ {kMitsubishi136FanMax} \subseteq U(2) /\ {kMitsubishi136Heat}
          \subseteq U(3) /\ {12, kMitsubishi136SwingVAuto} \subseteq U(4)
  BY Widths DEF kMitsubishi136FanMax, kMitsubishi136Heat, kMitsubishi136SwingVAuto
<1>2. QED
  BY <1>1 DEF Mitsubishi136_remotes, Mitsubishi136_stateReset

LEMMA Mitsubishi136ConvertFanTyped == ASSUME NEW v PROVE Mitsubishi136_convertFan(v) \in 0 .. 3
BY DEF Mitsubishi136_convertFan, Lookup, kHigh, kLow, kMax, kMin, kMitsubishi136FanLow,
       kMitsubishi136FanMax, kMitsubishi136FanMed, kMitsubishi136FanMin, :>, @@

LEMMA Mitsubishi136SetparamTyped ==
  ASSUME NEW s \in Mitsubishi136_remotes, NEW v \in Values
  PROVE  Mitsubishi136_setparam(s, v) \in Mitsubishi136_remotes
<1>1. Truth(v.power) \in U(1)
  BY Widths, ValuesRead, TruthFits DEF Truth, BitOf
<1>2. OneOf(Mitsubishi136_convertMode(v.mode), {0, 1, 2, 3, 5}, kMitsubishi136Auto) \in U(3)
  BY Widths, ValuesRead, TruthFits
     DEF Mitsubishi136_convertMode, OneOf, kMitsubishi136Auto, Lookup, kCool, kDry, kFan, kHeat,
         kMitsubishi136Cool, kMitsubishi136Dry, kMitsubishi136Fan, kMitsubishi136Heat, :>, @@
<1>3. Clamp(Mitsubishi136_convertFan(v.fan), 0, kMitsubishi136FanMax) \in U(2)
  BY Widths, ValuesRead, TruthFits, Mitsubishi136ConvertFanTyped DEF Clamp, kMitsubishi136FanMax
<1>4. Clamp(v.temp, 17, 30) - kMitsubishiAcMinTemp \in U(4)
  BY Widths, ValuesRead, TruthFits DEF Clamp, kMitsubishiAcMinTemp
<1>5. QED
  BY <1>1, <1>2, <1>3, <1>4 DEF Mitsubishi136_remotes, Mitsubishi136_setparam

LEMMA Mitsubishi136OptionsTyped ==
  ASSUME NEW s \in Mitsubishi136_remotes
  PROVE  \A t \in Mitsubishi136_options(s) : t \in Mitsubishi136_remotes
<1>1. ASSUME NEW p \in 0 .. 12
      PROVE  [s EXCEPT !.SwingV = OneOf(p, {0, 1, 2, 3, 12}, kMitsubishi136SwingVAuto)] \in
          Mitsubishi136_remotes
  <2>1. OneOf(p, {0, 1, 2, 3, 12}, kMitsubishi136SwingVAuto) \in U(4)
    BY Widths, <1>1 DEF OneOf, kMitsubishi136SwingVAuto
  <2>2. QED
    BY <2>1 DEF Mitsubishi136_remotes
<1>2. [s EXCEPT !.Fan = kMitsubishi136FanMin] \in Mitsubishi136_remotes
  <2>1. kMitsubishi136FanMin \in U(2)
    BY Widths DEF kMitsubishi136FanMin
  <2>2. QED
    BY <2>1 DEF Mitsubishi136_remotes
<1>3. [s EXCEPT !.Fan = IF @ = kMitsubishi136FanMin THEN kMitsubishi136FanLow ELSE @] \in
          Mitsubishi136_remotes
  <2>1. s.Fan \in U(2)
    BY DEF Mitsubishi136_remotes
  <2>2. (IF s.Fan = kMitsubishi136FanMin THEN kMitsubishi136FanLow ELSE s.Fan) \in U(2)
    BY Widths, <2>1 DEF kMitsubishi136FanLow, kMitsubishi136FanMin
  <2>3. QED
    BY <2>2 DEF Mitsubishi136_remotes
<1>4. QED
  BY <1>1, <1>2, <1>3, ZenonT(30) DEF Mitsubishi136_options

LEMMA Mitsubishi136Fits == ASSUME NEW s \in Mitsubishi136_remotes PROVE Fits("Mitsubishi136", s)
<1>1. Bits["Mitsubishi136"] = Mitsubishi136_bits
  BY DEF Bits
<1>2. DOMAIN s = DOMAIN Mitsubishi136_bits /\ \A f \in DOMAIN s : s[f] \in U(Mitsubishi136_bits[f])
  BY DEF Mitsubishi136_remotes, Mitsubishi136_bits
<1>3. QED
  BY <1>1, <1>2 DEF Fits

----------------------------------------------------------------------------
(* Mitsubishi112.                                                          *)

Mitsubishi112_remotes ==
  [Power : U(1), Mode : U(3), Temp : U(4), Fan : U(3), SwingV : U(3), SwingH : U(4)]

LEMMA Mitsubishi112ResetTyped == Mitsubishi112_stateReset \in Mitsubishi112_remotes
<1>1. {1} \subseteq U(1) /\ {kMitsubishi112Cool, kMitsubishi112FanMax, 2} \subseteq U(3) /\
          {11, kMitsubishi112SwingHAuto} \subseteq U(4)
  BY Widths DEF kMitsubishi112Cool, kMitsubishi112FanMax, kMitsubishi112SwingHAuto
<1>2. QED
  BY <1>1 DEF Mitsubishi112_remotes, Mitsubishi112_stateReset

LEMMA Mitsubishi112SetparamTyped ==
  ASSUME NEW s \in Mitsubishi112_remotes, NEW v \in Values
  PROVE  Mitsubishi112_setparam(s, v) \in Mitsubishi112_remotes
<1>1. Truth(v.power) \in U(1)
  BY Widths, ValuesRead, TruthFits DEF Truth, BitOf
<1>2. OneOf(Mitsubishi112_convertMode(v.mode), {1, 2, 3, 7}, kMitsubishi112Auto) \in U(3)
  BY Widths, ValuesRead, TruthFits
     DEF Mitsubishi112_convertMode, OneOf, kMitsubishi112Auto, Lookup, kCool, kDry, kHeat,
         kMitsubishi112Cool, kMitsubishi112Dry, kMitsubishi112Heat, :>, @@
<1>3. OneOf(Mitsubishi112_convertFan(v.fan), {0, 2, 3, 5}, kMitsubishi112FanMax) \in U(3)
  BY Widths, ValuesRead, TruthFits
     DEF Mitsubishi112_convertFan, OneOf, kMitsubishi112FanMax, Lookup, kHigh, kLow, kMax, kMin,
         kMitsubishi112FanLow, kMitsubishi112FanMed, kMitsubishi112FanMin, :>, @@
<1>4. kMitsubishiAcMaxTemp - Clamp(v.temp, 16, 31) \in U(4)
  BY Widths, ValuesRead, TruthFits DEF Clamp, kMitsubishiAcMaxTemp
<1>5. QED
  BY <1>1, <1>2, <1>3, <1>4 DEF Mitsubishi112_remotes, Mitsubishi112_setparam

LEMMA Mitsubishi112OptionsTyped ==
  ASSUME NEW s \in Mitsubishi112_remotes
  PROVE  \A t \in Mitsubishi112_options(s) : t \in Mitsubishi112_remotes
<1>1. ASSUME NEW p \in 0 .. 7
      PROVE  [s EXCEPT !.SwingV = OneOf(p, {1, 2, 3, 4, 5, 7}, kMitsubishi112SwingVAuto)] \in
          Mitsubishi112_remotes
  <2>1. OneOf(p, {1, 2, 3, 4, 5, 7}, kMitsubishi112SwingVAuto) \in U(3)
    BY Widths, <1>1 DEF OneOf, kMitsubishi112SwingVAuto
  <2>2. QED
    BY <2>1 DEF Mitsubishi112_remotes
<1>2. ASSUME NEW p \in 0 .. 12
      PROVE  [s EXCEPT !.SwingH = OneOf(p, {1, 2, 3, 4, 5, 8, 12}, kMitsubishi112SwingHAuto)]
          \in Mitsubishi112_remotes
  <2>1. OneOf(p, {1, 2, 3, 4, 5, 8, 12}, kMitsubishi112SwingHAuto) \in U(4)
    BY Widths, <1>2 DEF OneOf, kMitsubishi112SwingHAuto
  <2>2. QED
    BY <2>1 DEF Mitsubishi112_remotes
<1>3. [s EXCEPT !.Fan = kMitsubishi112FanMin] \in Mitsubishi112_remotes
  <2>1. kMitsubishi112FanMin \in U(3)
    BY Widths DEF kMitsubishi112FanMin
  <2>2. QED
    BY <2>1 DEF Mitsubishi112_remotes
<1>4. [s EXCEPT !.Fan = IF @ = kMitsubishi112FanMin THEN kMitsubishi112FanLow ELSE @] \in
          Mitsubishi112_remotes
  <2>1. s.Fan \in U(3)
    BY DEF Mitsubishi112_remotes
  <2>2. (IF s.Fan = kMitsubishi112FanMin THEN kMitsubishi112FanLow ELSE s.Fan) \in U(3)
    BY Widths, <2>1 DEF kMitsubishi112FanLow, kMitsubishi112FanMin
  <2>3. QED
    BY <2>2 DEF Mitsubishi112_remotes
<1>5. QED
  BY <1>1, <1>2, <1>3, <1>4, ZenonT(30) DEF Mitsubishi112_options

LEMMA Mitsubishi112Fits == ASSUME NEW s \in Mitsubishi112_remotes PROVE Fits("Mitsubishi112", s)
<1>1. Bits["Mitsubishi112"] = Mitsubishi112_bits
  BY DEF Bits
<1>2. DOMAIN s = DOMAIN Mitsubishi112_bits /\ \A f \in DOMAIN s : s[f] \in U(Mitsubishi112_bits[f])
  BY DEF Mitsubishi112_remotes, Mitsubishi112_bits
<1>3. QED
  BY <1>1, <1>2 DEF Fits

----------------------------------------------------------------------------
(* Heavy152.                                                               *)

Heavy152_remotes ==
  [Mode : U(3), Power : U(1), Clean : U(1), Filter : U(1), Temp : U(4), Fan : U(4), Three : U(1),
   D : U(1), SwingV : U(3), SwingH : U(4), Night : U(1), Silent : U(1)]

LEMMA Heavy152ResetTyped == Heavy152_stateReset \in Heavy152_remotes
<1>1. {0} \subseteq U(1) /\ {0} \subseteq U(3) /\ {0} \subseteq U(4)
  BY Widths
<1>2. QED
  BY <1>1 DEF Heavy152_remotes, Heavy152_stateReset, Heavy152_bits

LEMMA Heavy152SetTempTyped ==
  ASSUME NEW s \in Heavy152_remotes, NEW v \in Int
  PROVE  MitsubishiHeavy_setTemp(s, v) \in Heavy152_remotes
<1>1. Clamp(v, kMitsubishiHeavyMinTemp, kMitsubishiHeavyMaxTemp) - kMitsubishiHeavyMinTemp \in
          U(4)
  BY Widths DEF Clamp, kMitsubishiHeavyMaxTemp, kMitsubishiHeavyMinTemp
<1>2. QED
  BY <1>1 DEF Heavy152_remotes, MitsubishiHeavy_setTemp

LEMMA Heavy152SetModeTyped ==
  ASSUME NEW s \in Heavy152_remotes, NEW v
  PROVE  MitsubishiHeavy_setMode(s, v) \in Heavy152_remotes
<1>1. OneOf(v, 1 .. 4, kMitsubishiHeavyAuto) \in U(3)
  BY Widths DEF OneOf, kMitsubishiHeavyAuto
<1>2. QED
  BY <1>1 DEF Heavy152_remotes, MitsubishiHeavy_setMode

LEMMA Heavy152SetFanTyped ==
  ASSUME NEW s \in Heavy152_remotes, NEW v
  PROVE  Heavy152_setFan(s, v) \in Heavy152_remotes
<1>1. OneOf(v, {1, 2, 3, 4, 6, 8}, 0) \in U(4)
  BY Widths DEF OneOf
<1>2. QED
  BY <1>1 DEF Heavy152_remotes, Heavy152_setFan

LEMMA Heavy152SetparamTyped ==
  ASSUME NEW s \in Heavy152_remotes, NEW r \in Values
  PROVE  Heavy152_setparam(s, r) \in Heavy152_remotes
<1>1. [s EXCEPT !.Power = Truth(r.power)] \in Heavy152_remotes
  BY TruthFits DEF Heavy152_remotes
<1>2. QED
  BY <1>1, ValuesRead, Heavy152SetTempTyped, Heavy152SetModeTyped, Heavy152SetFanTyped
     DEF Heavy152_setparam

LEMMA Heavy152OptionsTyped ==
  ASSUME NEW s \in Heavy152_remotes
  PROVE  \A t \in Heavy152_options(s) : t \in Heavy152_remotes
<1>1. ASSUME NEW p \in 0 .. 7 PROVE [s EXCEPT !.SwingV = Clamp(p, 0, 6)] \in Heavy152_remotes
  <2>1. Clamp(p, 0, 6) \in U(3)
    BY Widths, <1>1 DEF Clamp
  <2>2. QED
    BY <2>1 DEF Heavy152_remotes
<1>2. ASSUME NEW p \in 0 .. 9 PROVE [s EXCEPT !.SwingH = Clamp(p, 0, 8)] \in Heavy152_remotes
  <2>1. Clamp(p, 0, 8) \in U(4)
    BY Widths, <1>2 DEF Clamp
  <2>2. QED
    BY <2>1 DEF Heavy152_remotes
<1>3. \A t \in Toggles(s, {"Night", "Silent", "Filter"}) : t \in Heavy152_remotes
  BY Within, BitFits, MinutesFit DEF Heavy152_remotes, Toggles, Each
<1>4. ASSUME NEW on \in Bit PROVE [s EXCEPT !.Three = on, !.D = on] \in Heavy152_remotes
  <2>1. on \in U(1)
    BY Widths, <1>4 DEF Bit
  <2>2. on \in U(1)
    BY Widths, <1>4 DEF Bit
  <2>3. QED
    BY <2>1, <2>2 DEF Heavy152_remotes
<1>5. ASSUME NEW on \in Bit PROVE [s EXCEPT !.Filter = on, !.Clean = on] \in Heavy152_remotes
  <2>1. on \in U(1)
    BY Widths, <1>5 DEF Bit
  <2>2. on \in U(1)
    BY Widths, <1>5 DEF Bit
  <2>3. QED
    BY <2>1, <2>2 DEF Heavy152_remotes
<1>6. \A t \in UNION {{Heavy152_setFan(s, v), IF s.Fan = v THEN Heavy152_setFan(s, 0) ELSE s}
          : v \in {kMitsubishiHeavy152FanEcono, kMitsubishiHeavy152FanTurbo}} : t \in
          Heavy152_remotes
  BY Within, BitFits, MinutesFit
     DEF Heavy152_remotes, Heavy152_setFan, kMitsubishiHeavy152FanEcono,
         kMitsubishiHeavy152FanTurbo, OneOf
<1>7. QED
  BY <1>1, <1>2, <1>3, <1>4, <1>5, <1>6, ZenonT(30) DEF Heavy152_options

LEMMA Heavy152Fits == ASSUME NEW s \in Heavy152_remotes PROVE Fits("Heavy152", s)
<1>1. Bits["Heavy152"] = Heavy152_bits
  BY DEF Bits
<1>2. DOMAIN s = DOMAIN Heavy152_bits /\ \A f \in DOMAIN s : s[f] \in U(Heavy152_bits[f])
  BY DEF Heavy152_remotes, Heavy152_bits
<1>3. QED
  BY <1>1, <1>2 DEF Fits

----------------------------------------------------------------------------
(* Heavy88.                                                                *)

Heavy88_remotes ==
  [SwingV5 : U(1), SwingH1 : U(2), Clean : U(1), SwingH2 : U(2), SwingV7 : U(2), Fan : U(3),
   Mode : U(3), Power : U(1), Temp : U(4)]

LEMMA Heavy88ResetTyped == Heavy88_stateReset \in Heavy88_remotes
<1>1. {0} \subseteq U(1) /\ {0} \subseteq U(2) /\ {0} \subseteq U(3) /\ {0} \subseteq U(4)
  BY Widths
<1>2. QED
  BY <1>1 DEF Heavy88_remotes, Heavy88_stateReset, Heavy88_bits

LEMMA Heavy88SetTempTyped ==
  ASSUME NEW s \in Heavy88_remotes, NEW v \in Int
  PROVE  MitsubishiHeavy_setTemp(s, v) \in Heavy88_remotes
<1>1. Clamp(v, kMitsubishiHeavyMinTemp, kMitsubishiHeavyMaxTemp) - kMitsubishiHeavyMinTemp \in
          U(4)
  BY Widths DEF Clamp, kMitsubishiHeavyMaxTemp, kMitsubishiHeavyMinTemp
<1>2. QED
  BY <1>1 DEF Heavy88_remotes, MitsubishiHeavy_setTemp

LEMMA Heavy88SetModeTyped ==
  ASSUME NEW s \in Heavy88_remotes, NEW v
  PROVE  MitsubishiHeavy_setMode(s, v) \in Heavy88_remotes
<1>1. OneOf(v, 1 .. 4, kMitsubishiHeavyAuto) \in U(3)
  BY Widths DEF OneOf, kMitsubishiHeavyAuto
<1>2. QED
  BY <1>1 DEF Heavy88_remotes, MitsubishiHeavy_setMode

LEMMA Heavy88SetFanTyped ==
  ASSUME NEW s \in Heavy88_remotes, NEW v
  PROVE  Heavy88_setFan(s, v) \in Heavy88_remotes
<1>1. OneOf(v, {2, 3, 4, 6, 7}, 0) \in U(3)
  BY Widths DEF OneOf
<1>2. QED
  BY <1>1 DEF Heavy88_remotes, Heavy88_setFan

LEMMA Heavy88SetSwingVerticalTyped ==
  ASSUME NEW s \in Heavy88_remotes, NEW v
  PROVE  Heavy88_setSwingVertical(s, v) \in Heavy88_remotes
<1>1. (LET newpos == OneOf(v, {1, 3, 4, 5, 6, 7}, 0) IN newpos % 2) \in U(1)
  BY Widths DEF OneOf
<1>2. (LET newpos == OneOf(v, {1, 3, 4, 5, 6, 7}, 0) IN newpos \div 2) \in U(2)
  BY Widths DEF OneOf
<1>3. QED
  BY <1>1, <1>2 DEF Heavy88_remotes, Heavy88_setSwingVertical

LEMMA Heavy88SetSwingHorizontalTyped ==
  ASSUME NEW s \in Heavy88_remotes, NEW v
  PROVE  Heavy88_setSwingHorizontal(s, v) \in Heavy88_remotes
<1>1. (LET newpos == OneOf(v, {1, 2, 5, 6, 8, 9, 10, 13, kMitsubishiHeavy88SwingH3D}, 0) IN
          newpos % 4) \in U(2)
  BY Widths DEF OneOf, kMitsubishiHeavy88SwingH3D
<1>2. (LET newpos == OneOf(v, {1, 2, 5, 6, 8, 9, 10, 13, kMitsubishiHeavy88SwingH3D}, 0) IN
          newpos \div 4) \in U(2)
  BY Widths DEF OneOf, kMitsubishiHeavy88SwingH3D
<1>3. QED
  BY <1>1, <1>2 DEF Heavy88_remotes, Heavy88_setSwingHorizontal

LEMMA Heavy88SetparamTyped ==
  ASSUME NEW s \in Heavy88_remotes, NEW r \in Values
  PROVE  Heavy88_setparam(s, r) \in Heavy88_remotes
<1>1. [s EXCEPT !.Power = Truth(r.power)] \in Heavy88_remotes
  BY TruthFits DEF Heavy88_remotes
<1>2. QED
  BY <1>1, ValuesRead, Heavy88SetTempTyped, Heavy88SetModeTyped, Heavy88SetFanTyped
     DEF Heavy88_setparam

LEMMA Heavy88OptionsTyped ==
  ASSUME NEW s \in Heavy88_remotes
  PROVE  \A t \in Heavy88_options(s) : t \in Heavy88_remotes
<1> DEFINE is3D == s.SwingH1 + 4 * s.SwingH2 = kMitsubishiHeavy88SwingH3D
<1>1. ASSUME NEW p \in 0 .. 7 PROVE Heavy88_setSwingVertical(s, p) \in Heavy88_remotes
  BY <1>1, Widths, Heavy88SetSwingVerticalTyped
<1>2. ASSUME NEW p \in 0 .. 15 PROVE Heavy88_setSwingHorizontal(s, p) \in Heavy88_remotes
  BY <1>2, Widths, Heavy88SetSwingHorizontalTyped
<1>3. (IF is3D THEN Heavy88_setSwingHorizontal(s, 0) ELSE s) \in Heavy88_remotes
  BY Widths, Heavy88SetSwingHorizontalTyped
<1>4. \A t \in {Heavy88_setSwingVertical(s, p) : p \in 0 .. 7} \union
          {Heavy88_setSwingHorizontal(s, p) : p \in 0 .. 15} \union {IF is3D THEN
          Heavy88_setSwingHorizontal(s, 0) ELSE s} : t \in Heavy88_remotes
  BY <1>1, <1>2, <1>3, ZenonT(30)
<1>5. \A t \in Toggles(s, {"Clean"}) : t \in Heavy88_remotes
  BY Within, BitFits, MinutesFit DEF Heavy88_remotes, Toggles, Each
<1>6. \A t \in UNION {{Heavy88_setFan(s, v), IF s.Fan = v THEN Heavy88_setFan(s, 0) ELSE s} :
          v \in {kMitsubishiHeavy88FanEcono, kMitsubishiHeavy88FanTurbo}} : t \in Heavy88_remotes
  BY Within, BitFits, MinutesFit
     DEF Heavy88_remotes, Heavy88_setFan, kMitsubishiHeavy88FanEcono, kMitsubishiHeavy88FanTurbo,
         OneOf
<1>7. QED
  BY <1>4, <1>5, <1>6, ZenonT(30) DEF Heavy88_options

LEMMA Heavy88Fits == ASSUME NEW s \in Heavy88_remotes PROVE Fits("Heavy88", s)
<1>1. Bits["Heavy88"] = Heavy88_bits
  BY DEF Bits
<1>2. DOMAIN s = DOMAIN Heavy88_bits /\ \A f \in DOMAIN s : s[f] \in U(Heavy88_bits[f])
  BY DEF Heavy88_remotes, Heavy88_bits
<1>3. QED
  BY <1>1, <1>2 DEF Fits

----------------------------------------------------------------------------
(* Fujitsu.                                                                *)

Fujitsu_remotes ==
  [_temp : U(5), _fanSpeed : U(3), _mode : U(3), _swingMode : U(2), _cmd : U(7), _filter : U(1),
   _clean : U(1), _timertype : U(2), _ontimer : U(11), _offtimer : U(11), _model : U(3)]

LEMMA FujitsuResetTyped == Fujitsu_stateReset \in Fujitsu_remotes
<1>1. {0} \subseteq U(1) /\ {kFujitsuAcSwingBoth, kFujitsuAcStopTimers} \subseteq U(2) /\ {1,
          ARRAH2E} \subseteq U(3) /\ {24} \subseteq U(5) /\ {kFujitsuAcCmdTurnOn} \subseteq U(7)
          /\ {0} \subseteq U(11)
  BY Widths DEF ARRAH2E, kFujitsuAcCmdTurnOn, kFujitsuAcStopTimers, kFujitsuAcSwingBoth
<1>2. QED
  BY <1>1 DEF Fujitsu_remotes, Fujitsu_stateReset

LEMMA FujitsuConvertModeTyped == ASSUME NEW v PROVE Fujitsu_convertMode(v) \in 0 .. 4
BY DEF Fujitsu_convertMode, Lookup, kCool, kDry, kFan, kHeat, :>, @@

LEMMA FujitsuConvertFanTyped == ASSUME NEW v PROVE Fujitsu_convertFan(v) \in 0 .. 4
BY DEF Fujitsu_convertFan, Lookup, kHigh, kLow, kMax, kMedium, kMin, :>, @@

LEMMA FujitsuSetCmdTyped ==
  ASSUME NEW s \in Fujitsu_remotes, NEW v
  PROVE  Fujitsu_setCmd(s, v) \in Fujitsu_remotes
<1>1. s._model \in U(3)
  BY DEF Fujitsu_remotes
<1>2. (LET always == {kFujitsuAcCmdTurnOff, kFujitsuAcCmdTurnOn} \union kFujitsuAcCmdStep
          allowed == always \union (IF s._model \in {ARRAH2E, ARJW2} THEN kFujitsuAcCmdStepHoriz
          ELSE {}) \union (IF s._model = ARREB1E THEN kFujitsuAcCmdExtra ELSE {}) IN OneOf(v,
          allowed, kFujitsuAcCmdStayOn)) \in U(7)
  BY Widths, <1>1
     DEF ARJW2, ARRAH2E, ARREB1E, OneOf, kFujitsuAcCmdExtra, kFujitsuAcCmdStayOn,
         kFujitsuAcCmdStep, kFujitsuAcCmdStepHoriz, kFujitsuAcCmdTurnOff, kFujitsuAcCmdTurnOn
<1>3. QED
  BY <1>2 DEF Fujitsu_remotes, Fujitsu_setCmd

LEMMA FujitsuStayOnTyped == ASSUME NEW s \in Fujitsu_remotes PROVE StayOn(s) \in Fujitsu_remotes
BY FujitsuSetCmdTyped DEF StayOn

LEMMA FujitsuSetPowerTyped ==
  ASSUME NEW s \in Fujitsu_remotes, NEW v
  PROVE  Fujitsu_setPower(s, v) \in Fujitsu_remotes
BY FujitsuSetCmdTyped DEF Fujitsu_setPower

LEMMA FujitsuSetTempTyped ==
  ASSUME NEW s \in Fujitsu_remotes, NEW v \in Int
  PROVE  Fujitsu_setTemp(s, v) \in Fujitsu_remotes
<1>1. [s EXCEPT !._temp = Clamp(v, 16, 30)] \in Fujitsu_remotes
  <2>1. Clamp(v, 16, 30) \in U(5)
    BY Widths DEF Clamp
  <2>2. QED
    BY <2>1 DEF Fujitsu_remotes
<1>2. QED
  BY <1>1, FujitsuSetCmdTyped, FujitsuStayOnTyped DEF Fujitsu_setTemp

LEMMA FujitsuSetFanSpeedTyped ==
  ASSUME NEW s \in Fujitsu_remotes, NEW v \in 0 .. 4
  PROVE  Fujitsu_setFanSpeed(s, v) \in Fujitsu_remotes
<1>1. [s EXCEPT !._fanSpeed = IF v > 4 THEN 1 ELSE v] \in Fujitsu_remotes
  <2>1. (IF v > 4 THEN 1 ELSE v) \in U(3)
    BY Widths
  <2>2. QED
    BY <2>1 DEF Fujitsu_remotes
<1>2. QED
  BY <1>1, FujitsuSetCmdTyped, FujitsuStayOnTyped DEF Fujitsu_setFanSpeed

LEMMA FujitsuSetModeTyped ==
  ASSUME NEW s \in Fujitsu_remotes, NEW v \in 0 .. 4
  PROVE  Fujitsu_setMode(s, v) \in Fujitsu_remotes
<1>1. [s EXCEPT !._mode = Clamp(v, 0, kFujitsuAcModeHeat)] \in Fujitsu_remotes
  <2>1. Clamp(v, 0, kFujitsuAcModeHeat) \in U(3)
    BY Widths DEF Clamp, kFujitsuAcModeHeat
  <2>2. QED
    BY <2>1 DEF Fujitsu_remotes
<1>2. QED
  BY <1>1, FujitsuSetCmdTyped, FujitsuStayOnTyped DEF Fujitsu_setMode

LEMMA FujitsuSetSwingTyped ==
  ASSUME NEW s \in Fujitsu_remotes, NEW v \in 0 .. 4
  PROVE  Fujitsu_setSwing(s, v) \in Fujitsu_remotes
<1>1. [s EXCEPT !._swingMode = Clamp(v, 0, IF s._model \in {ARDB1, ARREB1E, ARRY4} THEN
          kFujitsuAcSwingVert ELSE kFujitsuAcSwingBoth)] \in Fujitsu_remotes
  <2>1. s._model \in U(3)
    BY DEF Fujitsu_remotes
  <2>2. Clamp(v, 0, IF s._model \in {ARDB1, ARREB1E, ARRY4} THEN kFujitsuAcSwingVert ELSE
            kFujitsuAcSwingBoth) \in U(2)
    BY Widths, <2>1 DEF ARDB1, ARREB1E, ARRY4, Clamp, kFujitsuAcSwingBoth, kFujitsuAcSwingVert
  <2>3. QED
    BY <2>2 DEF Fujitsu_remotes
<1>2. QED
  BY <1>1, FujitsuSetCmdTyped, FujitsuStayOnTyped DEF Fujitsu_setSwing

LEMMA FujitsuSetparamTyped ==
  ASSUME NEW s \in Fujitsu_remotes, NEW r \in Values
  PROVE  Fujitsu_setparam(s, r) \in Fujitsu_remotes
BY ValuesRead, FujitsuConvertModeTyped, FujitsuConvertFanTyped, FujitsuSetPowerTyped,
   FujitsuSetModeTyped, FujitsuSetFanSpeedTyped, FujitsuSetTempTyped
   DEF Fujitsu_setparam

LEMMA FujitsuOffTimerTyped ==
  ASSUME NEW s \in Fujitsu_remotes, NEW m \in Minutes, NEW k \in {kFujitsuAcOffTimer, kFujitsuAcSleepTimer}
  PROVE  Fujitsu_offTimer(s, m, k) \in Fujitsu_remotes
<1>1. s._timertype \in U(2)
  BY DEF Fujitsu_remotes
<1>2. (LET new == Clamp(m, 0, kFujitsuAcTimerMax) IN new) \in U(11)
  BY Widths, <1>1 DEF Clamp, kFujitsuAcTimerMax, Minutes, kFujitsuAcOffTimer, kFujitsuAcSleepTimer
<1>3. (LET new == Clamp(m, 0, kFujitsuAcTimerMax) IN CASE m > 0 -> k [] m = 0 /\ TimerType(s)
          # kFujitsuAcOnTimer -> kFujitsuAcStopTimers [] OTHER -> s._timertype) \in U(2)
  BY Widths, <1>1
     DEF Clamp, kFujitsuAcOnTimer, kFujitsuAcStopTimers, kFujitsuAcTimerMax, Minutes,
         kFujitsuAcOffTimer, kFujitsuAcSleepTimer
<1>4. QED
  BY <1>2, <1>3 DEF Fujitsu_remotes, Fujitsu_offTimer

LEMMA FujitsuOptionsTyped ==
  ASSUME NEW s \in Fujitsu_remotes
  PROVE  \A t \in Fujitsu_options(s) : t \in Fujitsu_remotes
<1> DEFINE own1 == {Fujitsu_setCmd(s, c) : c \in kFujitsuAcCmdStep \union
               kFujitsuAcCmdStepHoriz \union kFujitsuAcCmdExtra \union {255}}
           own2 == {Fujitsu_offTimer(s, t, type) : t \in Minutes, type \in
               {kFujitsuAcOffTimer, kFujitsuAcSleepTimer}}
           own3 == {[s EXCEPT !._ontimer = Clamp(t, 0, kFujitsuAcTimerMax), !._timertype =
               CASE t > 0 -> kFujitsuAcOnTimer [] t = 0 /\ TimerType(s) = kFujitsuAcOnTimer ->
               kFujitsuAcStopTimers [] OTHER -> @] : t \in Minutes}
<1>1. Fujitsu_options(s) = Each(s, "_model", {ARRAH2E, ARDB1, ARREB1E, ARJW2, ARRY4}) \union
          own1 \union {Fujitsu_setSwing(s, v) : v \in 0 .. 4} \union {StayOn(t) : t \in Toggles(s,
          {"_clean", "_filter"})} \union own2 \union own3
  BY DEF Fujitsu_options
<1>2. ASSUME NEW c \in kFujitsuAcCmdStep \union kFujitsuAcCmdStepHoriz \union
          kFujitsuAcCmdExtra \union {255}
      PROVE  Fujitsu_setCmd(s, c) \in Fujitsu_remotes
  BY <1>2, Widths, FujitsuSetCmdTyped
<1>3. \A t \in own1 : t \in Fujitsu_remotes
  BY <1>2
<1>4. ASSUME NEW t \in Minutes, NEW type \in {kFujitsuAcOffTimer, kFujitsuAcSleepTimer}
      PROVE  Fujitsu_offTimer(s, t, type) \in Fujitsu_remotes
  BY <1>4, Widths, FujitsuOffTimerTyped
<1>5. \A t \in own2 : t \in Fujitsu_remotes
  BY <1>4
<1>6. ASSUME NEW t \in Minutes
      PROVE  [s EXCEPT !._ontimer = Clamp(t, 0, kFujitsuAcTimerMax), !._timertype = CASE t > 0
          -> kFujitsuAcOnTimer [] t = 0 /\ TimerType(s) = kFujitsuAcOnTimer ->
          kFujitsuAcStopTimers [] OTHER -> @] \in Fujitsu_remotes
  <2>1. s._timertype \in U(2)
    BY DEF Fujitsu_remotes
  <2>2. Clamp(t, 0, kFujitsuAcTimerMax) \in U(11)
    BY Widths, <2>1, <1>6 DEF Clamp, kFujitsuAcTimerMax, Minutes
  <2>3. (CASE t > 0 -> kFujitsuAcOnTimer [] t = 0 /\ TimerType(s) = kFujitsuAcOnTimer ->
            kFujitsuAcStopTimers [] OTHER -> s._timertype) \in U(2)
    BY Widths, <2>1, <1>6 DEF kFujitsuAcOnTimer, kFujitsuAcStopTimers, Minutes
  <2>4. QED
    BY <2>2, <2>3 DEF Fujitsu_remotes
<1>7. \A t \in own3 : t \in Fujitsu_remotes
  BY <1>6
<1> HIDE DEF own1, own2, own3
<1>8. \A t \in Each(s, "_model", {ARRAH2E, ARDB1, ARREB1E, ARJW2, ARRY4}) : t \in Fujitsu_remotes
  BY Within, BitFits, MinutesFit DEF Fujitsu_remotes, ARDB1, ARJW2, ARRAH2E, ARREB1E, ARRY4, Each
<1>9. ASSUME NEW v \in 0 .. 4 PROVE Fujitsu_setSwing(s, v) \in Fujitsu_remotes
  BY <1>9, Widths, FujitsuSetCmdTyped, FujitsuStayOnTyped, FujitsuSetSwingTyped
<1>10. ASSUME NEW t \in Toggles(s, {"_clean", "_filter"}) PROVE StayOn(t) \in Fujitsu_remotes
  <2>1. t \in Fujitsu_remotes
    BY <1>10, Within, BitFits DEF Fujitsu_remotes, Toggles, Each
  <2>2. QED
    BY <2>1, FujitsuStayOnTyped
<1>11. QED
  BY <1>3, <1>5, <1>7, <1>8, <1>9, <1>10, <1>1, ZenonT(30)

LEMMA FujitsuFits == ASSUME NEW s \in Fujitsu_remotes PROVE Fits("Fujitsu", s)
<1>1. Bits["Fujitsu"] = Fujitsu_bits
  BY DEF Bits
<1>2. DOMAIN s = DOMAIN Fujitsu_bits /\ \A f \in DOMAIN s : s[f] \in U(Fujitsu_bits[f])
  BY DEF Fujitsu_remotes, Fujitsu_bits
<1>3. QED
  BY <1>1, <1>2 DEF Fits

----------------------------------------------------------------------------
(* Panasonic.                                                              *)

Panasonic_remotes ==
  [Power : U(1), OnTimer : U(1), OffTimer : U(1), bit3 : U(1), Mode : U(3), Temp : U(5),
   Fan : U(4), SwingV : U(4), raw17 : U(8), OnTime : U(11), OffTime : U(11), bit21_0 : U(1),
   bit21_4 : U(1), bit21_5 : U(1), Ion : U(1), raw23 : U(8), Clock : U(11), _temp : U(5),
   _swingh : U(4)]

LEMMA PanasonicResetTyped == Panasonic_stateReset \in Panasonic_remotes
<1>1. {0} \subseteq U(1) /\ {0} \subseteq U(3) /\ {0, kPanasonicAcSwingHMiddle} \subseteq U(4)
          /\ {0, 25} \subseteq U(5) /\ {0, 129} \subseteq U(8) /\ {kPanasonicAcTimeSpecial, 0}
          \subseteq U(11)
  BY Widths DEF kPanasonicAcSwingHMiddle, kPanasonicAcTimeSpecial
<1>2. QED
  BY <1>1 DEF Panasonic_remotes, Panasonic_stateReset

LEMMA PanasonicSetTempTyped ==
  ASSUME NEW s \in Panasonic_remotes, NEW v \in Int
  PROVE  Panasonic_setTemp(s, v, TRUE) \in Panasonic_remotes
<1>1. s._temp \in U(5)
  BY DEF Panasonic_remotes
<1>2. (LET t == Clamp(v, 16, 30) IN t) \in U(5)
  BY Widths, <1>1 DEF Clamp
<1>3. (LET t == Clamp(v, 16, 30) IN IF TRUE THEN t ELSE s._temp) \in U(5)
  BY Widths, <1>1 DEF Clamp
<1>4. QED
  BY <1>2, <1>3 DEF Panasonic_remotes, Panasonic_setTemp

LEMMA PanasonicPassTempTyped ==
  ASSUME NEW s \in Panasonic_remotes, NEW v \in Int
  PROVE  Panasonic_setTemp(s, v, FALSE) \in Panasonic_remotes
<1>1. s._temp \in U(5)
  BY DEF Panasonic_remotes
<1>2. (LET t == Clamp(v, 16, 30) IN t) \in U(5)
  BY Widths, <1>1 DEF Clamp
<1>3. (LET t == Clamp(v, 16, 30) IN IF FALSE THEN t ELSE s._temp) \in U(5)
  BY Widths, <1>1 DEF Clamp
<1>4. QED
  BY <1>2, <1>3 DEF Panasonic_remotes, Panasonic_setTemp

LEMMA PanasonicSetFanTyped ==
  ASSUME NEW s \in Panasonic_remotes, NEW v
  PROVE  Panasonic_setFan(s, v) \in Panasonic_remotes
<1>1. (OneOf(v, {0, 2, 4, 7}, kPanasonicAcFanAuto) + kPanasonicAcFanDelta) % 16 \in U(4)
  BY Widths DEF OneOf, kPanasonicAcFanAuto, kPanasonicAcFanDelta
<1>2. QED
  BY <1>1 DEF Panasonic_remotes, Panasonic_setFan

LEMMA PanasonicSetModeTyped ==
  ASSUME NEW s \in Panasonic_remotes, NEW v
  PROVE  Panasonic_setMode(s, v) \in Panasonic_remotes
<1>1. s._temp \in U(5)
  BY DEF Panasonic_remotes
<1>2. s._temp \in Int /\ {0, 2, 3, 4, kPanasonicAcFan} \subseteq U(3)
  BY <1>1, Widths DEF kPanasonicAcFan
<1>3. \A t \in Panasonic_remotes, m \in {0, 2, 3, 4, kPanasonicAcFan} :
        [t EXCEPT !.Mode = m] \in Panasonic_remotes
  BY <1>2 DEF Panasonic_remotes
<1>4. Panasonic_setTemp(s, s._temp, TRUE) \in Panasonic_remotes
  BY <1>2, PanasonicSetTempTyped
<1>5. Panasonic_setTemp(s, kPanasonicAcFanModeTemp, FALSE) \in Panasonic_remotes
  <2>1. kPanasonicAcFanModeTemp \in Int
    BY DEF kPanasonicAcFanModeTemp
  <2>2. QED
    BY <2>1, PanasonicPassTempTyped, Zenon
<1>6. QED
  BY <1>3, <1>4, <1>5 DEF Panasonic_setMode

LEMMA PanasonicSetparamTyped ==
  ASSUME NEW s \in Panasonic_remotes, NEW r \in Values
  PROVE  Panasonic_setparam(s, r) \in Panasonic_remotes
<1>1. [s EXCEPT !.Power = Truth(r.power)] \in Panasonic_remotes
  BY TruthFits DEF Panasonic_remotes
<1>2. QED
  BY <1>1, ValuesRead, PanasonicSetTempTyped, PanasonicPassTempTyped, PanasonicSetFanTyped,
     PanasonicSetModeTyped
     DEF Panasonic_setparam

LEMMA PanasonicSetQuietTyped ==
  ASSUME NEW s \in Panasonic_remotes, NEW v \in Bit
  PROVE  Panasonic_setQuiet(s, v) \in Panasonic_remotes
<1>1. [s EXCEPT !.bit21_5 = v, !.bit21_0 = IF v = 1 THEN 0 ELSE @] \in Panasonic_remotes
  <2>1. s.bit21_0 \in U(1)
    BY DEF Panasonic_remotes
  <2>2. v \in U(1)
    BY Widths, <2>1 DEF Bit
  <2>3. (IF v = 1 THEN 0 ELSE s.bit21_0) \in U(1)
    BY Widths, <2>1 DEF Bit
  <2>4. QED
    BY <2>2, <2>3 DEF Panasonic_remotes
<1>2. [s EXCEPT !.bit21_0 = v, !.bit21_5 = IF v = 1 THEN 0 ELSE @] \in Panasonic_remotes
  <2>1. s.bit21_5 \in U(1)
    BY DEF Panasonic_remotes
  <2>2. v \in U(1)
    BY Widths, <2>1 DEF Bit
  <2>3. (IF v = 1 THEN 0 ELSE s.bit21_5) \in U(1)
    BY Widths, <2>1 DEF Bit
  <2>4. QED
    BY <2>2, <2>3 DEF Panasonic_remotes
<1>3. QED
  BY <1>1, <1>2 DEF Panasonic_setQuiet

LEMMA PanasonicSetPowerfulTyped ==
  ASSUME NEW s \in Panasonic_remotes, NEW v \in Bit
  PROVE  Panasonic_setPowerful(s, v) \in Panasonic_remotes
<1>1. [s EXCEPT !.bit21_0 = v, !.bit21_5 = IF v = 1 THEN 0 ELSE @] \in Panasonic_remotes
  <2>1. s.bit21_5 \in U(1)
    BY DEF Panasonic_remotes
  <2>2. v \in U(1)
    BY Widths, <2>1 DEF Bit
  <2>3. (IF v = 1 THEN 0 ELSE s.bit21_5) \in U(1)
    BY Widths, <2>1 DEF Bit
  <2>4. QED
    BY <2>2, <2>3 DEF Panasonic_remotes
<1>2. [s EXCEPT !.bit21_5 = v, !.bit21_0 = IF v = 1 THEN 0 ELSE @] \in Panasonic_remotes
  <2>1. s.bit21_0 \in U(1)
    BY DEF Panasonic_remotes
  <2>2. v \in U(1)
    BY Widths, <2>1 DEF Bit
  <2>3. (IF v = 1 THEN 0 ELSE s.bit21_0) \in U(1)
    BY Widths, <2>1 DEF Bit
  <2>4. QED
    BY <2>2, <2>3 DEF Panasonic_remotes
<1>3. QED
  BY <1>1, <1>2 DEF Panasonic_setPowerful

LEMMA PanasonicSetIonTyped ==
  ASSUME NEW s \in Panasonic_remotes, NEW v \in Bit
  PROVE  Panasonic_setIon(s, v) \in Panasonic_remotes
<1>1. s.Ion \in U(1)
  BY DEF Panasonic_remotes
<1>2. (IF Panasonic_getModel(s) = kPanasonicDke THEN v ELSE s.Ion) \in U(1)
  BY Widths, <1>1 DEF kPanasonicDke, Bit
<1>3. QED
  BY <1>2 DEF Panasonic_remotes, Panasonic_setIon

LEMMA PanasonicSetSwingHorizontalTyped ==
  ASSUME NEW s \in Panasonic_remotes, NEW v
  PROVE  Panasonic_setSwingHorizontal(s, v) \in Panasonic_remotes
<1> DEFINE known == v \in {6, 9, 10, 11, 12, 13}
           kept == [s EXCEPT !._swingh = IF known THEN v ELSE @]
           low(n) == [kept EXCEPT !.raw17 = (@ \div 16) * 16 + n]
<1>1. s._swingh \in U(4)
  BY DEF Panasonic_remotes
<1>2. (IF known THEN v ELSE s._swingh) \in U(4)
  BY <1>1, Widths
<1>3. kept \in Panasonic_remotes
  BY <1>2 DEF Panasonic_remotes
<1> HIDE DEF kept
<1>4. ASSUME NEW n \in 0 .. 15 PROVE low(n) \in Panasonic_remotes
  <2>1. kept.raw17 \in U(8)
    BY <1>3 DEF Panasonic_remotes
  <2>2. (kept.raw17 \div 16) * 16 + n \in U(8)
    BY <2>1, Widths
  <2>3. QED
    BY <1>3, <2>2 DEF Panasonic_remotes
<1>5. known => low(v) \in Panasonic_remotes
  BY <1>4
<1>6. low(kPanasonicAcSwingHMiddle) \in Panasonic_remotes
  BY <1>4 DEF kPanasonicAcSwingHMiddle
<1> HIDE DEF known, low
<1>7. QED
  BY <1>3, <1>5, <1>6, Zenon DEF Panasonic_setSwingHorizontal, known, kept, low

LEMMA PanasonicSetModelTyped ==
  ASSUME NEW s \in Panasonic_remotes, NEW v
  PROVE  Panasonic_setModel(s, v) \in Panasonic_remotes
<1>1. s.Clock \in U(11)
  BY DEF Panasonic_remotes
<1>2. s.Clock % 256 \in U(11) /\ s.Clock % 256 \in U(8)
  BY <1>1, LowByte, Zenon
<1>3. /\ 0 \in U(1) /\ 1 \in U(1) /\ 0 \in U(8) /\ 1 \in U(8) /\ 6 \in U(8)
      /\ 129 \in U(8) /\ 137 \in U(8)
  BY Widths
<1> DEFINE cleared == [s EXCEPT !.Power = 0, !.OnTimer = 0, !.OffTimer = 0, !.bit3 = 0, !.raw17 = 0,
                                !.bit21_4 = 0, !.raw23 = 129, !.Clock = @ % 256]
<1>4. cleared \in Panasonic_remotes
  <2>1. ASSUME NEW off \in U(1), NEW a \in U(8), NEW b \in U(8), NEW c \in U(11)
        PROVE  [s EXCEPT !.Power = off, !.OnTimer = off, !.OffTimer = off, !.bit3 = off,
                         !.raw17 = a, !.bit21_4 = off, !.raw23 = b, !.Clock = c]
                 \in Panasonic_remotes
    BY DEF Panasonic_remotes
  <2>2. QED
    BY <1>2, <1>3, <2>1, ZenonT(30)
<1>5. cleared.Clock = s.Clock % 256
  BY DEF Panasonic_remotes
<1>6. cleared.Clock + 6 * 256 \in U(11)
  BY <1>2, <1>5, Widths
<1> HIDE DEF cleared
<1>7. /\ [cleared EXCEPT !.OnTimer = 1, !.raw17 = 6] \in Panasonic_remotes
      /\ [cleared EXCEPT !.raw17 = 6] \in Panasonic_remotes
      /\ [cleared EXCEPT !.bit21_4 = 1, !.raw23 = 1] \in Panasonic_remotes
      /\ [cleared EXCEPT !.bit3 = 1, !.raw23 = 137] \in Panasonic_remotes
  <2>1. ASSUME NEW on \in U(1), NEW b \in U(8)
        PROVE  /\ [cleared EXCEPT !.OnTimer = on, !.raw17 = b] \in Panasonic_remotes
               /\ [cleared EXCEPT !.raw17 = b] \in Panasonic_remotes
               /\ [cleared EXCEPT !.bit21_4 = on, !.raw23 = b] \in Panasonic_remotes
               /\ [cleared EXCEPT !.bit3 = on, !.raw23 = b] \in Panasonic_remotes
    BY <1>4 DEF Panasonic_remotes
  <2>2. QED
    BY <1>3, <2>1, Zenon
<1>8. [cleared EXCEPT !.raw23 = 1, !.Clock = @ + 6 * 256] \in Panasonic_remotes
  <2>1. ASSUME NEW b \in U(8), NEW c \in U(11)
        PROVE  [cleared EXCEPT !.raw23 = b, !.Clock = c] \in Panasonic_remotes
    BY <1>4 DEF Panasonic_remotes
  <2>2. QED
    BY <1>3, <1>6, <2>1, Zenon
<1>9. Panasonic_setSwingHorizontal([cleared EXCEPT !.raw23 = 1, !.Clock = @ + 6 * 256], s._swingh)
        \in Panasonic_remotes
  BY <1>8, PanasonicSetSwingHorizontalTyped
<1>10. QED
  BY <1>4, <1>7, <1>9 DEF Panasonic_setModel, cleared

LEMMA PanasonicTimeTyped ==
  ASSUME NEW m \in Panasonic_times
  PROVE  Panasonic_time(m, TRUE) \in U(11) /\ Panasonic_time(m, FALSE) \in U(11)
<1>1. m \in {0, 605, 1439, 1440, 1536}
  BY DEF Panasonic_times, Minutes, kPanasonicAcTimeSpecial
<1>2. QED
  BY <1>1, Widths DEF Panasonic_time, Clamp, kPanasonicAcTimeMax, kPanasonicAcTimeSpecial

LEMMA PanasonicSetOnTimerTyped ==
  ASSUME NEW s \in Panasonic_remotes, NEW m \in Panasonic_times, NEW v \in {0, 1}
  PROVE  Panasonic_setOnTimer(s, m, v) \in Panasonic_remotes
<1>1. v \in U(1)
  BY Widths
<1>2. Panasonic_time(m, TRUE) \in U(11)
  BY PanasonicTimeTyped, Zenon
<1>3. QED
  BY <1>1, <1>2 DEF Panasonic_remotes, Panasonic_setOnTimer

LEMMA PanasonicSetOffTimerTyped ==
  ASSUME NEW s \in Panasonic_remotes, NEW m \in Panasonic_times, NEW v \in {0, 1}
  PROVE  Panasonic_setOffTimer(s, m, v) \in Panasonic_remotes
<1>1. v \in U(1)
  BY Widths
<1>2. Panasonic_time(m, TRUE) \in U(11)
  BY PanasonicTimeTyped, Zenon
<1>3. QED
  BY <1>1, <1>2 DEF Panasonic_remotes, Panasonic_setOffTimer

LEMMA PanasonicOptionsTyped ==
  ASSUME NEW s \in Panasonic_remotes
  PROVE  \A t \in Panasonic_options(s) : t \in Panasonic_remotes
<1>1. ASSUME NEW on \in Bit PROVE Panasonic_setQuiet(s, on) \in Panasonic_remotes
  BY <1>1, Widths, PanasonicSetQuietTyped
<1>2. ASSUME NEW on \in Bit PROVE Panasonic_setPowerful(s, on) \in Panasonic_remotes
  BY <1>2, Widths, PanasonicSetPowerfulTyped
<1>3. ASSUME NEW on \in Bit PROVE Panasonic_setIon(s, on) \in Panasonic_remotes
  BY <1>3, Widths, PanasonicSetIonTyped
<1>4. ASSUME NEW v \in 0 .. 6 PROVE Panasonic_setModel(s, v) \in Panasonic_remotes
  BY <1>4, Widths, PanasonicSetSwingHorizontalTyped, PanasonicSetModelTyped
<1>5. ASSUME NEW v \in {0, 1, 3, 5, 6, 15}
      PROVE  [s EXCEPT !.SwingV = IF v = 15 THEN v ELSE Clamp(v, 1, 5)] \in Panasonic_remotes
  <2>1. (IF v = 15 THEN v ELSE Clamp(v, 1, 5)) \in U(4)
    BY Widths, <1>5 DEF Clamp
  <2>2. QED
    BY <2>1 DEF Panasonic_remotes
<1>6. \A t \in {Panasonic_setQuiet(s, on) : on \in Bit} \union {Panasonic_setPowerful(s, on) :
          on \in Bit} \union {Panasonic_setIon(s, on) : on \in Bit} \union {Panasonic_setModel(s,
          v) : v \in 0 .. 6} \union {[s EXCEPT !.SwingV = IF v = 15 THEN v ELSE Clamp(v, 1, 5)] :
          v \in {0, 1, 3, 5, 6, 15}} : t \in Panasonic_remotes
  BY <1>1, <1>2, <1>3, <1>4, <1>5, ZenonT(30)
<1>7. ASSUME NEW v \in {0, 6, 9, 12, 13}
      PROVE  Panasonic_setSwingHorizontal(s, v) \in Panasonic_remotes
  BY <1>7, Widths, PanasonicSetSwingHorizontalTyped
<1>8. ASSUME NEW t \in Panasonic_times
      PROVE  [s EXCEPT !.Clock = Panasonic_time(t, FALSE)] \in Panasonic_remotes
  <2>1. Panasonic_time(t, FALSE) \in U(11)
    BY PanasonicTimeTyped, <1>8, Zenon
  <2>2. QED
    BY <2>1 DEF Panasonic_remotes
<1>9. ASSUME NEW t \in Panasonic_times PROVE Panasonic_setOnTimer(s, t, 0) \in Panasonic_remotes
  BY <1>9, Widths, Binary, PanasonicTimeTyped, PanasonicSetOnTimerTyped
<1>10. ASSUME NEW t \in Panasonic_times PROVE Panasonic_setOnTimer(s, t, 1) \in Panasonic_remotes
  BY <1>10, Widths, Binary, PanasonicTimeTyped, PanasonicSetOnTimerTyped
<1>11. \A t \in {Panasonic_setQuiet(s, on) : on \in Bit} \union {Panasonic_setPowerful(s, on)
           : on \in Bit} \union {Panasonic_setIon(s, on) : on \in Bit} \union
           {Panasonic_setModel(s, v) : v \in 0 .. 6} \union {[s EXCEPT !.SwingV = IF v = 15 THEN v
           ELSE Clamp(v, 1, 5)] : v \in {0, 1, 3, 5, 6, 15}} \union
           {Panasonic_setSwingHorizontal(s, v) : v \in {0, 6, 9, 12, 13}} \union {[s EXCEPT
           !.Clock = Panasonic_time(t, FALSE)] : t \in Panasonic_times} \union
           {Panasonic_setOnTimer(s, t, 0) : t \in Panasonic_times} \union {Panasonic_setOnTimer(s,
           t, 1) : t \in Panasonic_times} : t \in Panasonic_remotes
  BY <1>6, <1>7, <1>8, <1>9, <1>10, ZenonT(30)
<1>12. ASSUME NEW t \in Panasonic_times PROVE Panasonic_setOffTimer(s, t, 0) \in Panasonic_remotes
  BY <1>12, Widths, Binary, PanasonicTimeTyped, PanasonicSetOffTimerTyped
<1>13. ASSUME NEW t \in Panasonic_times PROVE Panasonic_setOffTimer(s, t, 1) \in Panasonic_remotes
  BY <1>13, Widths, Binary, PanasonicTimeTyped, PanasonicSetOffTimerTyped
<1>14. QED
  BY <1>11, <1>12, <1>13, ZenonT(30) DEF Panasonic_options

LEMMA PanasonicFits == ASSUME NEW s \in Panasonic_remotes PROVE Fits("Panasonic", s)
<1>1. Bits["Panasonic"] = Panasonic_bits
  BY DEF Bits
<1>2. DOMAIN s = DOMAIN Panasonic_bits /\ \A f \in DOMAIN s : s[f] \in U(Panasonic_bits[f])
  BY DEF Panasonic_remotes, Panasonic_bits
<1>3. QED
  BY <1>1, <1>2 DEF Fits

----------------------------------------------------------------------------
(* Sanyo.                                                                  *)

Sanyo_remotes ==
  [Temp : U(5), SensorTemp : U(5), Beep : U(1), OffHour : U(4), OffTimer : U(1), Mode : U(3),
   Fan : U(2), Power : U(2), SwingV : U(3), Sleep : U(1)]

LEMMA SanyoResetTyped == Sanyo_stateReset \in Sanyo_remotes
<1>1. {1, 0} \subseteq U(1) /\ {0, kSanyoAcPowerOff} \subseteq U(2) /\ {1, 5} \subseteq U(3)
          /\ {0} \subseteq U(4) /\ {13, 17} \subseteq U(5)
  BY Widths DEF kSanyoAcPowerOff
<1>2. QED
  BY <1>1 DEF Sanyo_remotes, Sanyo_stateReset

LEMMA SanyoConvertModeTyped == ASSUME NEW v PROVE Sanyo_convertMode(v) \in 1 .. 4
BY DEF Sanyo_convertMode, Lookup, kCool, kDry, kHeat, :>, @@

LEMMA SanyoConvertFanTyped == ASSUME NEW v PROVE Sanyo_convertFan(v) \in 0 .. 3
BY DEF Sanyo_convertFan, Lookup, kHigh, kLow, kMax, kMedium, kMin, :>, @@

LEMMA SanyoSetparamTyped ==
  ASSUME NEW s \in Sanyo_remotes, NEW v \in Values
  PROVE  Sanyo_setparam(s, v) \in Sanyo_remotes
<1>1. (IF v.power # 0 THEN kSanyoAcPowerOn ELSE kSanyoAcPowerOff) \in U(2)
  BY Widths, ValuesRead DEF kSanyoAcPowerOff, kSanyoAcPowerOn
<1>2. Sanyo_convertMode(v.mode) \in U(3)
  BY Widths, ValuesRead, SanyoConvertModeTyped
<1>3. Sanyo_convertFan(v.fan) \in U(2)
  BY Widths, ValuesRead, SanyoConvertFanTyped
<1>4. Sanyo_temp(v.temp) \in U(5)
  BY Widths, ValuesRead DEF Sanyo_temp, Clamp, kSanyoAcTempDelta
<1>5. QED
  BY <1>1, <1>2, <1>3, <1>4 DEF Sanyo_remotes, Sanyo_setparam

LEMMA SanyoSetOffTimerTyped ==
  ASSUME NEW s \in Sanyo_remotes, NEW v \in Minutes
  PROVE  Sanyo_setOffTimer(s, v) \in Sanyo_remotes
<1> DEFINE hours == Clamp((v \div 60) % 256, 0, kSanyoAcHourMax)
<1>1. hours \in U(4)
  BY Widths DEF Clamp, kSanyoAcHourMax, Minutes
<1> HIDE DEF hours
<1>2. [s EXCEPT !.OffTimer = BitOf(hours > 0), !.OffHour = hours] \in Sanyo_remotes
  <2>1. BitOf(hours > 0) \in U(1)
    BY Widths DEF BitOf
  <2>2. QED
    BY <1>1, <2>1 DEF Sanyo_remotes
<1>3. QED
  BY <1>2 DEF Sanyo_setOffTimer, hours

LEMMA SanyoOptionsTyped ==
  ASSUME NEW s \in Sanyo_remotes
  PROVE  \A t \in Sanyo_options(s) : t \in Sanyo_remotes
<1> DEFINE own1 == {[s EXCEPT !.SensorTemp = (@ \div 8) * 8 + 4 * on + (@ % 4)] : on \in Bit}
           own2 == {[s EXCEPT !.SensorTemp = Sanyo_temp(t)] : t \in {0, 16, 20, 25, 30, 255}}
<1>1. Sanyo_options(s) = Toggles(s, {"Sleep", "Beep"}) \union own1 \union own2 \union {[s
          EXCEPT !.SwingV = OneOf(v, {0} \union (2 .. 7), 0)] : v \in 0 .. 8} \union
          {Sanyo_setOffTimer(s, t) : t \in Minutes}
  BY DEF Sanyo_options
<1>2. ASSUME NEW on \in Bit
      PROVE  [s EXCEPT !.SensorTemp = (@ \div 8) * 8 + 4 * on + (@ % 4)] \in Sanyo_remotes
  <2>1. s.SensorTemp \in U(5)
    BY DEF Sanyo_remotes
  <2>2. (s.SensorTemp \div 8) * 8 + 4 * on + (s.SensorTemp % 4) \in U(5)
    BY Widths, <2>1, <1>2 DEF Bit
  <2>3. QED
    BY <2>2 DEF Sanyo_remotes
<1>3. \A t \in own1 : t \in Sanyo_remotes
  BY <1>2
<1>4. ASSUME NEW t \in {0, 16, 20, 25, 30, 255}
      PROVE  [s EXCEPT !.SensorTemp = Sanyo_temp(t)] \in Sanyo_remotes
  <2>1. Sanyo_temp(t) \in U(5)
    BY Widths, <1>4 DEF Sanyo_temp, Clamp, kSanyoAcTempDelta
  <2>2. QED
    BY <2>1 DEF Sanyo_remotes
<1>5. \A t \in own2 : t \in Sanyo_remotes
  BY <1>4
<1> HIDE DEF own1, own2
<1>6. \A t \in Toggles(s, {"Sleep", "Beep"}) : t \in Sanyo_remotes
  BY Within, BitFits, MinutesFit DEF Sanyo_remotes, Toggles, Each
<1>7. ASSUME NEW v \in 0 .. 8
      PROVE  [s EXCEPT !.SwingV = OneOf(v, {0} \union (2 .. 7), 0)] \in Sanyo_remotes
  <2>1. OneOf(v, {0} \union (2 .. 7), 0) \in U(3)
    BY Widths, <1>7 DEF OneOf
  <2>2. QED
    BY <2>1 DEF Sanyo_remotes
<1>8. ASSUME NEW t \in Minutes PROVE Sanyo_setOffTimer(s, t) \in Sanyo_remotes
  BY <1>8, Widths, SanyoSetOffTimerTyped
<1>9. QED
  BY <1>3, <1>5, <1>6, <1>7, <1>8, <1>1, ZenonT(30)

LEMMA SanyoFits == ASSUME NEW s \in Sanyo_remotes PROVE Fits("Sanyo", s)
<1>1. Bits["Sanyo"] = Sanyo_bits
  BY DEF Bits
<1>2. DOMAIN s = DOMAIN Sanyo_bits /\ \A f \in DOMAIN s : s[f] \in U(Sanyo_bits[f])
  BY DEF Sanyo_remotes, Sanyo_bits
<1>3. QED
  BY <1>1, <1>2 DEF Fits

----------------------------------------------------------------------------
(* Toshiba.                                                                *)

Toshiba_remotes ==
  [length : U(3), Temp : U(4), Fan : U(3), Mode : U(3), EcoTurbo : U(2), prev_mode : U(3),
   _send_swing : U(1), _swing_mode : U(2)]

LEMMA ToshibaResetTyped == Toshiba_stateReset \in Toshiba_remotes
<1>1. {1} \subseteq U(1) /\ {0, 2} \subseteq U(2) /\ {3, 0} \subseteq U(3) /\ {5} \subseteq U(4)
  BY Widths
<1>2. QED
  BY <1>1 DEF Toshiba_remotes, Toshiba_stateReset

LEMMA ToshibaConvertFanTyped == ASSUME NEW v PROVE Toshiba_convertFan(v) \in 0 .. 5
BY DEF Toshiba_convertFan, OneOf, kMax, kMin

LEMMA ToshibaSetStateLengthTyped ==
  ASSUME NEW s \in Toshiba_remotes, NEW v \in {kToshibaACStateLength, kToshibaACStateLengthLong}
  PROVE  Toshiba_setStateLength(s, v) \in Toshiba_remotes
<1>1. v - kToshibaAcMinLength \in U(3)
  BY Widths DEF kToshibaAcMinLength, kToshibaACStateLength, kToshibaACStateLengthLong
<1>2. QED
  BY <1>1 DEF Toshiba_remotes, Toshiba_setStateLength

LEMMA ToshibaSetModeTyped ==
  ASSUME NEW s \in Toshiba_remotes, NEW v
  PROVE  Toshiba_setMode(s, v) \in Toshiba_remotes
<1> DEFINE m == IF v \in (kToshibaAcAuto .. kToshibaAcFan) \union {kToshibaAcOff} THEN v
                ELSE kToshibaAcAuto
           sized == IF {v, m} # {s.prev_mode} THEN Toshiba_setStateLength(s, kToshibaACStateLength)
                    ELSE s
<1>1. m \in U(3)
  BY Widths DEF kToshibaAcAuto, kToshibaAcFan, kToshibaAcOff
<1>2. sized \in Toshiba_remotes
  BY ToshibaSetStateLengthTyped
<1> HIDE DEF m, sized
<1>3. sized.prev_mode \in U(3)
  BY <1>2 DEF Toshiba_remotes
<1>4. [sized EXCEPT !.Mode = m, !.prev_mode = IF m = kToshibaAcOff THEN @ ELSE m]
        \in Toshiba_remotes
  BY <1>1, <1>2, <1>3 DEF Toshiba_remotes
<1>5. QED
  BY <1>4 DEF Toshiba_setMode, m, sized

LEMMA ToshibaSetPowerTyped ==
  ASSUME NEW s \in Toshiba_remotes, NEW v
  PROVE  Toshiba_setPower(s, v) \in Toshiba_remotes
BY ToshibaSetModeTyped DEF Toshiba_setPower

LEMMA ToshibaSetTempTyped ==
  ASSUME NEW s \in Toshiba_remotes, NEW v \in Int
  PROVE  Toshiba_setTemp(s, v) \in Toshiba_remotes
<1>1. Clamp(v, 17, 30) - 17 \in U(4)
  BY Widths DEF Clamp
<1>2. QED
  BY <1>1 DEF Toshiba_remotes, Toshiba_setTemp

LEMMA ToshibaSetFanTyped ==
  ASSUME NEW s \in Toshiba_remotes, NEW v \in 0 .. 5
  PROVE  Toshiba_setFan(s, v) \in Toshiba_remotes
<1>1. (LET fan == Clamp(v, 0, kToshibaAcFanMax) IN IF fan > 0 THEN fan + 1 ELSE fan) \in U(3)
  BY Widths DEF Clamp, kToshibaAcFanMax
<1>2. QED
  BY <1>1 DEF Toshiba_remotes, Toshiba_setFan

LEMMA ToshibaSetparamTyped ==
  ASSUME NEW s \in Toshiba_remotes, NEW r \in Values
  PROVE  Toshiba_setparam(s, r) \in Toshiba_remotes
BY ValuesRead, ToshibaConvertFanTyped, ToshibaSetPowerTyped, ToshibaSetModeTyped,
   ToshibaSetFanTyped, ToshibaSetTempTyped
   DEF Toshiba_setparam

LEMMA ToshibaSetSpecialTyped ==
  ASSUME NEW s \in Toshiba_remotes, NEW v, NEW a \in {kToshibaAcTurboOn, kToshibaAcEconoOn}, NEW b
  PROVE  Toshiba_setSpecial(s, v, a, b) \in Toshiba_remotes
<1>1. a \in U(2)
  BY Widths DEF kToshibaAcTurboOn, kToshibaAcEconoOn
<1>2. [s EXCEPT !.EcoTurbo = a] \in Toshiba_remotes
  BY <1>1 DEF Toshiba_remotes
<1>3. QED
  BY <1>2, ToshibaSetStateLengthTyped DEF Toshiba_setSpecial

LEMMA ToshibaSetTurboTyped ==
  ASSUME NEW s \in Toshiba_remotes, NEW v
  PROVE  Toshiba_setTurbo(s, v) \in Toshiba_remotes
BY ToshibaSetSpecialTyped DEF Toshiba_setTurbo

LEMMA ToshibaSetEconoTyped ==
  ASSUME NEW s \in Toshiba_remotes, NEW v
  PROVE  Toshiba_setEcono(s, v) \in Toshiba_remotes
BY ToshibaSetSpecialTyped DEF Toshiba_setEcono

LEMMA ToshibaOptionsTyped ==
  ASSUME NEW s \in Toshiba_remotes
  PROVE  \A t \in Toshiba_options(s) : t \in Toshiba_remotes
<1>1. ASSUME NEW on \in Bit PROVE Toshiba_setTurbo(s, on) \in Toshiba_remotes
  BY <1>1, Widths, ToshibaSetStateLengthTyped, ToshibaSetSpecialTyped, ToshibaSetTurboTyped
<1>2. ASSUME NEW on \in Bit PROVE Toshiba_setEcono(s, on) \in Toshiba_remotes
  BY <1>2, Widths, ToshibaSetStateLengthTyped, ToshibaSetSpecialTyped, ToshibaSetEconoTyped
<1>3. ASSUME NEW on \in Bit PROVE Toshiba_setPower(s, on) \in Toshiba_remotes
  BY <1>3, Widths, ToshibaSetStateLengthTyped, ToshibaSetModeTyped, ToshibaSetPowerTyped
<1>4. ASSUME NEW v \in 0 .. 3
      PROVE  (IF v > 2 THEN s ELSE [s EXCEPT !._send_swing = 1, !._swing_mode = v]) \in Toshiba_remotes
  <2>1. v \in U(2) /\ 1 \in U(1)
    BY <1>4, Widths
  <2>2. QED
    BY <2>1 DEF Toshiba_remotes
<1>5. QED
  BY <1>1, <1>2, <1>3, <1>4, ZenonT(30) DEF Toshiba_options

LEMMA ToshibaSentTyped ==
  ASSUME NEW s \in Toshiba_remotes
  PROVE  Toshiba_sent(s) \in Toshiba_remotes
<1>1. 0 \in U(1)
  BY Widths
<1>2. QED
  BY <1>1 DEF Toshiba_remotes, Toshiba_sent

LEMMA ToshibaFits == ASSUME NEW s \in Toshiba_remotes PROVE Fits("Toshiba", s)
<1>1. Bits["Toshiba"] = Toshiba_bits
  BY DEF Bits
<1>2. DOMAIN s = DOMAIN Toshiba_bits /\ \A f \in DOMAIN s : s[f] \in U(Toshiba_bits[f])
  BY DEF Toshiba_remotes, Toshiba_bits
<1>3. QED
  BY <1>1, <1>2 DEF Fits

----------------------------------------------------------------------------
(* Sharp.                                                                  *)

Sharp_remotes ==
  [Temp : U(8), PowerSpecial : U(4), Mode : U(2), Clean : U(1), Fan : U(3), TimerHours : U(4),
   TimerType : U(1), TimerEnabled : U(1), Swing : U(3), Special : U(8), Ion : U(1), Model : U(1),
   _temp : U(5), _mode : U(2), _fan : U(3), _model : U(2)]

LEMMA SharpResetTyped == Sharp_stateReset \in Sharp_remotes
<1>1. {0} \subseteq U(1) /\ {0, A907} \subseteq U(2) /\ {0} \subseteq U(3) /\ {0} \subseteq
          U(4) /\ {15} \subseteq U(5) /\ {0} \subseteq U(8)
  BY Widths DEF A907, ARRAH2E, kFujitsuAcStopTimers
<1>2. QED
  BY <1>1 DEF Sharp_remotes, Sharp_stateReset

LEMMA SharpConvertModeTyped == ASSUME NEW v PROVE Sharp_convertMode(v) \in 0 .. 3
BY DEF Sharp_convertMode, Lookup, kCool, kDry, kHeat, kSharpAcAuto, kSharpAcCool, kSharpAcDry,
       kSharpAcHeat, :>, @@

LEMMA SharpPressedTyped ==
  ASSUME NEW s \in Sharp_remotes, NEW v \in U(8)
  PROVE  Pressed(s, v) \in Sharp_remotes
<1>1. s.PowerSpecial \in U(4)
  BY DEF Sharp_remotes
<1>2. v \in U(8)
  BY Widths, <1>1
<1>3. s.PowerSpecial % 4 \in U(4)
  BY Widths, <1>1
<1>4. QED
  BY <1>2, <1>3 DEF Sharp_remotes, Pressed

LEMMA SharpButtonsFit ==
  /\ kSharpAcSpecialPower \in U(8) /\ kSharpAcSpecialTurbo \in U(8)
         /\ kSharpAcSpecialTempEcono \in U(8) /\ kSharpAcSpecialFan \in U(8)
         /\ kSharpAcSpecialSwing \in U(8) /\ kSharpAcSpecialTimer \in U(8)
         /\ kSharpAcSpecialTimerHalfHour \in U(8)
BY Widths
   DEF kSharpAcSpecialPower, kSharpAcSpecialTurbo, kSharpAcSpecialTempEcono, kSharpAcSpecialFan,
       kSharpAcSpecialSwing, kSharpAcSpecialTimer, kSharpAcSpecialTimerHalfHour

LEMMA SharpSetTempTyped ==
  ASSUME NEW s \in Sharp_remotes, NEW v \in Int, NEW b
  PROVE  Sharp_setTemp(s, v, b) \in Sharp_remotes
<1> DEFINE degrees == Clamp(v, 15, 30)
           base == IF s._model = A705 THEN 208 ELSE 192
<1>1. degrees \in 15 .. 30 /\ base \in {192, 208}
  BY DEF Clamp
<1>2. base + degrees - 15 \in U(8) /\ degrees \in U(5) /\ 0 \in U(8)
  BY <1>1, Widths
<1> HIDE DEF degrees, base
<1>3. [s EXCEPT !.Temp = 0] \in Sharp_remotes
  BY <1>2 DEF Sharp_remotes
<1>4. [s EXCEPT !.Temp = base + degrees - 15, !._temp = IF b THEN degrees ELSE @] \in Sharp_remotes
  <2>1. ASSUME NEW t \in U(8), NEW d \in U(5)
        PROVE  [s EXCEPT !.Temp = t, !._temp = IF b THEN d ELSE @] \in Sharp_remotes
    BY DEF Sharp_remotes
  <2>2. QED
    BY <1>2, <2>1, Zenon
<1>5. QED
  BY <1>3, <1>4, SharpPressedTyped, SharpButtonsFit DEF Sharp_setTemp, degrees, base

LEMMA SharpSetFanTyped ==
  ASSUME NEW s \in Sharp_remotes, NEW v, NEW b
  PROVE  Sharp_setFan(s, v, b) \in Sharp_remotes
<1> DEFINE known == v \in {kSharpAcFanAuto, 3, 4, 5, kSharpAcFanMax}
           fan == IF known THEN v ELSE kSharpAcFanAuto
<1>1. fan \in U(3)
  BY Widths DEF kSharpAcFanAuto, kSharpAcFanMax
<1> HIDE DEF known, fan
<1>2. [s EXCEPT !.Fan = fan, !._fan = IF b \/ ~known THEN fan ELSE @] \in Sharp_remotes
  BY <1>1 DEF Sharp_remotes
<1>3. QED
  BY <1>2, SharpPressedTyped, SharpButtonsFit, Zenon DEF Sharp_setFan, known, fan

LEMMA SharpSetModeTyped ==
  ASSUME NEW s \in Sharp_remotes, NEW v \in U(2), NEW b
  PROVE  Sharp_setMode(s, v, b) \in Sharp_remotes
<1> DEFINE wanted == IF v = kSharpAcHeat /\ s._model = A705 THEN kSharpAcAuto ELSE v
           stored == CASE wanted \in {kSharpAcAuto, kSharpAcDry} -> Sharp_setFan(s, kSharpAcFanAuto, FALSE)
                       [] wanted = kSharpAcHeat -> [s EXCEPT !.Mode = wanted]
                       [] OTHER -> s
           warmed == Sharp_setTemp(stored, s._temp, FALSE)
<1>1. wanted \in U(2)
  BY Widths DEF kSharpAcAuto
<1>2. Sharp_setFan(s, kSharpAcFanAuto, FALSE) \in Sharp_remotes
  BY SharpSetFanTyped, Zenon
<1>3. [s EXCEPT !.Mode = wanted] \in Sharp_remotes
  BY <1>1 DEF Sharp_remotes
<1>4. stored \in Sharp_remotes
  BY <1>2, <1>3
<1> HIDE DEF stored, wanted
<1>5. s._temp \in U(5)
  BY DEF Sharp_remotes
<1>6. s._temp \in Int
  BY <1>5, Widths
<1>7. warmed \in Sharp_remotes
  BY <1>4, <1>6, SharpSetTempTyped, Zenon
<1> HIDE DEF warmed
<1>8. [warmed EXCEPT !._mode = IF b THEN wanted ELSE @] \in Sharp_remotes
  BY <1>1, <1>7 DEF Sharp_remotes
<1>9. QED
  BY <1>8, SharpPressedTyped, SharpButtonsFit, Zenon DEF Sharp_setMode, warmed, stored, wanted

LEMMA SharpPressTyped ==
  ASSUME NEW s \in Sharp_remotes
  PROVE  /\ \A v \in U(4) : [s EXCEPT !.PowerSpecial = v] \in Sharp_remotes
         /\ \A v \in U(8) : [s EXCEPT !.Special = v] \in Sharp_remotes
         /\ \A v \in U(1) : [s EXCEPT !.Clean = v, !.PowerSpecial = @ % 4] \in Sharp_remotes
         /\ s._mode \in U(2) /\ s.Mode \in U(2)
<1>1. s.PowerSpecial \in U(4)
  BY DEF Sharp_remotes
<1>2. s.PowerSpecial % 4 \in U(4)
  BY <1>1, Widths
<1>3. QED
  BY <1>2 DEF Sharp_remotes

LEMMA SharpUncleanTyped == ASSUME NEW s \in Sharp_remotes PROVE Sharp_unclean(s) \in Sharp_remotes
<1>1. Sharp_setMode(s, s._mode, FALSE) \in Sharp_remotes
  BY SharpPressTyped, SharpSetModeTyped, Zenon
<1>2. Sharp_setFan(Sharp_setMode(s, s._mode, FALSE), s._fan, FALSE) \in Sharp_remotes
  BY <1>1, SharpSetFanTyped, Zenon
<1>3. 0 \in U(1)
  BY Widths
<1>4. QED
  BY <1>2, <1>3, SharpPressTyped, Zenon DEF Sharp_unclean

LEMMA SharpSetPowerTyped ==
  ASSUME NEW s \in Sharp_remotes, NEW v, NEW b
  PROVE  Sharp_setPower(s, v, b) \in Sharp_remotes
<1> DEFINE code == CASE v = 0 -> kSharpAcPowerOff
                     [] v = 1 /\ b -> kSharpAcPowerOn
                     [] OTHER -> kSharpAcPowerOnFromOff
           powered == [s EXCEPT !.PowerSpecial = code]
           kept == IF s.Clean = 1 THEN Sharp_unclean(powered) ELSE powered
<1>1. kSharpAcPowerOff \in U(4) /\ kSharpAcPowerOn \in U(4) /\ kSharpAcPowerOnFromOff \in U(4)
  BY Widths DEF kSharpAcPowerOff, kSharpAcPowerOn, kSharpAcPowerOnFromOff
<1>2. code \in U(4)
  BY <1>1
<1> HIDE DEF code
<1>3. powered \in Sharp_remotes
  BY <1>2, SharpPressTyped
<1> HIDE DEF powered
<1>4. kept \in Sharp_remotes
  BY <1>3, SharpUncleanTyped
<1> HIDE DEF kept
<1>5. [kept EXCEPT !.Special = kSharpAcSpecialPower] \in Sharp_remotes
  BY <1>4, SharpPressTyped, SharpButtonsFit
<1>6. QED
  BY <1>5, Zenon DEF Sharp_setPower, kept, powered, code

LEMMA SharpSetCleanTyped ==
  ASSUME NEW s \in Sharp_remotes, NEW v
  PROVE  Sharp_setClean(s, v) \in Sharp_remotes
<1>1. kSharpAcDry \in U(2) /\ 1 \in U(1)
  BY Widths DEF kSharpAcDry
<1>2. Sharp_setMode(s, kSharpAcDry, FALSE) \in Sharp_remotes
  BY <1>1, SharpSetModeTyped, Zenon
<1>3. Sharp_setPower(Sharp_setMode(s, kSharpAcDry, FALSE), 1, FALSE) \in Sharp_remotes
  BY <1>2, SharpSetPowerTyped, Zenon
<1>4. QED
  BY <1>1, <1>3, SharpPressTyped, SharpUncleanTyped, Zenon DEF Sharp_setClean

LEMMA SharpSetparamTyped ==
  ASSUME NEW s \in Sharp_remotes, NEW r \in Values
  PROVE  Sharp_setparam(s, r) \in Sharp_remotes
<1> DEFINE moded == Sharp_setMode(Sharp_setPower(s, Truth(r.power), TRUE),
                                  Sharp_convertMode(r.mode), TRUE)
<1>1. Sharp_setPower(s, Truth(r.power), TRUE) \in Sharp_remotes
  BY SharpSetPowerTyped, Zenon
<1>2. Sharp_convertMode(r.mode) \in U(2) /\ r.temp \in Int
  BY SharpConvertModeTyped, ValuesRead, Widths
<1>3. moded \in Sharp_remotes
  BY <1>1, <1>2, SharpSetModeTyped, Zenon
<1> HIDE DEF moded
<1>4. Sharp_setFan(moded, Sharp_convertFan(r.fan), TRUE) \in Sharp_remotes
  BY <1>3, SharpSetFanTyped, Zenon
<1>5. Sharp_setTemp(Sharp_setFan(moded, Sharp_convertFan(r.fan), TRUE), r.temp, TRUE)
        \in Sharp_remotes
  BY <1>2, <1>4, SharpSetTempTyped, Zenon
<1>6. QED
  BY <1>5, Zenon DEF Sharp_setparam, moded

LEMMA SharpSetEconoTyped ==
  ASSUME NEW s \in Sharp_remotes, NEW v \in Bit
  PROVE  Sharp_setEconoToggle(s, v) \in Sharp_remotes
<1> DEFINE button == IF v = 1 THEN kSharpAcSpecialTempEcono ELSE s.Special
<1>1. s.Special \in U(8)
  BY DEF Sharp_remotes
<1>2. button \in U(8)
  BY <1>1, SharpButtonsFit
<1>3. kSharpAcPowerSetSpecialOff - v \in U(4)
  BY Widths DEF kSharpAcPowerSetSpecialOff, Bit
<1> HIDE DEF button
<1>4. [s EXCEPT !.Special = button, !.PowerSpecial = kSharpAcPowerSetSpecialOff - v]
        \in Sharp_remotes
  <2>1. ASSUME NEW t \in U(4) PROVE [s EXCEPT !.Special = button, !.PowerSpecial = t] \in Sharp_remotes
    BY <1>2 DEF Sharp_remotes
  <2>2. QED
    BY <1>3, <2>1, Zenon
<1>5. QED
  BY <1>4, Zenon DEF Sharp_setEconoToggle, button

LEMMA SharpSetTimerTyped ==
  ASSUME NEW s \in Sharp_remotes, NEW v, NEW k \in Bit, NEW m \in Minutes
  PROVE  Sharp_setTimer(s, v, k, m) \in Sharp_remotes
<1> DEFINE halfHours == Clamp(m \div 30, 0, 24)
           on == v = 1 /\ halfHours > 0
           type == IF on THEN k ELSE 0
           hours == IF on THEN halfHours \div 2 ELSE 0
           button == IF on /\ halfHours % 2 = 1 THEN kSharpAcSpecialTimerHalfHour
                     ELSE kSharpAcSpecialTimer
<1>1. halfHours \in 0 .. 24
  BY DEF Clamp, Minutes
<1> HIDE DEF halfHours
<1>2. hours \in U(4)
  BY <1>1, Widths
<1>3. BitOf(on) \in U(1) /\ type \in U(1)
  BY Widths DEF BitOf, Bit
<1>4. button \in U(8)
  BY SharpButtonsFit
<1>5. kSharpAcPowerTimerSetting \in U(4)
  BY Widths DEF kSharpAcPowerTimerSetting
<1> HIDE DEF on, type, hours, button
<1>6. [s EXCEPT !.TimerEnabled = BitOf(on), !.TimerType = type, !.TimerHours = hours,
                !.Special = button, !.PowerSpecial = kSharpAcPowerTimerSetting] \in Sharp_remotes
  BY <1>2, <1>3, <1>4, <1>5 DEF Sharp_remotes
<1>7. QED
  BY <1>6, Zenon DEF Sharp_setTimer, button, hours, type, on, halfHours

LEMMA SharpOptionsTyped ==
  ASSUME NEW s \in Sharp_remotes
  PROVE  \A t \in Sharp_options(s) : t \in Sharp_remotes
<1> DEFINE models == {Sharp_setMode([s EXCEPT !._model = m, !.Model = BitOf(m = A705)], s.Mode, TRUE)
                        : m \in {A907, A705}}
           cleans == {Sharp_setClean(s, on) : on \in Bit}
           turbos == {[(IF on = 1 THEN Sharp_setFan(s, kSharpAcFanMax, TRUE) ELSE s)
                         EXCEPT !.PowerSpecial = kSharpAcPowerSetSpecialOff - on,
                                !.Special = kSharpAcSpecialTurbo] : on \in Bit}
           swings == {[s EXCEPT !.Swing = 7 * on,
                                !.Special = IF on = 1 THEN kSharpAcSpecialSwing ELSE @] : on \in Bit}
           ions == {[s EXCEPT !.Ion = on, !.PowerSpecial = @ % 4,
                              !.Special = IF on = 1 THEN kSharpAcSpecialSwing ELSE @] : on \in Bit}
           econos == {Sharp_setEconoToggle(s, on) : on \in Bit}
           timers == {Sharp_setTimer(s, on, type, t) : on \in Bit, type \in Bit, t \in Minutes}
<1>1. Sharp_options(s) = models \union cleans \union turbos \union swings \union ions
                         \union econos \union timers
  BY DEF Sharp_options
<1>2. s.Mode \in U(2) /\ s.Special \in U(8) /\ s.PowerSpecial \in U(4)
  BY DEF Sharp_remotes
<1>3. \A t \in models : t \in Sharp_remotes
  <2>1. ASSUME NEW m \in {A907, A705}
        PROVE  [s EXCEPT !._model = m, !.Model = BitOf(m = A705)] \in Sharp_remotes
    <3>1. m \in U(2) /\ BitOf(m = A705) \in U(1)
      BY Widths DEF A907, A705, BitOf
    <3>2. QED
      BY <3>1 DEF Sharp_remotes
  <2>2. \A m \in {A907, A705} :
          Sharp_setMode([s EXCEPT !._model = m, !.Model = BitOf(m = A705)], s.Mode, TRUE)
            \in Sharp_remotes
    BY <1>2, <2>1, SharpSetModeTyped, Zenon
  <2>3. QED
    BY <2>2, Zenon
<1>4. \A t \in cleans : t \in Sharp_remotes
  BY SharpSetCleanTyped, Zenon
<1>5. \A t \in turbos : t \in Sharp_remotes
  <2> DEFINE blown(on) == IF on = 1 THEN Sharp_setFan(s, kSharpAcFanMax, TRUE) ELSE s
  <2>1. Sharp_setFan(s, kSharpAcFanMax, TRUE) \in Sharp_remotes
    BY SharpSetFanTyped, Zenon
  <2>2. \A on \in Bit : blown(on) \in Sharp_remotes
    BY <2>1
  <2> HIDE DEF blown
  <2>3. \A on \in Bit : kSharpAcPowerSetSpecialOff - on \in U(4)
    BY Widths DEF kSharpAcPowerSetSpecialOff, Bit
  <2>4. ASSUME NEW u \in Sharp_remotes, NEW c \in U(4)
        PROVE  [u EXCEPT !.PowerSpecial = c, !.Special = kSharpAcSpecialTurbo] \in Sharp_remotes
    BY SharpButtonsFit DEF Sharp_remotes
  <2>5. \A on \in Bit : [blown(on) EXCEPT !.PowerSpecial = kSharpAcPowerSetSpecialOff - on,
                                         !.Special = kSharpAcSpecialTurbo] \in Sharp_remotes
    BY <2>2, <2>3, <2>4, Zenon
  <2>6. QED
    BY <2>5, Zenon DEF blown
<1>6. ASSUME NEW on \in Bit
      PROVE  (IF on = 1 THEN kSharpAcSpecialSwing ELSE s.Special) \in U(8)
  BY <1>2, SharpButtonsFit
<1>7. \A t \in swings : t \in Sharp_remotes
  <2>1. \A on \in Bit : 7 * on \in U(3)
    BY Widths DEF Bit
  <2>2. ASSUME NEW c \in U(3), NEW d \in U(8)
        PROVE  [s EXCEPT !.Swing = c, !.Special = d] \in Sharp_remotes
    BY DEF Sharp_remotes
  <2>3. \A on \in Bit : [s EXCEPT !.Swing = 7 * on,
                                 !.Special = IF on = 1 THEN kSharpAcSpecialSwing ELSE s.Special]
                          \in Sharp_remotes
    BY <1>6, <2>1, <2>2, Zenon
  <2>4. QED
    BY <2>3
<1>8. \A t \in ions : t \in Sharp_remotes
  <2>1. s.PowerSpecial % 4 \in U(4) /\ \A on \in Bit : on \in U(1)
    BY <1>2, Widths DEF Bit
  <2>2. ASSUME NEW b \in U(1), NEW c \in U(4), NEW d \in U(8)
        PROVE  [s EXCEPT !.Ion = b, !.PowerSpecial = c, !.Special = d] \in Sharp_remotes
    BY DEF Sharp_remotes
  <2>3. \A on \in Bit : [s EXCEPT !.Ion = on, !.PowerSpecial = s.PowerSpecial % 4,
                                 !.Special = IF on = 1 THEN kSharpAcSpecialSwing ELSE s.Special]
                          \in Sharp_remotes
    BY <1>6, <2>1, <2>2, Zenon
  <2>4. QED
    BY <2>3
<1>9. \A t \in econos : t \in Sharp_remotes
  BY SharpSetEconoTyped, Zenon
<1>10. \A t \in timers : t \in Sharp_remotes
  BY SharpSetTimerTyped
<1> HIDE DEF models, cleans, turbos, swings, ions, econos, timers
<1>11. QED
  BY <1>1, <1>3, <1>4, <1>5, <1>7, <1>8, <1>9, <1>10, Zenon

LEMMA SharpFits == ASSUME NEW s \in Sharp_remotes PROVE Fits("Sharp", s)
<1>1. Bits["Sharp"] = Sharp_bits
  BY DEF Bits
<1>2. DOMAIN s = DOMAIN Sharp_bits /\ \A f \in DOMAIN s : s[f] \in U(Sharp_bits[f])
  BY DEF Sharp_remotes, Sharp_bits
<1>3. QED
  BY <1>1, <1>2 DEF Fits

\* The modes and speeds several of the classes share.
LEMMA GreeModeFits == ASSUME NEW v PROVE GreeMode(v) \in 0 .. 4
BY DEF GreeMode, Lookup, kCool, kHeat, kDry, kFan, kGreeAuto, kGreeCool, kGreeDry, kGreeFan,
       kGreeHeat, :>, @@

LEMMA GoodweatherFanFits == ASSUME NEW v PROVE GoodweatherFan(v) \in 0 .. 3
BY DEF GoodweatherFan, Lookup, kMin, kLow, kMedium, kHigh, kMax, :>, @@

----------------------------------------------------------------------------
(* Gree.                                                                   *)

Gree_remotes ==
  [Mode : U(3), Power : U(1), Fan : U(2), SwingAuto : U(1), Sleep : U(1), Temp : U(4),
   TimerHalfHr : U(1), TimerTensHr : U(2), TimerEnabled : U(1), TimerHours : U(4), Turbo : U(1),
   Light : U(1), ModelA : U(1), Xfan : U(1), TempExtraDegreeF : U(1), UseFahrenheit : U(1),
   Swing : U(4), DisplayTemp : U(2), IFeel : U(1), WiFi : U(1), _model : U(2)]

LEMMA GreeResetTyped == Gree_stateReset \in Gree_remotes
<1>1. {0, 1} \subseteq U(1) /\ {0, YAW1F} \subseteq U(2) /\ {0} \subseteq U(3) /\ {0, 9}
          \subseteq U(4)
  BY Widths DEF YAW1F
<1>2. QED
  BY <1>1 DEF Gree_remotes, Gree_stateReset, Gree_bits

LEMMA GreeConvertFanTyped == ASSUME NEW v PROVE Gree_convertFan(v) \in 0 .. 3
BY DEF Gree_convertFan, Lookup, kGreeFanMax, kHigh, kLow, kMax, kMedium, kMin, :>, @@

LEMMA GreeSetPowerTyped ==
  ASSUME NEW s \in Gree_remotes, NEW v \in Bit
  PROVE  Gree_setPower(s, v) \in Gree_remotes
<1>1. s._model \in U(2)
  BY DEF Gree_remotes
<1>2. v \in U(1)
  BY Widths, <1>1 DEF Bit
<1>3. BitOf(v = 1 /\ s._model = YAW1F) \in U(1)
  BY Widths, <1>1 DEF BitOf, YAW1F, Bit
<1>4. QED
  BY <1>2, <1>3 DEF Gree_remotes, Gree_setPower

LEMMA GreeSetTempTyped ==
  ASSUME NEW s \in Gree_remotes, NEW v \in Int, NEW b \in Bit
  PROVE  Gree_setTemp(s, v, b) \in Gree_remotes
<1> DEFINE asked == IF b = 1 THEN 10 * v - 314 ELSE 18 * v
           safe == IF s.Mode = kGreeAuto THEN 18 * 25
                   ELSE Clamp(asked, 18 * kGreeMinTempC, 18 * kGreeMaxTempC)
<1>1. safe \in 288 .. 540
  BY DEF Clamp, kGreeMinTempC, kGreeMaxTempC
<1> HIDE DEF asked, safe
<1>2. safe \div 18 - kGreeMinTempC \in U(4) /\ (safe \div 9) % 2 \in U(1) /\ b \in U(1)
  BY <1>1, Widths DEF kGreeMinTempC, Bit
<1>3. ASSUME NEW t \in U(4), NEW h \in U(1)
      PROVE  [s EXCEPT !.UseFahrenheit = b, !.Temp = t, !.TempExtraDegreeF = h] \in Gree_remotes
  BY <1>2 DEF Gree_remotes
<1>4. [s EXCEPT !.UseFahrenheit = b, !.Temp = safe \div 18 - kGreeMinTempC,
                !.TempExtraDegreeF = (safe \div 9) % 2] \in Gree_remotes
  BY <1>2, <1>3, Zenon
<1>5. QED
  BY <1>4 DEF Gree_setTemp, safe, asked

LEMMA GreeSetFanTyped ==
  ASSUME NEW s \in Gree_remotes, NEW v \in Int
  PROVE  Gree_setFan(s, v) \in Gree_remotes
<1>1. s.Mode \in U(3)
  BY DEF Gree_remotes
<1>2. (IF s.Mode = kGreeDry THEN 1 ELSE Clamp(v, 0, kGreeFanMax)) \in U(2)
  BY Widths, <1>1 DEF Clamp, kGreeDry, kGreeFanMax
<1>3. QED
  BY <1>2 DEF Gree_remotes, Gree_setFan

LEMMA GreeSetModeTyped ==
  ASSUME NEW s \in Gree_remotes, NEW v
  PROVE  Gree_setMode(s, v) \in Gree_remotes
<1> DEFINE prepared == CASE v = kGreeAuto -> Gree_setTemp(s, 25, 0)
                         [] v = kGreeDry -> Gree_setFan(s, 1)
                         [] OTHER -> s
<1>1. prepared \in Gree_remotes
  BY GreeSetTempTyped, GreeSetFanTyped DEF Bit
<1> HIDE DEF prepared
<1>2. OneOf(v, kGreeAuto .. kGreeHeat, kGreeAuto) \in U(3)
  BY Widths DEF OneOf, kGreeAuto, kGreeHeat
<1>3. [prepared EXCEPT !.Mode = OneOf(v, kGreeAuto .. kGreeHeat, kGreeAuto)] \in Gree_remotes
  BY <1>1, <1>2 DEF Gree_remotes
<1>4. QED
  BY <1>3 DEF Gree_setMode, prepared

LEMMA GreeSetparamTyped ==
  ASSUME NEW s \in Gree_remotes, NEW r \in Values
  PROVE  Gree_setparam(s, r) \in Gree_remotes
<1> DEFINE moded == Gree_setMode(Gree_setPower(s, Truth(r.power)), GreeMode(r.mode))
<1>1. moded \in Gree_remotes
  BY TruthFits, GreeSetPowerTyped, GreeSetModeTyped
<1> HIDE DEF moded
<1>2. Gree_convertFan(r.fan) \in Int
  BY GreeConvertFanTyped
<1>3. Gree_setFan(moded, Gree_convertFan(r.fan)) \in Gree_remotes
  BY <1>1, <1>2, GreeSetFanTyped
<1>4. QED
  BY <1>3, ValuesRead, Binary, GreeSetTempTyped, Zenon DEF Gree_setparam, moded

LEMMA GreeSetSwingVerticalTyped ==
  ASSUME NEW s \in Gree_remotes, NEW b \in {0, 1}, NEW v
  PROVE  Gree_setSwingVertical(s, b, v) \in Gree_remotes
<1>1. b \in U(1)
  BY Widths
<1>2. (IF b = 1 THEN OneOf(v, {1, 7, 9, 11}, 1) ELSE OneOf(v, 2 .. 6, 0)) \in U(4)
  BY Widths DEF OneOf
<1>3. QED
  BY <1>1, <1>2 DEF Gree_remotes, Gree_setSwingVertical

LEMMA GreeSetTimerTyped ==
  ASSUME NEW s \in Gree_remotes, NEW m \in Minutes \union {29}
  PROVE  Gree_setTimer(s, m) \in Gree_remotes
<1> DEFINE mins == Clamp(m, 0, kGreeTimerMax)
           hours == mins \div 60
<1>1. hours \in 0 .. 24
  BY DEF Clamp, kGreeTimerMax, Minutes
<1>2. BitOf(mins >= 30) \in U(1) /\ BitOf(mins % 60 >= 30) \in U(1)
  BY Widths DEF BitOf
<1> HIDE DEF mins, hours
<1>3. hours \div 10 \in U(2) /\ hours % 10 \in U(4)
  BY <1>1, Widths
<1>4. ASSUME NEW a \in U(1), NEW b \in U(1), NEW c \in U(2), NEW d \in U(4)
      PROVE  [s EXCEPT !.TimerEnabled = a, !.TimerHalfHr = b, !.TimerTensHr = c,
                       !.TimerHours = d] \in Gree_remotes
  BY DEF Gree_remotes
<1>5. QED
  BY <1>2, <1>3, <1>4, Zenon DEF Gree_setTimer, mins, hours

LEMMA GreeOptionsTyped ==
  ASSUME NEW s \in Gree_remotes
  PROVE  \A t \in Gree_options(s) : t \in Gree_remotes
<1> DEFINE own1 == {Gree_setTemp(s, t, 1) : t \in {60, 70, 86, 90}}
           own2 == {Gree_setSwingVertical(s, 0, p) : p \in 0 .. 12}
           own3 == {Gree_setSwingVertical(s, 1, p) : p \in 0 .. 12}
           own4 == {Gree_setTimer(s, t) : t \in Minutes \union {29}}
<1>1. Gree_options(s) = Toggles(s, {"Light", "IFeel", "WiFi", "Xfan", "Sleep", "Turbo",
          "UseFahrenheit"}) \union Each(s, "_model", {YAW1F, YBOFB}) \union Each(s, "DisplayTemp",
          0 .. 3) \union own1 \union own2 \union own3 \union own4
  BY DEF Gree_options
<1>2. ASSUME NEW t \in {60, 70, 86, 90} PROVE Gree_setTemp(s, t, 1) \in Gree_remotes
  BY <1>2, Widths, Binary, GreeSetTempTyped
<1>3. \A t \in own1 : t \in Gree_remotes
  BY <1>2
<1>4. ASSUME NEW p \in 0 .. 12 PROVE Gree_setSwingVertical(s, 0, p) \in Gree_remotes
  BY <1>4, Widths, Binary, GreeSetSwingVerticalTyped
<1>5. \A t \in own2 : t \in Gree_remotes
  BY <1>4
<1>6. ASSUME NEW p \in 0 .. 12 PROVE Gree_setSwingVertical(s, 1, p) \in Gree_remotes
  BY <1>6, Widths, Binary, GreeSetSwingVerticalTyped
<1>7. \A t \in own3 : t \in Gree_remotes
  BY <1>6
<1>8. ASSUME NEW t \in Minutes \union {29} PROVE Gree_setTimer(s, t) \in Gree_remotes
  BY <1>8, Widths, GreeSetTimerTyped
<1>9. \A t \in own4 : t \in Gree_remotes
  BY <1>8
<1> HIDE DEF own1, own2, own3, own4
<1>10. \A t \in Toggles(s, {"Light", "IFeel", "WiFi", "Xfan", "Sleep", "Turbo",
           "UseFahrenheit"}) : t \in Gree_remotes
  BY Within, BitFits, MinutesFit DEF Gree_remotes, Toggles, Each
<1>11. \A t \in own1 \union own2 \union own3 \union own4 \union Toggles(s, {"Light", "IFeel",
           "WiFi", "Xfan", "Sleep", "Turbo", "UseFahrenheit"}) : t \in Gree_remotes
  BY <1>3, <1>5, <1>7, <1>9, <1>10, ZenonT(30)
<1>12. \A t \in Each(s, "_model", {YAW1F, YBOFB}) : t \in Gree_remotes
  BY Within, BitFits, MinutesFit DEF Gree_remotes, Each, YAW1F, YBOFB
<1>13. \A t \in Each(s, "DisplayTemp", 0 .. 3) : t \in Gree_remotes
  BY Within, BitFits, MinutesFit DEF Gree_remotes, Each
<1>14. QED
  BY <1>11, <1>12, <1>13, <1>1, ZenonT(30)

LEMMA GreeSentTyped == ASSUME NEW s \in Gree_remotes PROVE Gree_getRaw(s) \in Gree_remotes
<1>1. s.Power \in U(1)
  BY DEF Gree_remotes
<1>2. s.Power \in Bit
  BY <1>1, Widths DEF Bit
<1>3. QED
  BY <1>2, GreeSetPowerTyped DEF Gree_getRaw

LEMMA GreeFits == ASSUME NEW s \in Gree_remotes PROVE Fits("Gree", s)
<1>1. Bits["Gree"] = Gree_bits
  BY DEF Bits
<1>2. DOMAIN s = DOMAIN Gree_bits /\ \A f \in DOMAIN s : s[f] \in U(Gree_bits[f])
  BY DEF Gree_remotes, Gree_bits
<1>3. QED
  BY <1>1, <1>2 DEF Fits

----------------------------------------------------------------------------
(* Kelvinator.                                                             *)

Kelvinator_remotes ==
  [Mode : U(3), Power : U(1), BasicFan : U(2), VentSwing : U(1), Temp : U(4), Turbo : U(1),
   Light : U(1), IonFilter : U(1), XFan : U(1), SwingV : U(1), SwingH : U(1), Quiet : U(1),
   Fan : U(3)]

LEMMA KelvinatorResetTyped == \A s \in Kelvinator_fresh : s \in Kelvinator_remotes
<1>1. /\ 0 \in U(1) /\ 0 \in U(2) /\ 0 \in U(3) /\ 0 \in U(4)
      /\ 2 ^ 1 - 1 \in U(1) /\ 2 ^ 2 - 1 \in U(2) /\ 2 ^ 3 - 1 \in U(3) /\ 2 ^ 4 - 1 \in U(4)
  BY Widths
<1>2. Kelvinator_stateReset \in Kelvinator_remotes
  BY <1>1 DEF Kelvinator_remotes, Kelvinator_stateReset, Kelvinator_bits
<1>3. [f \in DOMAIN Kelvinator_bits |-> 2 ^ Kelvinator_bits[f] - 1] \in Kelvinator_remotes
  BY <1>1 DEF Kelvinator_remotes, Kelvinator_bits
<1>4. QED
  BY <1>2, <1>3, Zenon DEF Kelvinator_fresh

LEMMA KelvinatorSetTempTyped ==
  ASSUME NEW s \in Kelvinator_remotes, NEW v \in Int
  PROVE  Kelvinator_setTemp(s, v) \in Kelvinator_remotes
<1>1. Clamp(v, 16, 30) - 16 \in U(4)
  BY Widths DEF Clamp
<1>2. QED
  BY <1>1 DEF Kelvinator_remotes, Kelvinator_setTemp

LEMMA KelvinatorSetFanTyped ==
  ASSUME NEW s \in Kelvinator_remotes, NEW v \in Int
  PROVE  Kelvinator_setFan(s, v) \in Kelvinator_remotes
<1> DEFINE fan == Clamp(v, 0, kKelvinatorFanMax)
<1>1. fan \in 0 .. 5
  BY DEF Clamp, kKelvinatorFanMax
<1> HIDE DEF fan
<1>2. Clamp(fan, 0, kKelvinatorBasicFanMax) \in U(2) /\ fan \in U(3) /\ 0 \in U(1)
  BY <1>1, Widths DEF Clamp, kKelvinatorBasicFanMax
<1>3. [s EXCEPT !.BasicFan = Clamp(fan, 0, kKelvinatorBasicFanMax), !.Fan = fan, !.Turbo = 0]
        \in Kelvinator_remotes
  BY <1>2 DEF Kelvinator_remotes
<1>4. QED
  BY <1>3 DEF Kelvinator_setFan, fan

LEMMA KelvinatorSetModeTyped ==
  ASSUME NEW s \in Kelvinator_remotes, NEW v
  PROVE  Kelvinator_setMode(s, v) \in Kelvinator_remotes
<1>1. Kelvinator_setTemp(s, kKelvinatorAutoTemp) \in Kelvinator_remotes
  BY KelvinatorSetTempTyped DEF kKelvinatorAutoTemp
<1>2. kGreeAuto \in U(3) /\ kGreeHeat \in U(3) /\ kGreeCool \in U(3) /\ kGreeFan \in U(3)
  BY Widths DEF kGreeAuto, kGreeHeat, kGreeCool, kGreeFan
<1>3. ASSUME NEW t \in Kelvinator_remotes, NEW m \in U(3)
      PROVE  [t EXCEPT !.Mode = m] \in Kelvinator_remotes
  BY DEF Kelvinator_remotes
<1>4. QED
  BY <1>1, <1>2, <1>3 DEF Kelvinator_setMode

LEMMA KelvinatorSetparamTyped ==
  ASSUME NEW s \in Kelvinator_remotes, NEW r \in Values
  PROVE  Kelvinator_setparam(s, r) \in Kelvinator_remotes
<1>1. [s EXCEPT !.Power = Truth(r.power)] \in Kelvinator_remotes
  BY TruthFits DEF Kelvinator_remotes
<1>2. QED
  BY <1>1, ValuesRead, GreeModeFits, KelvinatorSetTempTyped, KelvinatorSetFanTyped,
     KelvinatorSetModeTyped
     DEF Kelvinator_setparam

LEMMA KelvinatorOptionsTyped ==
  ASSUME NEW s \in Kelvinator_remotes
  PROVE  \A t \in Kelvinator_options(s) : t \in Kelvinator_remotes
<1>1. \A t \in Toggles(s, {"Quiet", "IonFilter", "Light", "XFan", "Turbo"}) : t \in
          Kelvinator_remotes
  BY Within, BitFits, MinutesFit DEF Kelvinator_remotes, Toggles, Each
<1>2. ASSUME NEW on \in Bit
      PROVE  [s EXCEPT !.SwingV = on, !.VentSwing = Truth(on + s.SwingH)] \in
          Kelvinator_remotes
  <2>1. s.SwingH \in U(1)
    BY DEF Kelvinator_remotes
  <2>2. on \in U(1)
    BY Widths, <2>1, <1>2 DEF Bit
  <2>3. Truth(on + s.SwingH) \in U(1)
    BY Widths, <2>1, <1>2 DEF Truth, BitOf, Bit
  <2>4. QED
    BY <2>2, <2>3 DEF Kelvinator_remotes
<1>3. ASSUME NEW on \in Bit
      PROVE  [s EXCEPT !.SwingH = on, !.VentSwing = Truth(on + s.SwingV)] \in
          Kelvinator_remotes
  <2>1. s.SwingV \in U(1)
    BY DEF Kelvinator_remotes
  <2>2. on \in U(1)
    BY Widths, <2>1, <1>3 DEF Bit
  <2>3. Truth(on + s.SwingV) \in U(1)
    BY Widths, <2>1, <1>3 DEF Truth, BitOf, Bit
  <2>4. QED
    BY <2>2, <2>3 DEF Kelvinator_remotes
<1>4. QED
  BY <1>1, <1>2, <1>3, ZenonT(30) DEF Kelvinator_options

LEMMA KelvinatorSentTyped ==
  ASSUME NEW s \in Kelvinator_remotes
  PROVE  Kelvinator_getRaw(s) \in Kelvinator_remotes
<1>1. s.Mode \in U(3) /\ s.XFan \in U(1)
  BY DEF Kelvinator_remotes
<1>2. (IF s.Mode \in {kGreeCool, kGreeDry} THEN s.XFan ELSE 0) \in U(1)
  BY Widths, <1>1 DEF kGreeCool, kGreeDry
<1>3. QED
  BY <1>2 DEF Kelvinator_remotes, Kelvinator_getRaw

LEMMA KelvinatorFits == ASSUME NEW s \in Kelvinator_remotes PROVE Fits("Kelvinator", s)
<1>1. Bits["Kelvinator"] = Kelvinator_bits
  BY DEF Bits
<1>2. DOMAIN s = DOMAIN Kelvinator_bits /\ \A f \in DOMAIN s : s[f] \in U(Kelvinator_bits[f])
  BY DEF Kelvinator_remotes, Kelvinator_bits
<1>3. QED
  BY <1>1, <1>2 DEF Fits

----------------------------------------------------------------------------
(* Midea.                                                                  *)

Midea_remotes ==
  [SensorTemp : U(7), disableSensor : U(1), OffTimer : U(6), BeepDisable : U(1), Temp : U(5),
   useFahrenheit : U(1), Mode : U(3), Fan : U(2), Sleep : U(1), Power : U(1), Type : U(3),
   _SwingVToggle : U(1), _EconoToggle : U(1), _TurboToggle : U(1), _LightToggle : U(1)]

LEMMA MideaResetTyped == Midea_stateReset \in Midea_remotes
<1>1. {1, 0} \subseteq U(1) /\ {0} \subseteq U(2) /\ {2, kMideaACTypeCommand} \subseteq U(3)
          /\ {15} \subseteq U(5) /\ {kMideaACTimerOff} \subseteq U(6) /\
          {kMideaACSensorTempOnTimerOff} \subseteq U(7)
  BY Widths DEF kMideaACSensorTempOnTimerOff, kMideaACTimerOff, kMideaACTypeCommand
<1>2. QED
  BY <1>1 DEF Midea_remotes, Midea_stateReset

LEMMA MideaConvertModeTyped == ASSUME NEW v PROVE Midea_convertMode(v) \in 0 .. 4
BY DEF Midea_convertMode, Lookup, kCool, kDry, kFan, kHeat, kMideaACAuto, :>, @@

LEMMA MideaConvertFanTyped == ASSUME NEW v PROVE Midea_convertFan(v) \in 0 .. 3
BY DEF Midea_convertFan, Lookup, kHigh, kLow, kMax, kMedium, kMin, :>, @@

LEMMA MideaNativeTempTyped ==
  ASSUME NEW s \in Midea_remotes, NEW v \in Int, NEW b \in Bit
  PROVE  Midea_native(s, v, b, kMideaACMinTempC, kMideaACMaxTempC, kMideaACMinTempF, kMideaACMaxTempF)
           \in U(5)
<1>1. s.useFahrenheit \in U(1)
  BY DEF Midea_remotes
<1>2. s.useFahrenheit \in 0 .. 1
  BY <1>1, Widths
<1>3. /\ kMideaACMinTempC = 17 /\ kMideaACMaxTempC = 30
      /\ kMideaACMinTempF = 62 /\ kMideaACMaxTempF = 86
  BY DEF kMideaACMinTempC, kMideaACMaxTempC, kMideaACMinTempF, kMideaACMaxTempF
<1>4. Midea_native(s, v, b, 17, 30, 62, 86) \in 0 .. 31
  BY <1>2 DEF Midea_native, Clamp, ToCelsius, ToFahrenheit, Bit
<1>5. QED
  BY <1>3, <1>4, Widths

LEMMA MideaNativeSensorTyped ==
  ASSUME NEW s \in Midea_remotes, NEW v \in Int, NEW b \in Bit
  PROVE  Midea_native(s, v, b, 0, kMideaACMaxSensorTempC, kMideaACMinSensorTempF,
                      kMideaACMaxSensorTempF) + 1 \in U(7)
<1>1. s.useFahrenheit \in U(1)
  BY DEF Midea_remotes
<1>2. s.useFahrenheit \in 0 .. 1
  BY <1>1, Widths
<1>3. /\ kMideaACMaxSensorTempC = 37 /\ kMideaACMinSensorTempF = 32
      /\ kMideaACMaxSensorTempF = 99
  BY DEF kMideaACMaxSensorTempC, kMideaACMinSensorTempF, kMideaACMaxSensorTempF
<1>4. Midea_native(s, v, b, 0, 37, 32, 99) \in 0 .. 67
  BY <1>2 DEF Midea_native, Clamp, ToCelsius, ToFahrenheit, Bit
<1>5. QED
  BY <1>3, <1>4, Widths

LEMMA MideaSetTempTyped ==
  ASSUME NEW s \in Midea_remotes, NEW v \in Int, NEW b \in Bit
  PROVE  Midea_setTemp(s, v, b) \in Midea_remotes
<1>1. \A t \in U(5) : [s EXCEPT !.Temp = t] \in Midea_remotes
  BY DEF Midea_remotes
<1>2. QED
  BY <1>1, MideaNativeTempTyped, Zenon DEF Midea_setTemp

LEMMA MideaSetUseCelsiusTyped ==
  ASSUME NEW s \in Midea_remotes, NEW v \in Bit
  PROVE  Midea_setUseCelsius(s, v) \in Midea_remotes
<1>1. s.Temp \in U(5)
  BY DEF Midea_remotes
<1>2. s.Temp \in Int
  BY <1>1, Widths
<1>3. 1 - v \in U(1) /\ 1 - v \in Bit
  BY Widths DEF Bit
<1>4. [s EXCEPT !.useFahrenheit = 1 - v] \in Midea_remotes
  <2>1. \A b \in U(1) : [s EXCEPT !.useFahrenheit = b] \in Midea_remotes
    BY DEF Midea_remotes
  <2>2. QED
    BY <1>3, <2>1, Zenon
<1>5. Midea_getTemp(s, 1 - v) \in Int
  BY <1>2 DEF Midea_getTemp, ToFahrenheit, kMideaACMinTempC, kMideaACMinTempF
<1>6. QED
  BY <1>3, <1>4, <1>5, MideaSetTempTyped, Zenon DEF Midea_setUseCelsius

LEMMA MideaSetparamTyped ==
  ASSUME NEW s \in Midea_remotes, NEW r \in Values
  PROVE  Midea_setparam(s, r) \in Midea_remotes
<1>1. /\ Midea_convertMode(r.mode) \in U(3) /\ Midea_convertFan(r.fan) \in U(2)
      /\ r.temp \in Int /\ 0 \in Bit
  BY MideaConvertModeTyped, MideaConvertFanTyped, ValuesRead, Widths DEF Bit
<1>2. [s EXCEPT !.Power = Truth(r.power), !.Mode = Midea_convertMode(r.mode),
                !.Fan = Midea_convertFan(r.fan)] \in Midea_remotes
  BY <1>1, TruthFits DEF Midea_remotes
<1>3. QED
  BY <1>1, <1>2, MideaSetTempTyped, Zenon DEF Midea_setparam

LEMMA MideaSetEnableSensorTempTyped ==
  ASSUME NEW s \in Midea_remotes, NEW v
  PROVE  Midea_setEnableSensorTemp(s, v) \in Midea_remotes
<1>1. [s EXCEPT !.disableSensor = 0, !.BeepDisable = 0] \in Midea_remotes
  <2>1. 0 \in U(1)
    BY Widths
  <2>2. 0 \in U(1)
    BY Widths
  <2>3. QED
    BY <2>1, <2>2 DEF Midea_remotes
<1>2. [s EXCEPT !.disableSensor = 1, !.BeepDisable = 1, !.Type = kMideaACTypeCommand,
          !.SensorTemp = kMideaACSensorTempOnTimerOff] \in Midea_remotes
  <2>1. 1 \in U(1)
    BY Widths
  <2>2. 1 \in U(1)
    BY Widths
  <2>3. kMideaACTypeCommand \in U(3)
    BY Widths DEF kMideaACTypeCommand
  <2>4. kMideaACSensorTempOnTimerOff \in U(7)
    BY Widths DEF kMideaACSensorTempOnTimerOff
  <2>5. QED
    BY <2>1, <2>2, <2>3, <2>4 DEF Midea_remotes
<1>3. QED
  BY <1>1, <1>2 DEF Midea_setEnableSensorTemp

LEMMA MideaSetSensorTempTyped ==
  ASSUME NEW s \in Midea_remotes, NEW v \in Int, NEW b \in Bit
  PROVE  Midea_setSensorTemp(s, v, b) \in Midea_remotes
<1>1. \A t \in U(7) : [s EXCEPT !.SensorTemp = t] \in Midea_remotes
  BY DEF Midea_remotes
<1>2. QED
  BY <1>1, MideaNativeSensorTyped, MideaSetEnableSensorTempTyped, Zenon DEF Midea_setSensorTemp

LEMMA MideaHalfHoursTyped == ASSUME NEW m \in Minutes PROVE HalfHoursOf(m) \in 0 .. 48
BY DEF HalfHoursOf, Clamp, Minutes

LEMMA MideaSetOnTimerTyped ==
  ASSUME NEW s \in Midea_remotes, NEW m \in Minutes
  PROVE  Midea_setOnTimer(s, m) \in Midea_remotes
<1> DEFINE sensor == IF HalfHoursOf(m) = 0 THEN kMideaACSensorTempOnTimerOff
                     ELSE 2 * (HalfHoursOf(m) - 1) + 1
<1>1. sensor \in U(7)
  BY MideaHalfHoursTyped, Widths DEF kMideaACSensorTempOnTimerOff
<1> HIDE DEF sensor
<1>2. [Midea_setEnableSensorTemp(s, 0) EXCEPT !.SensorTemp = sensor] \in Midea_remotes
  <2>1. \A t \in Midea_remotes : [t EXCEPT !.SensorTemp = sensor] \in Midea_remotes
    BY <1>1 DEF Midea_remotes
  <2>2. QED
    BY <2>1, MideaSetEnableSensorTempTyped
<1>3. QED
  BY <1>2, Zenon DEF Midea_setOnTimer, sensor

LEMMA MideaSetOffTimerTyped ==
  ASSUME NEW s \in Midea_remotes, NEW m \in Minutes
  PROVE  Midea_setOffTimer(s, m) \in Midea_remotes
<1> DEFINE off == IF HalfHoursOf(m) = 0 THEN kMideaACTimerOff ELSE HalfHoursOf(m) - 1
<1>1. off \in U(6)
  BY MideaHalfHoursTyped, Widths DEF kMideaACTimerOff
<1> HIDE DEF off
<1>2. [s EXCEPT !.OffTimer = off] \in Midea_remotes
  BY <1>1 DEF Midea_remotes
<1>3. QED
  BY <1>2, Zenon DEF Midea_setOffTimer, off

LEMMA MideaOptionsTyped ==
  ASSUME NEW s \in Midea_remotes
  PROVE  \A t \in Midea_options(s) : t \in Midea_remotes
<1>1. 0 \in Bit /\ 1 \in Bit /\ \A t \in Midea_temps : t \in Int
  BY DEF Bit, Midea_temps
<1>2. \A t \in Toggles(s, {"Sleep", "_SwingVToggle", "_EconoToggle", "_TurboToggle", "_LightToggle"})
        : t \in Midea_remotes
  BY Within, BitFits DEF Midea_remotes, Toggles, Each
<1>3. \A on \in Bit : Midea_setUseCelsius(s, on) \in Midea_remotes
  BY MideaSetUseCelsiusTyped
<1>4. \A on \in Bit : Midea_setEnableSensorTemp(s, on) \in Midea_remotes
  BY MideaSetEnableSensorTempTyped
<1>5. \A t \in Midea_temps : Midea_setTemp(s, t, 1) \in Midea_remotes
  BY <1>1, MideaSetTempTyped, Zenon
<1>6. \A t \in Midea_temps : /\ Midea_setSensorTemp(s, t, 0) \in Midea_remotes
                             /\ Midea_setSensorTemp(s, t, 1) \in Midea_remotes
  BY <1>1, MideaSetSensorTempTyped, Zenon
<1>7. \A t \in Minutes : /\ Midea_setOnTimer(s, t) \in Midea_remotes
                         /\ Midea_setOffTimer(s, t) \in Midea_remotes
  BY MideaSetOnTimerTyped, MideaSetOffTimerTyped, Zenon
<1>8. QED
  BY <1>2, <1>3, <1>4, <1>5, <1>6, <1>7, ZenonT(30) DEF Midea_options

LEMMA MideaSentTyped == ASSUME NEW s \in Midea_remotes PROVE Midea_sent(s) \in Midea_remotes
<1>1. 0 \in U(1)
  BY Widths
<1>2. 0 \in U(1)
  BY Widths
<1>3. 0 \in U(1)
  BY Widths
<1>4. 0 \in U(1)
  BY Widths
<1>5. QED
  BY <1>1, <1>2, <1>3, <1>4 DEF Midea_remotes, Midea_sent

LEMMA MideaFits == ASSUME NEW s \in Midea_remotes PROVE Fits("Midea", s)
<1>1. Bits["Midea"] = Midea_bits
  BY DEF Bits
<1>2. DOMAIN s = DOMAIN Midea_bits /\ \A f \in DOMAIN s : s[f] \in U(Midea_bits[f])
  BY DEF Midea_remotes, Midea_bits
<1>3. QED
  BY <1>1, <1>2 DEF Fits

----------------------------------------------------------------------------
(* TCL.                                                                    *)

TCL_remotes ==
  [Power : U(1), Light : U(1), Econo : U(1), Mode : U(4), Health : U(1), Turbo : U(1),
   Temp : U(4), Fan : U(3), SwingV : U(3), SwingH : U(1), Half : U(1)]

LEMMA TCLResetTyped == TCL_stateReset \in TCL_remotes
<1>1. {1, 0} \subseteq U(1) /\ {0} \subseteq U(3) /\ {3, 7} \subseteq U(4)
  BY Widths
<1>2. QED
  BY <1>1 DEF TCL_remotes, TCL_stateReset

LEMMA TCLConvertModeTyped == ASSUME NEW v PROVE TCL_convertMode(v) \in 0 .. 8
BY DEF TCL_convertMode, Lookup, kCool, kDry, kFan, kHeat, kTcl112AcAuto, kTcl112AcFan, :>, @@

LEMMA TCLConvertFanTyped == ASSUME NEW v PROVE TCL_convertFan(v) \in 0 .. 7
BY DEF TCL_convertFan, Lookup, kHigh, kLow, kMax, kMedium, kMin, :>, @@

LEMMA TCLSetModeTyped ==
  ASSUME NEW s \in TCL_remotes, NEW v \in 0 .. 8
  PROVE  TCL_setMode(s, v) \in TCL_remotes
<1>1. [s EXCEPT !.Fan = kTcl112AcFanHigh] \in TCL_remotes
  <2>1. kTcl112AcFanHigh \in U(3)
    BY Widths DEF kTcl112AcFanHigh
  <2>2. QED
    BY <2>1 DEF TCL_remotes
<1>2. [s EXCEPT !.Mode = v] \in TCL_remotes
  <2>1. v \in U(4)
    BY Widths
  <2>2. QED
    BY <2>1 DEF TCL_remotes
<1>3. QED
  BY <1>1, <1>2 DEF TCL_setMode

LEMMA TCLSetTempTyped ==
  ASSUME NEW s \in TCL_remotes, NEW v \in Int
  PROVE  TCL_setTemp(s, v) \in TCL_remotes
<1>1. kTcl112AcTempMax - Clamp(v, kTcl112AcTempMin, kTcl112AcTempMax) \in U(4)
  BY Widths DEF Clamp, kTcl112AcTempMax, kTcl112AcTempMin
<1>2. 0 \in U(1)
  BY Widths
<1>3. QED
  BY <1>1, <1>2 DEF TCL_remotes, TCL_setTemp

LEMMA TCLSetparamTyped ==
  ASSUME NEW s \in TCL_remotes, NEW r \in Values
  PROVE  TCL_setparam(s, r) \in TCL_remotes
<1> DEFINE moded == TCL_setMode([s EXCEPT !.Power = Truth(r.power)], TCL_convertMode(r.mode))
<1>1. [s EXCEPT !.Power = Truth(r.power)] \in TCL_remotes
  BY TruthFits DEF TCL_remotes
<1>2. moded \in TCL_remotes
  BY <1>1, TCLConvertModeTyped, TCLSetModeTyped
<1> HIDE DEF moded
<1>3. TCL_convertFan(r.fan) \in U(3)
  BY TCLConvertFanTyped, Widths
<1>4. [moded EXCEPT !.Fan = TCL_convertFan(r.fan)] \in TCL_remotes
  BY <1>2, <1>3 DEF TCL_remotes
<1>5. QED
  BY <1>4, ValuesRead, TCLSetTempTyped DEF TCL_setparam, moded

LEMMA TCLOptionsTyped ==
  ASSUME NEW s \in TCL_remotes
  PROVE  \A t \in TCL_options(s) : t \in TCL_remotes
<1>1. \A t \in Toggles(s, {"Econo", "Health", "SwingH", "Light"}) : t \in TCL_remotes
  BY Within, BitFits, MinutesFit DEF TCL_remotes, Toggles, Each
<1>2. \A t \in Each(s, "SwingV", {0, 7}) : t \in TCL_remotes
  BY Within, BitFits, MinutesFit DEF TCL_remotes, Each
<1>3. [s EXCEPT !.Turbo = 0] \in TCL_remotes
  <2>1. 0 \in U(1)
    BY Widths
  <2>2. QED
    BY <2>1 DEF TCL_remotes
<1>4. [s EXCEPT !.Turbo = 1, !.Fan = kTcl112AcFanHigh, !.SwingV = 7] \in TCL_remotes
  <2>1. 1 \in U(1)
    BY Widths
  <2>2. kTcl112AcFanHigh \in U(3)
    BY Widths DEF kTcl112AcFanHigh
  <2>3. 7 \in U(3)
    BY Widths
  <2>4. QED
    BY <2>1, <2>2, <2>3 DEF TCL_remotes
<1>5. QED
  BY <1>1, <1>2, <1>3, <1>4, ZenonT(30) DEF TCL_options

LEMMA TCLFits == ASSUME NEW s \in TCL_remotes PROVE Fits("TCL", s)
<1>1. Bits["TCL"] = TCL_bits
  BY DEF Bits
<1>2. DOMAIN s = DOMAIN TCL_bits /\ \A f \in DOMAIN s : s[f] \in U(TCL_bits[f])
  BY DEF TCL_remotes, TCL_bits
<1>3. QED
  BY <1>1, <1>2 DEF Fits

----------------------------------------------------------------------------
(* Goodweather.                                                            *)

Goodweather_remotes ==
  [Light : U(1), Turbo : U(1), Command : U(4), Sleep : U(1), Power : U(1), Swing : U(2),
   Fan : U(2), Temp : U(4), Mode : U(3)]

LEMMA GoodweatherResetTyped == Goodweather_stateReset \in Goodweather_remotes
<1>1. {0} \subseteq U(1) /\ {0} \subseteq U(2) /\ {0} \subseteq U(3) /\ {0} \subseteq U(4)
  BY Widths
<1>2. QED
  BY <1>1 DEF Goodweather_remotes, Goodweather_stateReset, Goodweather_bits

LEMMA GoodweatherSetTempTyped ==
  ASSUME NEW s \in Goodweather_remotes, NEW v \in Int
  PROVE  Goodweather_setTemp(s, v) \in Goodweather_remotes
<1>1. s.Command \in U(4) /\ s.Temp \in U(4)
  BY DEF Goodweather_remotes
<1>2. (LET new == Clamp(v, kGoodweatherTempMin, kGoodweatherTempMax) - kGoodweatherTempMin IN
          new) \in U(4)
  BY Widths, <1>1 DEF Clamp, kGoodweatherTempMax, kGoodweatherTempMin
<1>3. (LET new == Clamp(v, kGoodweatherTempMin, kGoodweatherTempMax) - kGoodweatherTempMin IN
          CASE new > s.Temp -> kGoodweatherCmdUpTemp [] new < s.Temp -> kGoodweatherCmdDownTemp []
          OTHER -> s.Command) \in U(4)
  BY Widths, <1>1
     DEF Clamp, kGoodweatherCmdDownTemp, kGoodweatherCmdUpTemp, kGoodweatherTempMax,
         kGoodweatherTempMin
<1>4. QED
  BY <1>2, <1>3 DEF Goodweather_remotes, Goodweather_setTemp

LEMMA GoodweatherSetparamTyped ==
  ASSUME NEW s \in Goodweather_remotes, NEW r \in Values
  PROVE  Goodweather_setparam(s, r) \in Goodweather_remotes
<1>1. /\ GreeMode(r.mode) \in U(3) /\ GoodweatherFan(r.fan) \in U(2)
      /\ kGoodweatherCmdFan \in U(4)
  BY GreeModeFits, GoodweatherFanFits, Widths DEF kGoodweatherCmdFan
<1>2. [s EXCEPT !.Power = Truth(r.power), !.Mode = GreeMode(r.mode),
                !.Fan = GoodweatherFan(r.fan), !.Command = kGoodweatherCmdFan]
        \in Goodweather_remotes
  BY <1>1, TruthFits DEF Goodweather_remotes
<1>3. QED
  BY <1>2, ValuesRead, GoodweatherSetTempTyped DEF Goodweather_setparam

LEMMA GoodweatherOptionsTyped ==
  ASSUME NEW s \in Goodweather_remotes
  PROVE  \A t \in Goodweather_options(s) : t \in Goodweather_remotes
<1>1. ASSUME NEW v \in 0 .. 3
      PROVE  [s EXCEPT !.Swing = OneOf(v, 0 .. 2, 2), !.Command = kGoodweatherCmdSwing] \in
          Goodweather_remotes
  <2>1. OneOf(v, 0 .. 2, 2) \in U(2)
    BY Widths, <1>1 DEF OneOf
  <2>2. kGoodweatherCmdSwing \in U(4)
    BY Widths, <1>1 DEF kGoodweatherCmdSwing
  <2>3. QED
    BY <2>1, <2>2 DEF Goodweather_remotes
<1>2. ASSUME NEW on \in Bit
      PROVE  [s EXCEPT !.Sleep = on, !.Command = kGoodweatherCmdSleep] \in Goodweather_remotes
  <2>1. on \in U(1)
    BY Widths, <1>2 DEF Bit
  <2>2. kGoodweatherCmdSleep \in U(4)
    BY Widths, <1>2 DEF kGoodweatherCmdSleep, Bit
  <2>3. QED
    BY <2>1, <2>2 DEF Goodweather_remotes
<1>3. ASSUME NEW on \in Bit
      PROVE  [s EXCEPT !.Turbo = on, !.Command = kGoodweatherCmdTurbo] \in Goodweather_remotes
  <2>1. on \in U(1)
    BY Widths, <1>3 DEF Bit
  <2>2. kGoodweatherCmdTurbo \in U(4)
    BY Widths, <1>3 DEF kGoodweatherCmdTurbo, Bit
  <2>3. QED
    BY <2>1, <2>2 DEF Goodweather_remotes
<1>4. ASSUME NEW on \in Bit
      PROVE  [s EXCEPT !.Light = on, !.Command = kGoodweatherCmdLight] \in Goodweather_remotes
  <2>1. on \in U(1)
    BY Widths, <1>4 DEF Bit
  <2>2. kGoodweatherCmdLight \in U(4)
    BY Widths, <1>4 DEF kGoodweatherCmdLight, Bit
  <2>3. QED
    BY <2>1, <2>2 DEF Goodweather_remotes
<1>5. ASSUME NEW c \in 0 .. 12
      PROVE  [s EXCEPT !.Command = IF c <= kGoodweatherCmdLight THEN c ELSE @] \in
          Goodweather_remotes
  <2>1. s.Command \in U(4)
    BY DEF Goodweather_remotes
  <2>2. (IF c <= kGoodweatherCmdLight THEN c ELSE s.Command) \in U(4)
    BY Widths, <2>1, <1>5 DEF kGoodweatherCmdLight
  <2>3. QED
    BY <2>2 DEF Goodweather_remotes
<1>6. QED
  BY <1>1, <1>2, <1>3, <1>4, <1>5, ZenonT(30) DEF Goodweather_options

LEMMA GoodweatherFits == ASSUME NEW s \in Goodweather_remotes PROVE Fits("Goodweather", s)
<1>1. Bits["Goodweather"] = Goodweather_bits
  BY DEF Bits
<1>2. DOMAIN s = DOMAIN Goodweather_bits /\ \A f \in DOMAIN s : s[f] \in U(Goodweather_bits[f])
  BY DEF Goodweather_remotes, Goodweather_bits
<1>3. QED
  BY <1>1, <1>2 DEF Fits

----------------------------------------------------------------------------
(* Neoclima.                                                               *)

Neoclima_remotes ==
  [CHeat : U(1), Ion : U(1), Light : U(1), Hold : U(1), Turbo : U(1), Econo : U(1), Eye : U(1),
   Button : U(5), Fresh : U(1), Sleep : U(1), Power : U(1), SwingV : U(2), SwingH : U(1),
   Fan : U(2), UseFah : U(1), Temp : U(5), Mode : U(3)]

LEMMA NeoclimaResetTyped == Neoclima_stateReset \in Neoclima_remotes
<1>1. {0, 1} \subseteq U(1) /\ {0, 2, 3} \subseteq U(2) /\ {0, 1} \subseteq U(3) /\ {0, 10}
          \subseteq U(5)
  BY Widths
<1>2. QED
  BY <1>1 DEF Neoclima_remotes, Neoclima_stateReset, Neoclima_bits

LEMMA NeoclimaSetFanTyped ==
  ASSUME NEW s \in Neoclima_remotes, NEW v
  PROVE  Neoclima_setFan(s, v) \in Neoclima_remotes
<1>1. s.Mode \in U(3)
  BY DEF Neoclima_remotes
<1>2. kNeoclimaButtonFanSpeed \in U(5)
  BY Widths, <1>1 DEF kNeoclimaButtonFanSpeed
<1>3. (IF s.Mode = kGreeDry THEN kNeoclimaFanLow ELSE OneOf(v, 0 .. 3, 0)) \in U(2)
  BY Widths, <1>1 DEF OneOf, kGreeDry, kNeoclimaFanLow
<1>4. QED
  BY <1>2, <1>3 DEF Neoclima_remotes, Neoclima_setFan

LEMMA NeoclimaSetModeTyped ==
  ASSUME NEW s \in Neoclima_remotes, NEW v
  PROVE  Neoclima_setMode(s, v) \in Neoclima_remotes
<1> DEFINE fanned == IF v = kGreeDry THEN Neoclima_setFan(s, kNeoclimaFanLow) ELSE s
           m == OneOf(v, kGreeAuto .. kGreeHeat, kGreeAuto)
<1>1. fanned \in Neoclima_remotes
  BY NeoclimaSetFanTyped
<1>2. m \in U(3) /\ kNeoclimaButtonMode \in U(5)
  BY Widths DEF OneOf, kGreeAuto, kGreeHeat, kNeoclimaButtonMode
<1> HIDE DEF fanned, m
<1>3. [fanned EXCEPT !.Mode = m, !.Button = kNeoclimaButtonMode] \in Neoclima_remotes
  BY <1>1, <1>2 DEF Neoclima_remotes
<1>4. QED
  BY <1>3, Zenon DEF Neoclima_setMode, fanned, m

LEMMA NeoclimaSetTempTyped ==
  ASSUME NEW s \in Neoclima_remotes, NEW v \in Int, NEW b \in Bit
  PROVE  Neoclima_setTemp(s, v, b) \in Neoclima_remotes
<1> DEFINE old == s.Temp + Neoclima_min(s.UseFah)
           new == Clamp(v, Neoclima_min(b), IF b = 1 THEN 90 ELSE 32)
           button == CASE old > new -> kNeoclimaButtonTempDown
                       [] new > old -> kNeoclimaButtonTempUp
                       [] OTHER -> s.Button
<1>1. s.Button \in U(5)
  BY DEF Neoclima_remotes
<1>2. button \in U(5)
  BY <1>1, Widths DEF kNeoclimaButtonTempDown, kNeoclimaButtonTempUp
<1>3. new - Neoclima_min(b) \in U(5) /\ b \in U(1)
  BY Widths DEF Neoclima_min, Clamp, Bit
<1> HIDE DEF old, new, button
<1>4. ASSUME NEW t \in U(5)
      PROVE  [s EXCEPT !.UseFah = b, !.Temp = t, !.Button = button] \in Neoclima_remotes
  BY <1>2, <1>3 DEF Neoclima_remotes
<1>5. QED
  BY <1>3, <1>4, Zenon DEF Neoclima_setTemp, button, old, new

LEMMA NeoclimaSetparamTyped ==
  ASSUME NEW s \in Neoclima_remotes, NEW r \in Values
  PROVE  Neoclima_setparam(s, r) \in Neoclima_remotes
<1>1. kNeoclimaButtonPower \in U(5)
  BY Widths DEF kNeoclimaButtonPower
<1>2. [s EXCEPT !.Power = Truth(r.power), !.Button = kNeoclimaButtonPower] \in Neoclima_remotes
  BY <1>1, TruthFits DEF Neoclima_remotes
<1>3. QED
  BY <1>2, ValuesRead, NeoclimaSetModeTyped, NeoclimaSetFanTyped, NeoclimaSetTempTyped
     DEF Neoclima_setparam, Bit

LEMMA NeoclimaPressTyped ==
  ASSUME NEW s \in Neoclima_remotes
  PROVE  \A t \in Neoclima_pressed(s) : t \in Neoclima_remotes
<1>1. ASSUME NEW f \in DOMAIN kNeoclimaButtons PROVE kNeoclimaButtons[f] \in U(5)
  BY Widths DEF kNeoclimaButtons
<1>2. ASSUME NEW f \in DOMAIN kNeoclimaButtons, NEW b \in U(1), NEW k \in U(5)
      PROVE  [s EXCEPT ![f] = b, !.Button = k] \in Neoclima_remotes
  BY DEF Neoclima_remotes, kNeoclimaButtons
<1>3. ASSUME NEW f \in DOMAIN kNeoclimaButtons, NEW on \in Bit
      PROVE  Neoclima_press(s, f, on) \in Neoclima_remotes
  BY <1>1, <1>2, BitFits, Zenon DEF Neoclima_press
<1>4. QED
  BY <1>3 DEF Neoclima_pressed

LEMMA NeoclimaOptionsTyped ==
  ASSUME NEW s \in Neoclima_remotes
  PROVE  \A t \in Neoclima_options(s) : t \in Neoclima_remotes
<1> DEFINE own1 == {Neoclima_setTemp(s, t, 1) : t \in {0, 61, 75, 90, 255}}
           own2 == {[s EXCEPT !.Button = OneOf(b, {19, 30}, kNeoclimaButtonPower)] : b \in
               {19, 30, 31}}
<1>1. Neoclima_options(s) = Neoclima_pressed(s) \union {[s EXCEPT !.Button =
          kNeoclimaButtonSwing, !.SwingV = 2 - on] : on \in Bit} \union {[s EXCEPT !.Button =
          kNeoclimaButtonAirFlow, !.SwingH = 1 - on] : on \in Bit} \union own1 \union own2
  BY DEF Neoclima_options
<1>2. ASSUME NEW t \in {0, 61, 75, 90, 255} PROVE Neoclima_setTemp(s, t, 1) \in Neoclima_remotes
  BY <1>2, Widths, Binary, NeoclimaSetTempTyped
<1>3. \A t \in own1 : t \in Neoclima_remotes
  BY <1>2
<1>4. ASSUME NEW b \in {19, 30, 31}
      PROVE  [s EXCEPT !.Button = OneOf(b, {19, 30}, kNeoclimaButtonPower)] \in
          Neoclima_remotes
  <2>1. OneOf(b, {19, 30}, kNeoclimaButtonPower) \in U(5)
    BY Widths, <1>4 DEF OneOf, kNeoclimaButtonPower
  <2>2. QED
    BY <2>1 DEF Neoclima_remotes
<1>5. \A t \in own2 : t \in Neoclima_remotes
  BY <1>4
<1> HIDE DEF own1, own2
<1>6. \A t \in Neoclima_pressed(s) : t \in Neoclima_remotes
  BY NeoclimaPressTyped
<1>7. ASSUME NEW on \in Bit
      PROVE  [s EXCEPT !.Button = kNeoclimaButtonSwing, !.SwingV = 2 - on] \in
          Neoclima_remotes
  <2>1. kNeoclimaButtonSwing \in U(5)
    BY Widths, <1>7 DEF kNeoclimaButtonSwing, Bit
  <2>2. 2 - on \in U(2)
    BY Widths, <1>7 DEF Bit
  <2>3. QED
    BY <2>1, <2>2 DEF Neoclima_remotes
<1>8. ASSUME NEW on \in Bit
      PROVE  [s EXCEPT !.Button = kNeoclimaButtonAirFlow, !.SwingH = 1 - on] \in
          Neoclima_remotes
  <2>1. kNeoclimaButtonAirFlow \in U(5)
    BY Widths, <1>8 DEF kNeoclimaButtonAirFlow, Bit
  <2>2. 1 - on \in U(1)
    BY Widths, <1>8 DEF Bit
  <2>3. QED
    BY <2>1, <2>2 DEF Neoclima_remotes
<1>9. QED
  BY <1>3, <1>5, <1>6, <1>7, <1>8, <1>1, ZenonT(30)

LEMMA NeoclimaFits == ASSUME NEW s \in Neoclima_remotes PROVE Fits("Neoclima", s)
<1>1. Bits["Neoclima"] = Neoclima_bits
  BY DEF Bits
<1>2. DOMAIN s = DOMAIN Neoclima_bits /\ \A f \in DOMAIN s : s[f] \in U(Neoclima_bits[f])
  BY DEF Neoclima_remotes, Neoclima_bits
<1>3. QED
  BY <1>1, <1>2 DEF Fits

----------------------------------------------------------------------------
(* Casper.                                                                 *)

Casper_remotes ==
  [Power : U(8), Mode : U(8), Fan : U(8), Temp : U(8), Swing : U(8), Sleep : U(8), unset : U(1)]

LEMMA CasperResetTyped == \A s \in Casper_fresh : s \in Casper_remotes
<1>1. 0 \in U(1) /\ 0 \in U(8) /\ \A b \in Bit : b \in U(1)
  BY Widths DEF Bit
<1>2. Casper_stateReset \in Casper_remotes
  BY <1>1 DEF Casper_remotes, Casper_stateReset, Casper_bits
<1>3. \A b \in Bit : [Casper_stateReset EXCEPT !.unset = b] \in Casper_remotes
  BY <1>1, <1>2 DEF Casper_remotes
<1>4. QED
  BY <1>3, Zenon DEF Casper_fresh

LEMMA CasperSetTempTyped ==
  ASSUME NEW s \in Casper_remotes, NEW v \in 0 .. 255
  PROVE  Casper_setTemp(s, v) \in Casper_remotes
<1>1. ((v - 16) * 8 + 64) % 256 \in U(8)
  BY Widths
<1>2. \A t \in U(8) : [s EXCEPT !.Temp = t] \in Casper_remotes
  BY DEF Casper_remotes
<1>3. QED
  BY <1>1, <1>2, Zenon DEF Casper_setTemp

LEMMA CasperSetparamTyped ==
  ASSUME NEW s \in Casper_remotes, NEW r \in Values
  PROVE  Casper_setparam(s, r) \in Casper_remotes
<1> DEFINE power == IF r.power = 1 THEN irCasper_Power_ON ELSE 0
           mode == Lookup(0 :> irCasper_Mode_Cool @@ 1 :> irCasper_Mode_Fan
                          @@ 3 :> irCasper_Mode_Dry, r.mode, irCasper_Mode_Auto)
           fan == Lookup(0 :> 96 @@ 1 :> 64 @@ 2 :> 32 @@ 3 :> 36, r.fan, irCasper_Speed_Auto)
<1>1. power \in U(8)
  BY Widths DEF irCasper_Power_ON
<1>2. mode \in U(8)
  BY Widths
     DEF Lookup, irCasper_Mode_Cool, irCasper_Mode_Fan, irCasper_Mode_Dry, irCasper_Mode_Auto,
         :>, @@
<1>3. fan \in U(8)
  BY Widths DEF Lookup, irCasper_Speed_Auto, :>, @@
<1>4. irCasper_SwingUpDown_OFF \in U(8) /\ 0 \in U(8)
  BY Widths DEF irCasper_SwingUpDown_OFF
<1> HIDE DEF power, mode, fan
<1>5. [s EXCEPT !.Power = power, !.Mode = mode, !.Fan = fan, !.Swing = irCasper_SwingUpDown_OFF,
                !.Sleep = 0] \in Casper_remotes
  BY <1>1, <1>2, <1>3, <1>4 DEF Casper_remotes
<1>6. r.temp \in 0 .. 255
  BY ValuesRead
<1>7. QED
  BY <1>5, <1>6, CasperSetTempTyped, Zenon DEF Casper_setparam, power, mode, fan

LEMMA CasperOptionsTyped ==
  ASSUME NEW s \in Casper_remotes
  PROVE  \A t \in Casper_options(s) : t \in Casper_remotes
<1>1. ASSUME NEW v \in 0 .. 2
      PROVE  [s EXCEPT !.Swing = IF v = 1 THEN 0 ELSE irCasper_SwingUpDown_OFF] \in
          Casper_remotes
  <2>1. (IF v = 1 THEN 0 ELSE irCasper_SwingUpDown_OFF) \in U(8)
    BY Widths, <1>1 DEF irCasper_SwingUpDown_OFF
  <2>2. QED
    BY <2>1 DEF Casper_remotes
<1>2. ASSUME NEW v \in 0 .. 2
      PROVE  [s EXCEPT !.Sleep = IF v = 1 THEN irCasper_Sleep_ON ELSE 0] \in Casper_remotes
  <2>1. (IF v = 1 THEN irCasper_Sleep_ON ELSE 0) \in U(8)
    BY Widths, <1>2 DEF irCasper_Sleep_ON
  <2>2. QED
    BY <2>1 DEF Casper_remotes
<1>3. QED
  BY <1>1, <1>2, ZenonT(30) DEF Casper_options

LEMMA CasperFits == ASSUME NEW s \in Casper_remotes PROVE Fits("Casper", s)
<1>1. Bits["Casper"] = Casper_bits
  BY DEF Bits
<1>2. DOMAIN s = DOMAIN Casper_bits /\ \A f \in DOMAIN s : s[f] \in U(Casper_bits[f])
  BY DEF Casper_remotes, Casper_bits
<1>3. QED
  BY <1>1, <1>2 DEF Fits

----------------------------------------------------------------------------
(* Argo.                                                                   *)

Argo_remotes ==
  [Mode : U(3), Temp : U(5), Fan : U(2), RoomTemp : U(5), Night : U(1), Max : U(1), Power : U(1),
   iFeel : U(1), flap_mode : U(8)]

LEMMA ArgoConvertFanTyped == ASSUME NEW v PROVE Argo_convertFan(v) \in 0 .. 3
BY DEF Argo_convertFan, Lookup, kArgoFan3, kHigh, kLow, kMax, kMedium, kMin, :>, @@

LEMMA ArgoSetTempTyped ==
  ASSUME NEW s \in Argo_remotes, NEW v \in Int
  PROVE  Argo_setTemp(s, v) \in Argo_remotes
<1>1. Clamp(v, kArgoMinTemp, kArgoMaxTemp) - kArgoTempDelta \in U(5)
  BY Widths DEF Clamp, kArgoMaxTemp, kArgoMinTemp, kArgoTempDelta
<1>2. QED
  BY <1>1 DEF Argo_remotes, Argo_setTemp

LEMMA ArgoSetRoomTempTyped ==
  ASSUME NEW s \in Argo_remotes, NEW v \in Int
  PROVE  Argo_setRoomTemp(s, v) \in Argo_remotes
<1>1. Clamp(v, kArgoTempDelta, kArgoMaxRoomTemp) - kArgoTempDelta \in U(5)
  BY Widths DEF Clamp, kArgoMaxRoomTemp, kArgoTempDelta
<1>2. QED
  BY <1>1 DEF Argo_remotes, Argo_setRoomTemp

LEMMA ArgoSetModeTyped ==
  ASSUME NEW s \in Argo_remotes, NEW v
  PROVE  Argo_setMode(s, v) \in Argo_remotes
<1>1. OneOf(v, 0 .. kArgoHeatAuto, kArgoAuto) \in U(3)
  BY Widths DEF OneOf, kArgoAuto, kArgoHeatAuto
<1>2. QED
  BY <1>1 DEF Argo_remotes, Argo_setMode

LEMMA ArgoResetTyped == \A s \in Argo_fresh : s \in Argo_remotes
<1>1. /\ 0 \in U(1) /\ 0 \in U(2) /\ 0 \in U(5) /\ 0 \in U(8) /\ 255 \in U(8)
      /\ kArgoAuto \in U(3)
  BY Widths DEF kArgoAuto
<1>2. 20 \in Int /\ 25 \in Int
  OBVIOUS
<1>3. ASSUME NEW s \in Argo_remotes
      PROVE  Argo_setRoomTemp(Argo_setTemp(s, 20), 25) \in Argo_remotes
  BY <1>2, ArgoSetTempTyped, ArgoSetRoomTempTyped, Zenon
<1>4. ASSUME NEW v \in U(8)
      PROVE  Argo_setRoomTemp(Argo_setTemp(
               [[f \in DOMAIN Argo_bits |-> 0] EXCEPT !.Mode = kArgoAuto, !.flap_mode = v], 20), 25)
               \in Argo_remotes
  <2> DEFINE s == [[f \in DOMAIN Argo_bits |-> 0] EXCEPT !.Mode = kArgoAuto, !.flap_mode = v]
  <2>1. s \in Argo_remotes
    BY <1>1, ZenonT(30) DEF Argo_remotes, Argo_bits
  <2> HIDE DEF s
  <2>2. Argo_setRoomTemp(Argo_setTemp(s, 20), 25) \in Argo_remotes
    BY <1>3, <2>1, Zenon
  <2>3. QED
    BY <2>2 DEF s
<1>5. \A v \in {0, 255} : v \in U(8)
  BY <1>1
<1>6. QED
  BY <1>4, <1>5 DEF Argo_fresh

LEMMA ArgoSetparamTyped ==
  ASSUME NEW s \in Argo_remotes, NEW r \in Values
  PROVE  Argo_setparam(s, r) \in Argo_remotes
<1> DEFINE moded == Argo_setMode([s EXCEPT !.Power = Truth(r.power)], Argo_convertMode(r.mode))
           fan == Clamp(Argo_convertFan(r.fan), 0, kArgoFan3)
<1>1. [s EXCEPT !.Power = Truth(r.power)] \in Argo_remotes
  BY TruthFits DEF Argo_remotes
<1>2. moded \in Argo_remotes
  BY <1>1, ArgoSetModeTyped
<1>3. fan \in U(2)
  BY ArgoConvertFanTyped, Widths DEF Clamp, kArgoFan3
<1> HIDE DEF moded, fan
<1>4. [moded EXCEPT !.Fan = fan] \in Argo_remotes
  BY <1>2, <1>3 DEF Argo_remotes
<1>5. QED
  BY <1>4, ValuesRead, ArgoSetTempTyped DEF Argo_setparam, moded, fan

LEMMA ArgoOptionsTyped ==
  ASSUME NEW s \in Argo_remotes
  PROVE  \A t \in Argo_options(s) : t \in Argo_remotes
<1> DEFINE own1 == {Argo_setRoomTemp(s, t) : t \in {0, 20, 255}}
           own2 == {Argo_setMode(s, m) : m \in {kArgoOff, kArgoHeatAuto, 6}}
<1>1. Argo_options(s) = Toggles(s, {"Max", "Night", "iFeel"}) \union Each(s, "flap_mode", 0 ..
          7) \union own1 \union own2
  BY DEF Argo_options
<1>2. ASSUME NEW t \in {0, 20, 255} PROVE Argo_setRoomTemp(s, t) \in Argo_remotes
  BY <1>2, Widths, ArgoSetRoomTempTyped
<1>3. \A t \in own1 : t \in Argo_remotes
  BY <1>2
<1>4. ASSUME NEW m \in {kArgoOff, kArgoHeatAuto, 6} PROVE Argo_setMode(s, m) \in Argo_remotes
  BY <1>4, Widths, ArgoSetModeTyped
<1>5. \A t \in own2 : t \in Argo_remotes
  BY <1>4
<1> HIDE DEF own1, own2
<1>6. \A t \in Toggles(s, {"Max", "Night", "iFeel"}) : t \in Argo_remotes
  BY Within, BitFits, MinutesFit DEF Argo_remotes, Toggles, Each
<1>7. \A t \in Each(s, "flap_mode", 0 .. 7) : t \in Argo_remotes
  BY Within, BitFits, MinutesFit DEF Argo_remotes, Each
<1>8. QED
  BY <1>3, <1>5, <1>6, <1>7, <1>1, ZenonT(30)

LEMMA ArgoFits == ASSUME NEW s \in Argo_remotes PROVE Fits("Argo", s)
<1>1. Bits["Argo"] = Argo_bits
  BY DEF Bits
<1>2. DOMAIN s = DOMAIN Argo_bits /\ \A f \in DOMAIN s : s[f] \in U(Argo_bits[f])
  BY DEF Argo_remotes, Argo_bits
<1>3. QED
  BY <1>1, <1>2 DEF Fits

----------------------------------------------------------------------------
(* Airwell.                                                                *)

Airwell_remotes ==
  [Temp : U(4), Fan : U(2), Mode : U(3), PowerToggle : U(1)]

LEMMA AirwellResetTyped == Airwell_stateReset \in Airwell_remotes
<1>1. {0} \subseteq U(1) /\ {0} \subseteq U(2) /\ {kAirwellFan} \subseteq U(3) /\ {10}
          \subseteq U(4)
  BY Widths DEF kAirwellFan
<1>2. QED
  BY <1>1 DEF Airwell_remotes, Airwell_stateReset

LEMMA AirwellConvertFanTyped == ASSUME NEW v PROVE Airwell_convertFan(v) \in 0 .. 3
BY DEF Airwell_convertFan, Lookup, kAirwellFanAuto, kHigh, kLow, kMax, kMedium, kMin, :>, @@

LEMMA AirwellSetFanTyped ==
  ASSUME NEW s \in Airwell_remotes, NEW v \in Int
  PROVE  Airwell_setFan(s, v) \in Airwell_remotes
<1>1. s.Mode \in U(3)
  BY DEF Airwell_remotes
<1>2. (IF s.Mode = kAirwellDry THEN 0 ELSE Clamp(v, 0, kAirwellFanAuto)) \in U(2)
  BY Widths, <1>1 DEF Clamp, kAirwellDry, kAirwellFanAuto
<1>3. QED
  BY <1>2 DEF Airwell_remotes, Airwell_setFan

LEMMA AirwellSetModeTyped ==
  ASSUME NEW s \in Airwell_remotes, NEW v
  PROVE  Airwell_setMode(s, v) \in Airwell_remotes
<1> DEFINE m == OneOf(v, 1 .. kAirwellFan, kAirwellAuto)
<1>1. m \in U(3)
  BY Widths DEF OneOf, kAirwellFan, kAirwellAuto
<1> HIDE DEF m
<1>2. [s EXCEPT !.Mode = m] \in Airwell_remotes
  BY <1>1 DEF Airwell_remotes
<1>3. s.Fan \in U(2)
  BY DEF Airwell_remotes
<1>4. s.Fan \in Int
  BY <1>3, Widths
<1>5. QED
  BY <1>2, <1>4, AirwellSetFanTyped DEF Airwell_setMode, m

LEMMA AirwellSetTempTyped ==
  ASSUME NEW s \in Airwell_remotes, NEW v \in Int
  PROVE  Airwell_setTemp(s, v) \in Airwell_remotes
<1>1. Clamp(v, kAirwellMinTemp, kAirwellMaxTemp) - kAirwellMinTemp + 1 \in U(4)
  BY Widths DEF Clamp, kAirwellMaxTemp, kAirwellMinTemp
<1>2. QED
  BY <1>1 DEF Airwell_remotes, Airwell_setTemp

LEMMA AirwellSetparamTyped ==
  ASSUME NEW s \in Airwell_remotes, NEW r \in Values
  PROVE  Airwell_setparam(s, r) \in Airwell_remotes
<1>1. [s EXCEPT !.PowerToggle = Truth(r.power)] \in Airwell_remotes
  BY TruthFits DEF Airwell_remotes
<1>2. QED
  BY <1>1, ValuesRead, AirwellConvertFanTyped, AirwellSetFanTyped, AirwellSetModeTyped,
     AirwellSetTempTyped
     DEF Airwell_setparam

LEMMA AirwellOptionsTyped ==
  ASSUME NEW s \in Airwell_remotes
  PROVE  \A t \in Airwell_options(s) : t \in Airwell_remotes
<1>1. \A t \in Toggles(s, {"PowerToggle"}) : t \in Airwell_remotes
  BY Within, BitFits, MinutesFit DEF Airwell_remotes, Toggles, Each
<1>2. ASSUME NEW m \in 0 .. 6 PROVE Airwell_setMode(s, m) \in Airwell_remotes
  BY <1>2, Widths, AirwellSetFanTyped, AirwellSetModeTyped
<1>3. QED
  BY <1>1, <1>2, ZenonT(30) DEF Airwell_options

LEMMA AirwellFits == ASSUME NEW s \in Airwell_remotes PROVE Fits("Airwell", s)
<1>1. Bits["Airwell"] = Airwell_bits
  BY DEF Bits
<1>2. DOMAIN s = DOMAIN Airwell_bits /\ \A f \in DOMAIN s : s[f] \in U(Airwell_bits[f])
  BY DEF Airwell_remotes, Airwell_bits
<1>3. QED
  BY <1>1, <1>2 DEF Fits

----------------------------------------------------------------------------
(* Amcor.                                                                  *)

Amcor_remotes ==
  [Mode : U(3), Fan : U(3), Temp : U(6), Power : U(4), Max : U(2), Vent : U(2)]

LEMMA AmcorResetTyped == Amcor_stateReset \in Amcor_remotes
<1>1. {0} \subseteq U(2) /\ {kAmcorAuto, kAmcorFanAuto} \subseteq U(3) /\ {0} \subseteq U(4)
          /\ {25} \subseteq U(6)
  BY Widths DEF kAmcorAuto, kAmcorFanAuto
<1>2. QED
  BY <1>1 DEF Amcor_remotes, Amcor_stateReset

LEMMA AmcorSetPowerTyped ==
  ASSUME NEW s \in Amcor_remotes, NEW v
  PROVE  Amcor_setPower(s, v) \in Amcor_remotes
<1>1. (IF v = 1 THEN kAmcorPowerOn ELSE kAmcorPowerOff) \in U(4)
  BY Widths DEF kAmcorPowerOff, kAmcorPowerOn
<1>2. QED
  BY <1>1 DEF Amcor_remotes, Amcor_setPower

LEMMA AmcorSetTempTyped ==
  ASSUME NEW s \in Amcor_remotes, NEW v \in Int
  PROVE  Amcor_setTemp(s, v) \in Amcor_remotes
<1>1. Clamp(v, kAmcorMinTemp, kAmcorMaxTemp) \in U(6)
  BY Widths DEF Clamp, kAmcorMaxTemp, kAmcorMinTemp
<1>2. QED
  BY <1>1 DEF Amcor_remotes, Amcor_setTemp

LEMMA AmcorSetFanTyped ==
  ASSUME NEW s \in Amcor_remotes, NEW v
  PROVE  Amcor_setFan(s, v) \in Amcor_remotes
<1>1. OneOf(v, 1 .. kAmcorFanAuto, kAmcorFanAuto) \in U(3)
  BY Widths DEF OneOf, kAmcorFanAuto
<1>2. QED
  BY <1>1 DEF Amcor_remotes, Amcor_setFan

LEMMA AmcorSetModeTyped ==
  ASSUME NEW s \in Amcor_remotes, NEW v
  PROVE  Amcor_setMode(s, v) \in Amcor_remotes
<1>1. OneOf(v, 1 .. kAmcorAuto, kAmcorAuto) \in U(3)
  BY Widths DEF OneOf, kAmcorAuto
<1>2. (IF v = kAmcorFan THEN kAmcorVentOn ELSE 0) \in U(2)
  BY Widths DEF kAmcorFan, kAmcorVentOn
<1>3. QED
  BY <1>1, <1>2 DEF Amcor_remotes, Amcor_setMode

LEMMA AmcorSetMaxTyped ==
  ASSUME NEW s \in Amcor_remotes, NEW v
  PROVE  Amcor_setMax(s, v) \in Amcor_remotes
<1>1. [s EXCEPT !.Max = 0] \in Amcor_remotes
  <2>1. 0 \in U(2)
    BY Widths
  <2>2. QED
    BY <2>1 DEF Amcor_remotes
<1>2. [s EXCEPT !.Max = kAmcorMax, !.Temp = kAmcorMinTemp] \in Amcor_remotes
  <2>1. kAmcorMax \in U(2)
    BY Widths DEF kAmcorMax
  <2>2. kAmcorMinTemp \in U(6)
    BY Widths DEF kAmcorMinTemp
  <2>3. QED
    BY <2>1, <2>2 DEF Amcor_remotes
<1>3. [s EXCEPT !.Max = kAmcorMax, !.Temp = kAmcorMaxTemp] \in Amcor_remotes
  <2>1. kAmcorMax \in U(2)
    BY Widths DEF kAmcorMax
  <2>2. kAmcorMaxTemp \in U(6)
    BY Widths DEF kAmcorMaxTemp
  <2>3. QED
    BY <2>1, <2>2 DEF Amcor_remotes
<1>4. QED
  BY <1>1, <1>2, <1>3 DEF Amcor_setMax

LEMMA AmcorSetparamTyped ==
  ASSUME NEW s \in Amcor_remotes, NEW r \in Values
  PROVE  Amcor_setparam(s, r) \in Amcor_remotes
<1>1. Amcor_setPower(s, Truth(r.power)) \in Amcor_remotes
  BY TruthFits, AmcorSetPowerTyped
<1>2. QED
  BY <1>1, ValuesRead, AmcorSetPowerTyped, AmcorSetTempTyped, AmcorSetFanTyped, AmcorSetModeTyped
     DEF Amcor_setparam

LEMMA AmcorOptionsTyped ==
  ASSUME NEW s \in Amcor_remotes
  PROVE  \A t \in Amcor_options(s) : t \in Amcor_remotes
<1>1. ASSUME NEW on \in Bit PROVE Amcor_setMax(s, on) \in Amcor_remotes
  BY <1>1, Widths, AmcorSetMaxTyped
<1>2. ASSUME NEW m \in 0 .. 6 PROVE Amcor_setMode(s, m) \in Amcor_remotes
  BY <1>2, Widths, AmcorSetModeTyped
<1>3. ASSUME NEW v \in {0, 7} PROVE Amcor_setFan(s, v) \in Amcor_remotes
  BY <1>3, Widths, AmcorSetFanTyped
<1>4. QED
  BY <1>1, <1>2, <1>3, ZenonT(30) DEF Amcor_options

LEMMA AmcorFits == ASSUME NEW s \in Amcor_remotes PROVE Fits("Amcor", s)
<1>1. Bits["Amcor"] = Amcor_bits
  BY DEF Bits
<1>2. DOMAIN s = DOMAIN Amcor_bits /\ \A f \in DOMAIN s : s[f] \in U(Amcor_bits[f])
  BY DEF Amcor_remotes, Amcor_bits
<1>3. QED
  BY <1>1, <1>2 DEF Fits

----------------------------------------------------------------------------
(* LG.                                                                     *)

LG_remotes ==
  [Fan : U(3), Temp : U(4), Mode : U(3), Power : U(2), _temp : U(8), _protocol : U(1)]

LEMMA LGResetTyped == LG_stateReset \in LG_remotes
<1>1. {0} \subseteq U(1) /\ {kLgAcPowerOff} \subseteq U(2) /\ {5, 0} \subseteq U(3) /\ {0}
          \subseteq U(4) /\ {15} \subseteq U(8)
  BY Widths DEF kLgAcPowerOff
<1>2. QED
  BY <1>1 DEF LG_remotes, LG_stateReset

LEMMA LGSetTempTyped ==
  ASSUME NEW s \in LG_remotes, NEW v \in Int
  PROVE  LG_setTemp(s, v) \in LG_remotes
<1>1. (LET temp == Clamp(v, kLgAcMinTemp, kLgAcMaxTemp) IN temp) \in U(8)
  BY Widths DEF Clamp, kLgAcMaxTemp, kLgAcMinTemp
<1>2. (LET temp == Clamp(v, kLgAcMinTemp, kLgAcMaxTemp) IN temp - kLgAcTempAdjust) \in U(4)
  BY Widths DEF Clamp, kLgAcMaxTemp, kLgAcMinTemp, kLgAcTempAdjust
<1>3. QED
  BY <1>1, <1>2 DEF LG_remotes, LG_setTemp

LEMMA LGSetPowerTyped == ASSUME NEW s \in LG_remotes, NEW v PROVE LG_setPower(s, v) \in LG_remotes
<1>1. kLgAcPowerOn \in U(2) /\ kLgAcPowerOff \in U(2) /\ 0 \in U(4)
  BY Widths DEF kLgAcPowerOn, kLgAcPowerOff
<1>2. /\ [s EXCEPT !.Power = kLgAcPowerOn] \in LG_remotes
      /\ [s EXCEPT !.Power = kLgAcPowerOff, !.Temp = 0] \in LG_remotes
  BY <1>1 DEF LG_remotes
<1>3. s._temp \in U(8)
  BY DEF LG_remotes
<1>4. s._temp \in Int
  BY <1>3, Widths
<1>5. QED
  BY <1>2, <1>4, LGSetTempTyped DEF LG_setPower

LEMMA LGSetFanTyped == ASSUME NEW s \in LG_remotes, NEW v PROVE LG_setFan(s, v) \in LG_remotes
<1>1. OneOf(v, {0, 1, 2, 4, 5}, kLgAcFanAuto) \in U(3)
  BY Widths DEF OneOf, kLgAcFanAuto
<1>2. QED
  BY <1>1 DEF LG_remotes, LG_setFan

LEMMA LGSetModeTyped == ASSUME NEW s \in LG_remotes, NEW v PROVE LG_setMode(s, v) \in LG_remotes
<1>1. OneOf(v, 0 .. 4, kLgAcAuto) \in U(3)
  BY Widths DEF OneOf, kLgAcAuto
<1>2. QED
  BY <1>1 DEF LG_remotes, LG_setMode

LEMMA LGSetparamTyped ==
  ASSUME NEW s \in LG_remotes, NEW r \in Values
  PROVE  LG_setparam(s, r) \in LG_remotes
<1>1. LG_setPower(s, Truth(r.power)) \in LG_remotes
  BY TruthFits, LGSetTempTyped, LGSetPowerTyped
<1>2. QED
  BY <1>1, ValuesRead, LGSetTempTyped, LGSetPowerTyped, LGSetFanTyped, LGSetModeTyped
     DEF LG_setparam

LEMMA LGOptionsTyped ==
  ASSUME NEW s \in LG_remotes
  PROVE  \A t \in LG_options(s) : t \in LG_remotes
<1>1. \A t \in Each(s, "_protocol", Bit) : t \in LG_remotes
  BY Within, BitFits, MinutesFit DEF LG_remotes, Each
<1>2. ASSUME NEW on \in Bit PROVE LG_setPower(s, on) \in LG_remotes
  BY <1>2, Widths, LGSetTempTyped, LGSetPowerTyped
<1>3. ASSUME NEW v \in {3, 7} PROVE LG_setFan(s, v) \in LG_remotes
  BY <1>3, Widths, LGSetFanTyped
<1>4. ASSUME NEW m \in {5, 7} PROVE LG_setMode(s, m) \in LG_remotes
  BY <1>4, Widths, LGSetModeTyped
<1>5. QED
  BY <1>1, <1>2, <1>3, <1>4, ZenonT(30) DEF LG_options

LEMMA LGSentTyped == ASSUME NEW s \in LG_remotes PROVE LG_frame(s) \in LG_remotes
BY LGResetTyped DEF LG_frame

LEMMA LGFits == ASSUME NEW s \in LG_remotes PROVE Fits("LG", s)
<1>1. Bits["LG"] = LG_bits
  BY DEF Bits
<1>2. DOMAIN s = DOMAIN LG_bits /\ \A f \in DOMAIN s : s[f] \in U(LG_bits[f])
  BY DEF LG_remotes, LG_bits
<1>3. QED
  BY <1>1, <1>2 DEF Fits

----------------------------------------------------------------------------
(* Samsung.                                                                *)

Samsung_remotes ==
  [Quiet1 : U(1), Power1 : U(1), Quiet5 : U(1), Power6 : U(2), Powerful8 : U(8), Swing : U(3),
   Powerful10 : U(3), Display : U(1), Clean10 : U(1), Ion : U(1), Clean11 : U(1), Temp : U(4),
   Fan : U(3), Mode : U(3), Beep : U(1), _forcepower : U(1), _lastsentpowerstate : U(1)]

LEMMA SamsungResetTyped == Samsung_stateReset \in Samsung_remotes
<1>1. {1, 0} \subseteq U(1) /\ {3} \subseteq U(2) /\ {kSamsungAcSwingMove, 0, 2, 1} \subseteq
          U(3) /\ {0} \subseteq U(4) /\ {2} \subseteq U(8)
  BY Widths DEF kSamsungAcSwingMove
<1>2. QED
  BY <1>1 DEF Samsung_remotes, Samsung_stateReset

LEMMA SamsungConvertModeTyped == ASSUME NEW v PROVE Samsung_convertMode(v) \in 0 .. 4
BY DEF Samsung_convertMode, Lookup, kCool, kDry, kFan, kHeat, kSamsungAcAuto, kSamsungAcHeat, :>,
       @@

LEMMA SamsungPowerTyped == ASSUME NEW s \in Samsung_remotes PROVE Samsung_getPower(s) \in U(1)
BY TruthFits DEF Samsung_getPower

LEMMA SamsungSetPowerTyped ==
  ASSUME NEW s \in Samsung_remotes, NEW v \in Bit
  PROVE  Samsung_setPower(s, v) \in Samsung_remotes
<1>1. 1 - v \in U(1)
  BY Widths DEF Bit
<1>2. (IF v = 1 THEN 3 ELSE 0) \in U(2)
  BY Widths DEF Bit
<1>3. QED
  BY <1>1, <1>2 DEF Samsung_remotes, Samsung_setPower

LEMMA SamsungSetTempTyped ==
  ASSUME NEW s \in Samsung_remotes, NEW v \in Int
  PROVE  Samsung_setTemp(s, v) \in Samsung_remotes
<1>1. Clamp(v, kSamsungAcMinTemp, kSamsungAcMaxTemp) - kSamsungAcMinTemp \in U(4)
  BY Widths DEF Clamp, kSamsungAcMaxTemp, kSamsungAcMinTemp
<1>2. QED
  BY <1>1 DEF Samsung_remotes, Samsung_setTemp

LEMMA SamsungSetFanTyped ==
  ASSUME NEW s \in Samsung_remotes, NEW v
  PROVE  Samsung_setFan(s, v) \in Samsung_remotes
<1> DEFINE known == {0, 2, 4, 5, kSamsungAcFanTurbo, kSamsungAcFanAuto2}
<1>1. \A f \in known : f \in U(3)
  BY Widths DEF kSamsungAcFanTurbo, kSamsungAcFanAuto2
<1>2. \A f \in U(3) : [s EXCEPT !.Fan = f] \in Samsung_remotes
  BY DEF Samsung_remotes
<1>3. QED
  BY <1>1, <1>2 DEF Samsung_setFan

LEMMA SamsungSetModeTyped ==
  ASSUME NEW s \in Samsung_remotes, NEW v
  PROVE  Samsung_setMode(s, v) \in Samsung_remotes
<1>1. s.Fan \in U(3)
  BY DEF Samsung_remotes
<1>2. (LET newmode == OneOf(v, 0 .. kSamsungAcHeat, kSamsungAcAuto) IN newmode) \in U(3)
  BY Widths, <1>1 DEF OneOf, kSamsungAcAuto, kSamsungAcHeat
<1>3. (LET newmode == OneOf(v, 0 .. kSamsungAcHeat, kSamsungAcAuto) IN CASE newmode =
          kSamsungAcAuto -> kSamsungAcFanAuto2 [] newmode # kSamsungAcAuto /\ s.Fan =
          kSamsungAcFanAuto2 -> kSamsungAcFanAuto [] OTHER -> s.Fan) \in U(3)
  BY Widths, <1>1 DEF OneOf, kSamsungAcAuto, kSamsungAcFanAuto, kSamsungAcFanAuto2, kSamsungAcHeat
<1>4. QED
  BY <1>2, <1>3 DEF Samsung_remotes, Samsung_setMode

LEMMA SamsungSetparamTyped ==
  ASSUME NEW s \in Samsung_remotes, NEW r \in Values
  PROVE  Samsung_setparam(s, r) \in Samsung_remotes
<1>1. Samsung_setPower(s, Truth(r.power)) \in Samsung_remotes
  BY TruthFits, SamsungSetPowerTyped
<1>2. QED
  BY <1>1, ValuesRead, SamsungConvertModeTyped, SamsungSetPowerTyped, SamsungSetTempTyped,
     SamsungSetFanTyped, SamsungSetModeTyped
     DEF Samsung_setparam

LEMMA SamsungQuietBitsTyped ==
  ASSUME NEW s \in Samsung_remotes, NEW v \in Bit
  PROVE  Samsung_quietBits(s, v) \in Samsung_remotes
<1>1. 1 - v \in U(1)
  BY Widths DEF Bit
<1>2. v \in U(1)
  BY Widths DEF Bit
<1>3. QED
  BY <1>1, <1>2 DEF Samsung_remotes, Samsung_quietBits

LEMMA SamsungMaskedTyped ==
  ASSUME NEW v \in U(8)
  PROVE  MaskedOff(v) \in U(8) /\ MaskedOff(v) + kSamsungAcPowerfulMask8 \in U(8)
BY Widths DEF MaskedOff, kSamsungAcPowerfulMask8

LEMMA SamsungSetPowerfulTyped ==
  ASSUME NEW s \in Samsung_remotes, NEW v
  PROVE  Samsung_setPowerful(s, v) \in Samsung_remotes
<1> DEFINE off == IF Samsung_getBreeze(s) THEN kSamsungAcBreezeOn ELSE 0
           cleared == MaskedOff(s.Powerful8)
<1>1. s.Powerful8 \in U(8)
  BY DEF Samsung_remotes
<1>2. cleared \in U(8) /\ cleared + kSamsungAcPowerfulMask8 \in U(8)
  BY <1>1, SamsungMaskedTyped
<1>3. off \in U(3) /\ kSamsungAcPowerful10On \in U(3)
  BY Widths DEF kSamsungAcBreezeOn, kSamsungAcPowerful10On
<1> HIDE DEF off, cleared
<1>4. ASSUME NEW a \in U(3), NEW b \in U(8)
      PROVE  [s EXCEPT !.Powerful10 = a, !.Powerful8 = b] \in Samsung_remotes
  BY DEF Samsung_remotes
<1>5. /\ [s EXCEPT !.Powerful10 = kSamsungAcPowerful10On, !.Powerful8 = cleared] \in Samsung_remotes
      /\ [s EXCEPT !.Powerful10 = off, !.Powerful8 = cleared + kSamsungAcPowerfulMask8]
           \in Samsung_remotes
  BY <1>2, <1>3, <1>4, Zenon
<1>6. QED
  BY <1>5, SamsungSetFanTyped, SamsungQuietBitsTyped, Binary, Zenon
     DEF Samsung_setPowerful, off, cleared

LEMMA SamsungSetQuietTyped ==
  ASSUME NEW s \in Samsung_remotes, NEW v
  PROVE  Samsung_setQuiet(s, v) \in Samsung_remotes
BY SamsungSetPowerfulTyped, SamsungSetFanTyped, SamsungQuietBitsTyped, Binary, Zenon
   DEF Samsung_setQuiet

LEMMA SamsungSetSwingTyped ==
  ASSUME NEW s \in Samsung_remotes, NEW v
  PROVE  Samsung_setSwing(s, v) \in Samsung_remotes
<1>1. (IF v = 1 THEN kSamsungAcSwingMove ELSE kSamsungAcSwingStop) \in U(3)
  BY Widths DEF kSamsungAcSwingMove, kSamsungAcSwingStop
<1>2. QED
  BY <1>1 DEF Samsung_remotes, Samsung_setSwing

LEMMA SamsungSetBreezeTyped ==
  ASSUME NEW s \in Samsung_remotes, NEW v
  PROVE  Samsung_setBreeze(s, v) \in Samsung_remotes
<1> DEFINE off == IF Samsung_getPowerful(s) THEN kSamsungAcPowerful10On ELSE 0
<1>1. off \in U(3) /\ kSamsungAcBreezeOn \in U(3)
  BY Widths DEF kSamsungAcBreezeOn, kSamsungAcPowerful10On
<1> HIDE DEF off
<1>2. /\ [s EXCEPT !.Powerful10 = off] \in Samsung_remotes
      /\ [s EXCEPT !.Powerful10 = kSamsungAcBreezeOn] \in Samsung_remotes
  BY <1>1 DEF Samsung_remotes
<1>3. QED
  BY <1>2, SamsungSetFanTyped, SamsungSetSwingTyped, Zenon DEF Samsung_setBreeze, off

LEMMA SamsungOptionsTyped ==
  ASSUME NEW s \in Samsung_remotes
  PROVE  \A t \in Samsung_options(s) : t \in Samsung_remotes
<1>1. \A t \in Toggles(s, {"Beep", "Display", "Ion"}) : t \in Samsung_remotes
  BY Within, BitFits, MinutesFit DEF Samsung_remotes, Toggles, Each
<1>2. ASSUME NEW v \in Bit PROVE [s EXCEPT !.Clean10 = v, !.Clean11 = v] \in Samsung_remotes
  <2>1. v \in U(1)
    BY Widths, <1>2 DEF Bit
  <2>2. v \in U(1)
    BY Widths, <1>2 DEF Bit
  <2>3. QED
    BY <2>1, <2>2 DEF Samsung_remotes
<1>3. ASSUME NEW on \in Bit PROVE Samsung_setSwing(s, on) \in Samsung_remotes
  BY <1>3, Widths, SamsungSetSwingTyped
<1>4. ASSUME NEW on \in Bit PROVE Samsung_setQuiet(s, on) \in Samsung_remotes
  BY <1>4, Widths, SamsungSetFanTyped, SamsungQuietBitsTyped, SamsungSetPowerfulTyped,
     SamsungSetQuietTyped
<1>5. ASSUME NEW on \in Bit PROVE Samsung_setPowerful(s, on) \in Samsung_remotes
  BY <1>5, Widths, SamsungSetFanTyped, SamsungQuietBitsTyped, SamsungSetPowerfulTyped
<1>6. \A t \in Toggles(s, {"Beep", "Display", "Ion"}) \union {[s EXCEPT !.Clean10 = v,
          !.Clean11 = v] : v \in Bit} \union {Samsung_setSwing(s, on) : on \in Bit} \union
          {Samsung_setQuiet(s, on) : on \in Bit} \union {Samsung_setPowerful(s, on) : on \in Bit}
          : t \in Samsung_remotes
  BY <1>1, <1>2, <1>3, <1>4, <1>5, ZenonT(30)
<1>7. ASSUME NEW on \in Bit PROVE Samsung_setBreeze(s, on) \in Samsung_remotes
  BY <1>7, Widths, SamsungSetFanTyped, SamsungSetSwingTyped, SamsungSetBreezeTyped
<1>8. ASSUME NEW on \in Bit PROVE Samsung_setPower(s, on) \in Samsung_remotes
  BY <1>8, Widths, SamsungSetPowerTyped
<1>9. ASSUME NEW v \in 0 .. 7 PROVE Samsung_setFan(s, v) \in Samsung_remotes
  BY <1>9, Widths, SamsungSetFanTyped
<1>10. QED
  BY <1>6, <1>7, <1>8, <1>9, ZenonT(30) DEF Samsung_options

LEMMA SamsungSentTyped ==
  ASSUME NEW s \in Samsung_remotes
  PROVE  Samsung_sent(s) \in Samsung_remotes
<1>1. Samsung_getPower(s) \in U(1) /\ 0 \in U(1)
  BY SamsungPowerTyped, Widths
<1>2. [s EXCEPT !._forcepower = 0, !._lastsentpowerstate = Samsung_getPower(s)] \in Samsung_remotes
  BY <1>1 DEF Samsung_remotes
<1>3. QED
  BY <1>2 DEF Samsung_sent

LEMMA SamsungFits == ASSUME NEW s \in Samsung_remotes PROVE Fits("Samsung", s)
<1>1. Bits["Samsung"] = Samsung_bits
  BY DEF Bits
<1>2. DOMAIN s = DOMAIN Samsung_bits /\ \A f \in DOMAIN s : s[f] \in U(Samsung_bits[f])
  BY DEF Samsung_remotes, Samsung_bits
<1>3. QED
  BY <1>1, <1>2 DEF Fits

----------------------------------------------------------------------------
(* Whirlpool.                                                              *)

Whirlpool_remotes ==
  [PowerToggle : U(1), Sleep : U(1), Swing1 : U(1), Fan : U(2), Mode : U(3), Temp : U(4),
   Super : U(1), ClockHour : U(5), LightOff : U(1), ClockMinute : U(6), OffEnabled : U(1),
   OffHour : U(5), Swing2 : U(1), OffMinute : U(6), OnEnabled : U(1), OnHour : U(5),
   OnMinute : U(6), Command : U(8), AltTemp : U(1), _desiredtemp : U(8)]

LEMMA WhirlpoolConvertModeTyped == ASSUME NEW v PROVE Whirlpool_convertMode(v) \in 0 .. 4
BY DEF Whirlpool_convertMode, Lookup, kAuto, kDry, kFan, kHeat, kWhirlpoolAcAuto,
       kWhirlpoolAcCool, kWhirlpoolAcFan, kWhirlpoolAcHeat, :>, @@

LEMMA WhirlpoolStoreTempTyped ==
  ASSUME NEW s \in Whirlpool_remotes, NEW v \in Int
  PROVE  Whirlpool_storeTemp(s, v) \in Whirlpool_remotes
<1> DEFINE offset == Whirlpool_getTempOffset(s)
           degrees == Clamp(v, kWhirlpoolAcMinTemp + offset, kWhirlpoolAcMaxTemp + offset)
                        - (kWhirlpoolAcMinTemp + offset)
<1>1. offset \in {-2, 0}
  BY DEF Whirlpool_getTempOffset
<1> HIDE DEF offset
<1>2. degrees \in U(4)
  BY <1>1, Widths DEF Clamp, kWhirlpoolAcMinTemp, kWhirlpoolAcMaxTemp
<1> HIDE DEF degrees
<1>3. [s EXCEPT !.Temp = degrees] \in Whirlpool_remotes
  BY <1>2 DEF Whirlpool_remotes
<1>4. QED
  BY <1>3, Zenon DEF Whirlpool_storeTemp, degrees, offset

LEMMA WhirlpoolKeepTempTyped ==
  ASSUME NEW s \in Whirlpool_remotes, NEW v \in 0 .. 255
  PROVE  Whirlpool_keepTemp(s, v) \in Whirlpool_remotes
<1>1. v \in U(8) /\ v \in Int
  BY Widths
<1>2. Whirlpool_storeTemp(s, v) \in Whirlpool_remotes
  BY <1>1, WhirlpoolStoreTempTyped
<1>3. [Whirlpool_storeTemp(s, v) EXCEPT !._desiredtemp = v] \in Whirlpool_remotes
  BY <1>1, <1>2 DEF Whirlpool_remotes
<1>4. QED
  BY <1>3 DEF Whirlpool_keepTemp

LEMMA WhirlpoolResetTyped == Whirlpool_stateReset \in Whirlpool_remotes
<1>1. 0 \in U(1) /\ 0 \in U(2) /\ 0 \in U(3) /\ 0 \in U(4) /\ 0 \in U(5) /\ 0 \in U(6) /\ 0 \in U(8)
  BY Widths
<1>2. [f \in DOMAIN Whirlpool_bits |-> 0] \in Whirlpool_remotes
  BY <1>1 DEF Whirlpool_remotes, Whirlpool_bits
<1>3. QED
  BY <1>2, WhirlpoolKeepTempTyped DEF Whirlpool_stateReset, kWhirlpoolAcAutoTemp

LEMMA WhirlpoolCommandTyped ==
  ASSUME NEW s \in Whirlpool_remotes
  PROVE  /\ \A c \in U(8) : [s EXCEPT !.Command = c] \in Whirlpool_remotes
         /\ \A b \in U(1), c \in U(8) : [s EXCEPT !.Super = b, !.Command = c] \in Whirlpool_remotes
         /\ \A m \in U(3), c \in U(8) : [s EXCEPT !.Mode = m, !.Command = c] \in Whirlpool_remotes
         /\ \A b \in U(1) : [s EXCEPT !.Sleep = b] \in Whirlpool_remotes
         /\ \A b \in U(1) : [s EXCEPT !.AltTemp = b] \in Whirlpool_remotes
BY DEF Whirlpool_remotes

LEMMA WhirlpoolCommandsFit ==
  /\ kWhirlpoolAcCommandPower \in U(8) /\ kWhirlpoolAcCommandTemp \in U(8)
  /\ kWhirlpoolAcCommandSleep \in U(8) /\ kWhirlpoolAcCommandSuper \in U(8)
  /\ kWhirlpoolAcCommandOnTimer \in U(8) /\ kWhirlpoolAcCommandMode \in U(8)
  /\ kWhirlpoolAcCommandSwing \in U(8) /\ kWhirlpoolAcCommandFanSpeed \in U(8)
  /\ kWhirlpoolAcCommand6thSense \in U(8) /\ kWhirlpoolAcCommandOffTimer \in U(8)
  /\ 0 \in U(1) /\ 1 \in U(1)
BY Widths
   DEF kWhirlpoolAcCommandPower, kWhirlpoolAcCommandTemp, kWhirlpoolAcCommandSleep,
       kWhirlpoolAcCommandSuper, kWhirlpoolAcCommandOnTimer, kWhirlpoolAcCommandMode,
       kWhirlpoolAcCommandSwing, kWhirlpoolAcCommandFanSpeed, kWhirlpoolAcCommand6thSense,
       kWhirlpoolAcCommandOffTimer

LEMMA WhirlpoolSetPowerToggleTyped ==
  ASSUME NEW s \in Whirlpool_remotes, NEW v \in Bit
  PROVE  Whirlpool_setPowerToggle(s, v) \in Whirlpool_remotes
<1>1. v \in U(1)
  BY BitFits
<1>2. QED
  BY <1>1, WhirlpoolCommandsFit DEF Whirlpool_remotes, Whirlpool_setPowerToggle

LEMMA WhirlpoolSetFanTyped ==
  ASSUME NEW s \in Whirlpool_remotes, NEW v
  PROVE  Whirlpool_setFan(s, v) \in Whirlpool_remotes
<1>1. v \in 0 .. 3 => v \in U(2)
  BY Widths
<1>2. \A f \in U(2) : [s EXCEPT !.Fan = f, !.Super = 0, !.Command = kWhirlpoolAcCommandFanSpeed]
        \in Whirlpool_remotes
  BY WhirlpoolCommandsFit DEF Whirlpool_remotes
<1>3. QED
  BY <1>1, <1>2, Zenon DEF Whirlpool_setFan

LEMMA WhirlpoolSetTempTyped ==
  ASSUME NEW s \in Whirlpool_remotes, NEW v \in 0 .. 255
  PROVE  Whirlpool_setTemp(s, v) \in Whirlpool_remotes
BY WhirlpoolKeepTempTyped, WhirlpoolCommandTyped, WhirlpoolCommandsFit, Zenon
   DEF Whirlpool_setTemp

LEMMA WhirlpoolSetSleepTyped ==
  ASSUME NEW s \in Whirlpool_remotes, NEW v \in Bit
  PROVE  Whirlpool_setSleep(s, v) \in Whirlpool_remotes
<1>1. [s EXCEPT !.Sleep = v] \in Whirlpool_remotes
  BY BitFits, WhirlpoolCommandTyped, Zenon
<1>2. (IF v = 1 THEN Whirlpool_setFan([s EXCEPT !.Sleep = v], kWhirlpoolAcFanLow)
       ELSE [s EXCEPT !.Sleep = v]) \in Whirlpool_remotes
  BY <1>1, WhirlpoolSetFanTyped, Zenon
<1>3. QED
  BY <1>2, WhirlpoolCommandTyped, WhirlpoolCommandsFit, Zenon DEF Whirlpool_setSleep

LEMMA WhirlpoolSetModeTyped ==
  ASSUME NEW s \in Whirlpool_remotes, NEW v \in 0 .. 4
  PROVE  Whirlpool_setMode(s, v) \in Whirlpool_remotes
<1> DEFINE plain == [s EXCEPT !.Super = 0, !.Command = kWhirlpoolAcCommandSuper]
           cool23 == Whirlpool_storeTemp(Whirlpool_setFan(plain, kWhirlpoolAcFanAuto),
                                         kWhirlpoolAcAutoTemp)
<1>1. plain \in Whirlpool_remotes
  BY WhirlpoolCommandTyped, WhirlpoolCommandsFit, Zenon
<1> HIDE DEF plain
<1>2. cool23 \in Whirlpool_remotes
  BY <1>1, WhirlpoolSetFanTyped, WhirlpoolStoreTempTyped DEF kWhirlpoolAcAutoTemp
<1> HIDE DEF cool23
<1>3. Whirlpool_setSleep(cool23, 0) \in Whirlpool_remotes
  BY <1>2, WhirlpoolSetSleepTyped, Binary, Zenon
<1>4. [Whirlpool_setSleep(cool23, 0) EXCEPT !.Command = kWhirlpoolAcCommand6thSense]
        \in Whirlpool_remotes
  BY <1>3, WhirlpoolCommandTyped, WhirlpoolCommandsFit, Zenon
<1>5. v \in U(3)
  BY Widths
<1>6. [plain EXCEPT !.Mode = v, !.Command = kWhirlpoolAcCommandMode] \in Whirlpool_remotes
  BY <1>1, <1>5, WhirlpoolCommandTyped, WhirlpoolCommandsFit, Zenon
<1>7. QED
  BY <1>1, <1>4, <1>6, Zenon DEF Whirlpool_setMode, plain, cool23

LEMMA WhirlpoolSetSuperTyped ==
  ASSUME NEW s \in Whirlpool_remotes, NEW v \in Bit
  PROVE  Whirlpool_setSuper(s, v) \in Whirlpool_remotes
<1> DEFINE blown == Whirlpool_setFan(s, kWhirlpoolAcFanHigh)
           offset == Whirlpool_getTempOffset(s)
           moved == IF s.Mode = kWhirlpoolAcHeat
                    THEN Whirlpool_setTemp(blown, kWhirlpoolAcMaxTemp + offset)
                    ELSE Whirlpool_setMode(Whirlpool_setTemp(blown, kWhirlpoolAcMinTemp + offset),
                                           kWhirlpoolAcCool)
<1>1. blown \in Whirlpool_remotes
  BY WhirlpoolSetFanTyped
<1>2. offset \in {-2, 0}
  BY DEF Whirlpool_getTempOffset
<1> HIDE DEF blown, offset
<1>3. kWhirlpoolAcMaxTemp + offset \in 0 .. 255 /\ kWhirlpoolAcMinTemp + offset \in 0 .. 255
  BY <1>2 DEF kWhirlpoolAcMaxTemp, kWhirlpoolAcMinTemp
<1>4. kWhirlpoolAcCool \in 0 .. 4
  BY DEF kWhirlpoolAcCool
<1>5. moved \in Whirlpool_remotes
  BY <1>1, <1>3, <1>4, WhirlpoolSetTempTyped, WhirlpoolSetModeTyped, Zenon
<1> HIDE DEF moved
<1>6. [(IF v = 1 THEN moved ELSE s) EXCEPT !.Super = v, !.Command = kWhirlpoolAcCommandSuper]
        \in Whirlpool_remotes
  BY <1>5, BitFits, WhirlpoolCommandTyped, WhirlpoolCommandsFit, Zenon
<1>7. QED
  BY <1>6, Zenon DEF Whirlpool_setSuper, moved, blown, offset

LEMMA WhirlpoolSetparamTyped ==
  ASSUME NEW s \in Whirlpool_remotes, NEW r \in Values
  PROVE  Whirlpool_setparam(s, r) \in Whirlpool_remotes
<1>1. Truth(r.power) \in Bit /\ r.temp \in 0 .. 255
  BY TruthFits, ValuesRead
<1>2. QED
  BY <1>1, WhirlpoolConvertModeTyped, WhirlpoolSetPowerToggleTyped, WhirlpoolSetModeTyped,
     WhirlpoolSetFanTyped, WhirlpoolSetTempTyped, Zenon
     DEF Whirlpool_setparam

LEMMA WhirlpoolSetModelTyped ==
  ASSUME NEW s \in Whirlpool_remotes, NEW v \in Bit
  PROVE  Whirlpool_setModel(s, v) \in Whirlpool_remotes
<1>1. s._desiredtemp \in U(8)
  BY DEF Whirlpool_remotes
<1>2. s._desiredtemp \in Int
  BY <1>1, Widths
<1>3. [s EXCEPT !.AltTemp = v] \in Whirlpool_remotes
  BY BitFits, WhirlpoolCommandTyped, Zenon
<1>4. QED
  BY <1>2, <1>3, WhirlpoolStoreTempTyped, Zenon DEF Whirlpool_setModel

LEMMA WhirlpoolHourTyped == ASSUME NEW t \in Minutes PROVE Hour(t) \in U(5) /\ t % 60 \in U(6)
<1>1. t \in {0, 605, 1439, 1440}
  BY DEF Minutes
<1>2. Hour(t) \in 0 .. 23 /\ t % 60 \in 0 .. 59
  BY <1>1 DEF Hour
<1>3. QED
  BY <1>2, Widths

LEMMA WhirlpoolTimersTyped ==
  ASSUME NEW s \in Whirlpool_remotes
  PROVE  \A t \in Whirlpool_timers(s) : t \in Whirlpool_remotes
<1>1. ASSUME NEW b \in U(1)
      PROVE  /\ [s EXCEPT !.OnEnabled = b, !.Command = kWhirlpoolAcCommandOnTimer]
                  \in Whirlpool_remotes
             /\ [s EXCEPT !.OffEnabled = b, !.Command = kWhirlpoolAcCommandOffTimer]
                  \in Whirlpool_remotes
  BY WhirlpoolCommandsFit DEF Whirlpool_remotes
<1>2. ASSUME NEW h \in U(5), NEW m \in U(6)
      PROVE  /\ [s EXCEPT !.ClockHour = h, !.ClockMinute = m] \in Whirlpool_remotes
             /\ [s EXCEPT !.OnHour = h, !.OnMinute = m] \in Whirlpool_remotes
             /\ [s EXCEPT !.OffHour = h, !.OffMinute = m] \in Whirlpool_remotes
  BY DEF Whirlpool_remotes
<1>3. ASSUME NEW on \in Bit
      PROVE  /\ [s EXCEPT !.OnEnabled = on, !.Command = kWhirlpoolAcCommandOnTimer]
                  \in Whirlpool_remotes
             /\ [s EXCEPT !.OffEnabled = on, !.Command = kWhirlpoolAcCommandOffTimer]
                  \in Whirlpool_remotes
  BY <1>1, BitFits, Zenon
<1>4. ASSUME NEW t \in Minutes
      PROVE  /\ [s EXCEPT !.ClockHour = Hour(t), !.ClockMinute = t % 60] \in Whirlpool_remotes
             /\ [s EXCEPT !.OnHour = Hour(t), !.OnMinute = t % 60] \in Whirlpool_remotes
             /\ [s EXCEPT !.OffHour = Hour(t), !.OffMinute = t % 60] \in Whirlpool_remotes
  BY <1>2, WhirlpoolHourTyped, Zenon
<1>5. QED
  BY <1>3, <1>4, ZenonT(30) DEF Whirlpool_timers

LEMMA WhirlpoolOptionsTyped ==
  ASSUME NEW s \in Whirlpool_remotes
  PROVE  \A t \in Whirlpool_options(s) : t \in Whirlpool_remotes
<1>1. ASSUME NEW on \in Bit PROVE Whirlpool_setSleep(s, on) \in Whirlpool_remotes
  BY <1>1, Widths, WhirlpoolSetFanTyped, WhirlpoolSetSleepTyped
<1>2. ASSUME NEW on \in Bit PROVE Whirlpool_setSuper(s, on) \in Whirlpool_remotes
  BY <1>2, Widths, WhirlpoolStoreTempTyped, WhirlpoolKeepTempTyped, WhirlpoolSetFanTyped,
     WhirlpoolSetTempTyped, WhirlpoolSetSleepTyped, WhirlpoolSetModeTyped, WhirlpoolSetSuperTyped
<1>3. ASSUME NEW alt \in Bit PROVE Whirlpool_setModel(s, alt) \in Whirlpool_remotes
  BY <1>3, Widths, WhirlpoolStoreTempTyped, WhirlpoolSetModelTyped
<1>4. \A t \in Toggles(s, {"LightOff"}) : t \in Whirlpool_remotes
  BY Within, BitFits, MinutesFit DEF Whirlpool_remotes, Toggles, Each
<1>5. ASSUME NEW on \in Bit
      PROVE  [s EXCEPT !.Swing1 = on, !.Swing2 = on, !.Command = kWhirlpoolAcCommandSwing] \in
          Whirlpool_remotes
  <2>1. on \in U(1)
    BY Widths, <1>5 DEF Bit
  <2>2. on \in U(1)
    BY Widths, <1>5 DEF Bit
  <2>3. kWhirlpoolAcCommandSwing \in U(8)
    BY Widths, <1>5 DEF kWhirlpoolAcCommandSwing, Bit
  <2>4. QED
    BY <2>1, <2>2, <2>3 DEF Whirlpool_remotes
<1>6. \A t \in Whirlpool_timers(s) : t \in Whirlpool_remotes
  BY WhirlpoolTimersTyped
<1>7. QED
  BY <1>1, <1>2, <1>3, <1>4, <1>5, <1>6, ZenonT(30) DEF Whirlpool_options

LEMMA WhirlpoolFits == ASSUME NEW s \in Whirlpool_remotes PROVE Fits("Whirlpool", s)
<1>1. Bits["Whirlpool"] = Whirlpool_bits
  BY DEF Bits
<1>2. DOMAIN s = DOMAIN Whirlpool_bits /\ \A f \in DOMAIN s : s[f] \in U(Whirlpool_bits[f])
  BY DEF Whirlpool_remotes, Whirlpool_bits
<1>3. QED
  BY <1>1, <1>2 DEF Fits

----------------------------------------------------------------------------
(* Teco.                                                                   *)

Teco_remotes ==
  [Mode : U(3), Power : U(1), Fan : U(2), Swing : U(1), Sleep : U(1), Temp : U(4),
   HalfHour : U(1), TensHours : U(2), TimerOn : U(1), UnitHours : U(4), Humid : U(1),
   Light : U(1), Save : U(1)]

LEMMA TecoResetTyped == Teco_stateReset \in Teco_remotes
<1>1. {0} \subseteq U(1) /\ {0, 1} \subseteq U(2) /\ {0} \subseteq U(3) /\ {0} \subseteq U(4)
  BY Widths
<1>2. QED
  BY <1>1 DEF Teco_remotes, Teco_stateReset, Teco_bits

LEMMA TecoSetTempTyped ==
  ASSUME NEW s \in Teco_remotes, NEW v \in Int
  PROVE  Teco_setTemp(s, v) \in Teco_remotes
<1>1. Clamp(v, kTecoMinTemp, kTecoMaxTemp) - kTecoMinTemp \in U(4)
  BY Widths DEF Clamp, kTecoMaxTemp, kTecoMinTemp
<1>2. QED
  BY <1>1 DEF Teco_remotes, Teco_setTemp

LEMMA TecoSetFanTyped ==
  ASSUME NEW s \in Teco_remotes, NEW v
  PROVE  Teco_setFan(s, v) \in Teco_remotes
<1>1. OneOf(v, 0 .. 3, 0) \in U(2)
  BY Widths DEF OneOf
<1>2. QED
  BY <1>1 DEF Teco_remotes, Teco_setFan

LEMMA TecoSetModeTyped ==
  ASSUME NEW s \in Teco_remotes, NEW v
  PROVE  Teco_setMode(s, v) \in Teco_remotes
<1>1. OneOf(v, 0 .. kTecoHeat, 0) \in U(3)
  BY Widths DEF OneOf, kTecoHeat
<1>2. QED
  BY <1>1 DEF Teco_remotes, Teco_setMode

LEMMA TecoSetparamTyped ==
  ASSUME NEW s \in Teco_remotes, NEW r \in Values
  PROVE  Teco_setparam(s, r) \in Teco_remotes
<1>1. [s EXCEPT !.Power = Truth(r.power)] \in Teco_remotes
  BY TruthFits DEF Teco_remotes
<1>2. QED
  BY <1>1, ValuesRead, TecoSetTempTyped, TecoSetFanTyped, TecoSetModeTyped DEF Teco_setparam

LEMMA TecoSetTimerTyped ==
  ASSUME NEW s \in Teco_remotes, NEW m \in Minutes \union {29}
  PROVE  Teco_setTimer(s, m) \in Teco_remotes
<1> DEFINE mins == Clamp(m, 0, 24 * 60)
           hours == mins \div 60
<1>1. hours \in 0 .. 24
  BY DEF Clamp, Minutes
<1>2. Truth(mins) \in U(1) /\ BitOf(mins % 60 >= 30) \in U(1)
  BY TruthFits
<1> HIDE DEF mins, hours
<1>3. hours \div 10 \in U(2) /\ hours % 10 \in U(4)
  BY <1>1, Widths
<1>4. ASSUME NEW a \in U(1), NEW b \in U(1), NEW c \in U(4), NEW d \in U(2)
      PROVE  [s EXCEPT !.TimerOn = a, !.HalfHour = b, !.UnitHours = c, !.TensHours = d]
               \in Teco_remotes
  BY DEF Teco_remotes
<1>5. QED
  BY <1>2, <1>3, <1>4, Zenon DEF Teco_setTimer, mins, hours

LEMMA TecoOptionsTyped ==
  ASSUME NEW s \in Teco_remotes
  PROVE  \A t \in Teco_options(s) : t \in Teco_remotes
<1> DEFINE own == {Teco_setTimer(s, t) : t \in Minutes \union {29}}
<1>1. Teco_options(s) = Toggles(s, {"Swing", "Sleep", "Light", "Humid", "Save"}) \union own
          \union {Teco_setFan(s, 4), Teco_setMode(s, 5)}
  BY DEF Teco_options
<1>2. ASSUME NEW t \in Minutes \union {29} PROVE Teco_setTimer(s, t) \in Teco_remotes
  BY <1>2, Widths, TecoSetTimerTyped
<1>3. \A t \in own : t \in Teco_remotes
  BY <1>2
<1> HIDE DEF own
<1>4. \A t \in Toggles(s, {"Swing", "Sleep", "Light", "Humid", "Save"}) : t \in Teco_remotes
  BY Within, BitFits, MinutesFit DEF Teco_remotes, Toggles, Each
<1>5. Teco_setFan(s, 4) \in Teco_remotes
  BY Widths, TecoSetFanTyped
<1>6. Teco_setMode(s, 5) \in Teco_remotes
  BY Widths, TecoSetModeTyped
<1>7. QED
  BY <1>3, <1>4, <1>5, <1>6, <1>1, ZenonT(30)

LEMMA TecoFits == ASSUME NEW s \in Teco_remotes PROVE Fits("Teco", s)
<1>1. Bits["Teco"] = Teco_bits
  BY DEF Bits
<1>2. DOMAIN s = DOMAIN Teco_bits /\ \A f \in DOMAIN s : s[f] \in U(Teco_bits[f])
  BY DEF Teco_remotes, Teco_bits
<1>3. QED
  BY <1>1, <1>2 DEF Fits

----------------------------------------------------------------------------
(* Hitachi424.                                                             *)

Hitachi424_remotes ==
  [Button : U(8), Temp : U(6), Mode : U(4), Fan : U(4), Power : U(8), SwingH : U(3),
   SwingV : U(1), fan9 : U(8), fan29 : U(8), _previoustemp : U(8)]

LEMMA Hitachi424SetPowerTyped ==
  ASSUME NEW s \in Hitachi424_remotes, NEW v
  PROVE  Hitachi424_setPower(s, v) \in Hitachi424_remotes
<1>1. kHitachiAc424ButtonPowerMode \in U(8)
  BY Widths DEF kHitachiAc424ButtonPowerMode
<1>2. (IF v = 1 THEN kHitachiAc424PowerOn ELSE kHitachiAc424PowerOff) \in U(8)
  BY Widths DEF kHitachiAc424PowerOff, kHitachiAc424PowerOn
<1>3. QED
  BY <1>1, <1>2 DEF Hitachi424_remotes, Hitachi424_setPower

LEMMA Hitachi424SetTempTyped ==
  ASSUME NEW s \in Hitachi424_remotes, NEW v \in Int, NEW b \in BOOLEAN
  PROVE  Hitachi424_setTemp(s, v, b) \in Hitachi424_remotes
<1> DEFINE temp == Clamp(v, kHitachiAcMinTemp, kHitachiAcMaxTemp)
           previous == IF b THEN temp ELSE s._previoustemp
           button == CASE s._previoustemp > temp -> kHitachiAc424ButtonTempDown
                       [] s._previoustemp < temp -> kHitachiAc424ButtonTempUp
                       [] OTHER -> s.Button
<1>1. temp \in U(6) /\ temp \in U(8)
  BY Widths DEF Clamp, kHitachiAcMinTemp, kHitachiAcMaxTemp
<1> HIDE DEF temp
<1>2. s.Button \in U(8) /\ s._previoustemp \in U(8)
  BY DEF Hitachi424_remotes
<1>3. previous \in U(8)
  BY <1>1, <1>2
<1>4. button \in U(8)
  BY <1>2, Widths DEF kHitachiAc424ButtonTempDown, kHitachiAc424ButtonTempUp
<1> HIDE DEF previous, button
<1>5. [s EXCEPT !.Temp = temp, !._previoustemp = previous, !.Button = button] \in Hitachi424_remotes
  BY <1>1, <1>3, <1>4 DEF Hitachi424_remotes
<1>6. QED
  BY <1>5, Zenon DEF Hitachi424_setTemp, temp, previous, button

LEMMA Hitachi424SetFanTyped ==
  ASSUME NEW s \in Hitachi424_remotes, NEW v \in Int
  PROVE  Hitachi424_setFan(s, v) \in Hitachi424_remotes
<1> DEFINE least == IF s.Mode = kHitachiAc424Fan /\ v = kHitachiAc424FanAuto
                    THEN kHitachiAc424FanMin ELSE Clamp(v, kHitachiAc424FanMin, 255)
           most == CASE s.Mode = kHitachiAc424Dry /\ v = kHitachiAc424FanAuto -> kHitachiAc424FanAuto
                     [] s.Mode = kHitachiAc424Dry /\ v # kHitachiAc424FanAuto -> 2
                     [] OTHER -> kHitachiAc424FanMax
           new == Clamp(least, 0, most)
           button == IF new # s.Fan THEN kHitachiAc424ButtonFan ELSE s.Button
           ninth == Lookup(kHitachiAc424FanMin :> 152 @@ kHitachiAc424FanMax :> 169, new, 146)
           last == IF new = kHitachiAc424FanMax THEN 48 ELSE 0
<1>1. least \in Int /\ least >= 0
  BY DEF Clamp, kHitachiAc424FanMin
<1>2. most \in 0 .. 15
  BY DEF kHitachiAc424FanAuto, kHitachiAc424FanMax
<1> HIDE DEF least, most
<1>3. new \in U(4)
  BY <1>1, <1>2, Widths DEF Clamp
<1> HIDE DEF new
<1>4. s.Button \in U(8)
  BY DEF Hitachi424_remotes
<1>5. button \in U(8)
  BY <1>4, Widths DEF kHitachiAc424ButtonFan
<1>6. ninth \in U(8)
  BY Widths DEF Lookup, kHitachiAc424FanMin, kHitachiAc424FanMax, :>, @@
<1>7. last \in U(8)
  BY Widths
<1> HIDE DEF button, ninth, last
<1>8. [s EXCEPT !.Fan = new, !.Button = button, !.fan9 = ninth, !.fan29 = last] \in Hitachi424_remotes
  BY <1>3, <1>5, <1>6, <1>7 DEF Hitachi424_remotes
<1>9. QED
  BY <1>8, Zenon DEF Hitachi424_setFan, last, ninth, button, new, least, most

LEMMA Hitachi424ButtonTyped ==
  ASSUME NEW s \in Hitachi424_remotes
  PROVE  /\ [s EXCEPT !.Button = kHitachiAc424ButtonPowerMode] \in Hitachi424_remotes
         /\ s._previoustemp \in Int /\ s.Fan \in Int
<1>1. kHitachiAc424ButtonPowerMode \in U(8)
  BY Widths DEF kHitachiAc424ButtonPowerMode
<1>2. s._previoustemp \in U(8) /\ s.Fan \in U(4)
  BY DEF Hitachi424_remotes
<1>3. s._previoustemp \in Int /\ s.Fan \in Int
  BY <1>2, Widths
<1>4. QED
  BY <1>1, <1>3 DEF Hitachi424_remotes

LEMMA Hitachi424SetModeTyped ==
  ASSUME NEW s \in Hitachi424_remotes, NEW v
  PROVE  Hitachi424_setMode(s, v) \in Hitachi424_remotes
<1> DEFINE newMode == OneOf(v, {kHitachiAc424Fan, kHitachiAc424Heat, kHitachiAc424Cool,
                                kHitachiAc424Dry}, kHitachiAc424Cool)
           moded == [s EXCEPT !.Mode = newMode]
           warmed == IF newMode = kHitachiAc424Fan THEN Hitachi424_setTemp(moded, 27, FALSE)
                     ELSE Hitachi424_setTemp(moded, s._previoustemp, TRUE)
<1>1. newMode \in U(4)
  BY Widths DEF OneOf, kHitachiAc424Fan, kHitachiAc424Heat, kHitachiAc424Cool, kHitachiAc424Dry
<1> HIDE DEF newMode
<1>2. moded \in Hitachi424_remotes
  BY <1>1 DEF Hitachi424_remotes
<1> HIDE DEF moded
<1>3. 27 \in Int /\ TRUE \in BOOLEAN /\ FALSE \in BOOLEAN
  OBVIOUS
<1>4. warmed \in Hitachi424_remotes
  BY <1>2, <1>3, Hitachi424SetTempTyped, Hitachi424ButtonTyped, Zenon
<1> HIDE DEF warmed
<1>5. Hitachi424_setFan(warmed, s.Fan) \in Hitachi424_remotes
  BY <1>4, Hitachi424SetFanTyped, Hitachi424ButtonTyped, Zenon
<1>6. QED
  BY <1>5, Hitachi424ButtonTyped, Zenon DEF Hitachi424_setMode, warmed, moded, newMode

LEMMA Hitachi424SetSwingVToggleTyped ==
  ASSUME NEW s \in Hitachi424_remotes, NEW v
  PROVE  Hitachi424_setSwingVToggle(s, v) \in Hitachi424_remotes
<1>1. s.Button \in U(8)
  BY DEF Hitachi424_remotes
<1>2. (CASE v = 1 -> kHitachiAc424ButtonSwingV [] v = 0 /\ s.Button =
          kHitachiAc424ButtonSwingV -> kHitachiAc424ButtonPowerMode [] OTHER -> s.Button) \in U(8)
  BY Widths, <1>1 DEF kHitachiAc424ButtonPowerMode, kHitachiAc424ButtonSwingV
<1>3. QED
  BY <1>2 DEF Hitachi424_remotes, Hitachi424_setSwingVToggle

LEMMA Hitachi424ResetTyped == Hitachi424_stateReset \in Hitachi424_remotes
<1> DEFINE cleared == [[f \in DOMAIN Hitachi424_bits |-> 0] EXCEPT !.SwingH = 3]
           warmed == Hitachi424_setPower(Hitachi424_setTemp(cleared, 23, TRUE), 1)
<1>1. 0 \in U(1) /\ 0 \in U(3) /\ 0 \in U(4) /\ 0 \in U(6) /\ 0 \in U(8) /\ 3 \in U(3)
  BY Widths
<1>2. cleared \in Hitachi424_remotes
  BY <1>1 DEF Hitachi424_remotes, Hitachi424_bits
<1> HIDE DEF cleared
<1>3. 23 \in Int /\ TRUE \in BOOLEAN /\ kHitachiAc424FanAuto \in Int
  BY DEF kHitachiAc424FanAuto
<1>4. warmed \in Hitachi424_remotes
  BY <1>2, <1>3, Hitachi424SetTempTyped, Hitachi424SetPowerTyped, Zenon
<1> HIDE DEF warmed
<1>5. QED
  BY <1>3, <1>4, Hitachi424SetModeTyped, Hitachi424SetFanTyped, Zenon
     DEF Hitachi424_stateReset, warmed, cleared

LEMMA Hitachi424OptionsTyped ==
  ASSUME NEW s \in Hitachi424_remotes
  PROVE  \A t \in Hitachi424_options(s) : t \in Hitachi424_remotes
<1> DEFINE temps == {0, 16, 23, 24, 32, 255}
           modes == {0, 1, 3, 5, 6}
<1>1. TRUE \in BOOLEAN /\ temps \subseteq Int /\ 0 .. 7 \subseteq Int
  OBVIOUS
<1> HIDE DEF temps, modes
<1>2. \A on \in Bit : /\ Hitachi424_setPower(s, on) \in Hitachi424_remotes
                      /\ Hitachi424_setSwingVToggle(s, on) \in Hitachi424_remotes
  BY Hitachi424SetPowerTyped, Hitachi424SetSwingVToggleTyped, Zenon
<1>3. \A t \in temps : Hitachi424_setTemp(s, t, TRUE) \in Hitachi424_remotes
  BY <1>1, Hitachi424SetTempTyped, Zenon
<1>4. \A f \in 0 .. 7 : Hitachi424_setFan(s, f) \in Hitachi424_remotes
  BY <1>1, Hitachi424SetFanTyped, Zenon
<1>5. \A m \in modes : Hitachi424_setMode(s, m) \in Hitachi424_remotes
  BY Hitachi424SetModeTyped, Zenon
<1>6. Hitachi424_options(s) = {Hitachi424_setPower(s, on) : on \in Bit}
                              \union {Hitachi424_setTemp(s, t, TRUE) : t \in temps}
                              \union {Hitachi424_setFan(s, f) : f \in 0 .. 7}
                              \union {Hitachi424_setMode(s, m) : m \in modes}
                              \union {Hitachi424_setSwingVToggle(s, on) : on \in Bit}
  BY Zenon DEF Hitachi424_options, temps, modes
<1>7. QED
  BY <1>2, <1>3, <1>4, <1>5, <1>6, ZenonT(30)

LEMMA Hitachi424Fits == ASSUME NEW s \in Hitachi424_remotes PROVE Fits("Hitachi424", s)
<1>1. Bits["Hitachi424"] = Hitachi424_bits
  BY DEF Bits
<1>2. DOMAIN s = DOMAIN Hitachi424_bits /\ \A f \in DOMAIN s : s[f] \in U(Hitachi424_bits[f])
  BY DEF Hitachi424_remotes, Hitachi424_bits
<1>3. QED
  BY <1>1, <1>2 DEF Fits

----------------------------------------------------------------------------
(* All the classes together.                                               *)

Typed(p, s) ==
  /\ p = "ESP" => s \in ESP_remotes
  /\ p = "Daikin2" => s \in Daikin2_remotes
  /\ p = "Daikin64" => s \in Daikin64_remotes
  /\ p = "Daikin128" => s \in Daikin128_remotes
  /\ p = "Daikin152" => s \in Daikin152_remotes
  /\ p = "Daikin160" => s \in Daikin160_remotes
  /\ p = "Daikin176" => s \in Daikin176_remotes
  /\ p = "Daikin216" => s \in Daikin216_remotes
  /\ p = "Hitachi1" => s \in Hitachi1_remotes
  /\ p = "MitsubishiAC" => s \in MitsubishiAC_remotes
  /\ p = "Mitsubishi112" => s \in Mitsubishi112_remotes
  /\ p = "Mitsubishi136" => s \in Mitsubishi136_remotes
  /\ p = "Heavy88" => s \in Heavy88_remotes
  /\ p = "Heavy152" => s \in Heavy152_remotes
  /\ p = "Fujitsu" => s \in Fujitsu_remotes
  /\ p = "Panasonic" => s \in Panasonic_remotes
  /\ p = "Sharp" => s \in Sharp_remotes
  /\ p = "Sanyo" => s \in Sanyo_remotes
  /\ p = "Toshiba" => s \in Toshiba_remotes
  /\ p = "Gree" => s \in Gree_remotes
  /\ p = "Kelvinator" => s \in Kelvinator_remotes
  /\ p = "Midea" => s \in Midea_remotes
  /\ p = "TCL" => s \in TCL_remotes
  /\ p = "Goodweather" => s \in Goodweather_remotes
  /\ p = "Neoclima" => s \in Neoclima_remotes
  /\ p = "Casper" => s \in Casper_remotes
  /\ p = "Argo" => s \in Argo_remotes
  /\ p = "Airwell" => s \in Airwell_remotes
  /\ p = "Amcor" => s \in Amcor_remotes
  /\ p = "LG" => s \in LG_remotes
  /\ p = "Samsung" => s \in Samsung_remotes
  /\ p = "Whirlpool" => s \in Whirlpool_remotes
  /\ p = "Teco" => s \in Teco_remotes
  /\ p = "Hitachi424" => s \in Hitachi424_remotes

LEMMA FreshTyped == ASSUME NEW p, NEW s \in Fresh[p] PROVE Typed(p, s)
<1>1. p = "ESP" => s \in ESP_remotes
  BY ESPResetTyped DEF Fresh
<1>2. p = "Daikin2" => s \in Daikin2_remotes
  BY Daikin2ResetTyped DEF Fresh
<1>3. p = "Daikin64" => s \in Daikin64_remotes
  BY Daikin64ResetTyped DEF Fresh
<1>4. p = "Daikin128" => s \in Daikin128_remotes
  BY Daikin128ResetTyped DEF Fresh
<1>5. p = "Daikin152" => s \in Daikin152_remotes
  BY Daikin152ResetTyped DEF Fresh
<1>6. p = "Daikin160" => s \in Daikin160_remotes
  BY Daikin160ResetTyped DEF Fresh
<1>7. p = "Daikin176" => s \in Daikin176_remotes
  BY Daikin176ResetTyped DEF Fresh
<1>8. p = "Daikin216" => s \in Daikin216_remotes
  BY Daikin216ResetTyped DEF Fresh
<1>9. p = "Hitachi1" => s \in Hitachi1_remotes
  BY Hitachi1ResetTyped DEF Fresh
<1>10. p = "MitsubishiAC" => s \in MitsubishiAC_remotes
  BY MitsubishiACResetTyped DEF Fresh
<1>11. p = "Mitsubishi112" => s \in Mitsubishi112_remotes
  BY Mitsubishi112ResetTyped DEF Fresh
<1>12. p = "Mitsubishi136" => s \in Mitsubishi136_remotes
  BY Mitsubishi136ResetTyped DEF Fresh
<1>13. p = "Heavy88" => s \in Heavy88_remotes
  BY Heavy88ResetTyped DEF Fresh
<1>14. p = "Heavy152" => s \in Heavy152_remotes
  BY Heavy152ResetTyped DEF Fresh
<1>15. p = "Fujitsu" => s \in Fujitsu_remotes
  BY FujitsuResetTyped DEF Fresh
<1>16. p = "Panasonic" => s \in Panasonic_remotes
  BY PanasonicResetTyped DEF Fresh
<1>17. p = "Sharp" => s \in Sharp_remotes
  BY SharpResetTyped DEF Fresh
<1>18. p = "Sanyo" => s \in Sanyo_remotes
  BY SanyoResetTyped DEF Fresh
<1>19. p = "Toshiba" => s \in Toshiba_remotes
  BY ToshibaResetTyped DEF Fresh
<1>20. p = "Gree" => s \in Gree_remotes
  BY GreeResetTyped DEF Fresh
<1>21. p = "Kelvinator" => s \in Kelvinator_remotes
  BY KelvinatorResetTyped DEF Fresh
<1>22. p = "Midea" => s \in Midea_remotes
  BY MideaResetTyped DEF Fresh
<1>23. p = "TCL" => s \in TCL_remotes
  BY TCLResetTyped DEF Fresh
<1>24. p = "Goodweather" => s \in Goodweather_remotes
  BY GoodweatherResetTyped DEF Fresh
<1>25. p = "Neoclima" => s \in Neoclima_remotes
  BY NeoclimaResetTyped DEF Fresh
<1>26. p = "Casper" => s \in Casper_remotes
  BY CasperResetTyped DEF Fresh
<1>27. p = "Argo" => s \in Argo_remotes
  BY ArgoResetTyped DEF Fresh
<1>28. p = "Airwell" => s \in Airwell_remotes
  BY AirwellResetTyped DEF Fresh
<1>29. p = "Amcor" => s \in Amcor_remotes
  BY AmcorResetTyped DEF Fresh
<1>30. p = "LG" => s \in LG_remotes
  BY LGResetTyped DEF Fresh
<1>31. p = "Samsung" => s \in Samsung_remotes
  BY SamsungResetTyped DEF Fresh
<1>32. p = "Whirlpool" => s \in Whirlpool_remotes
  BY WhirlpoolResetTyped DEF Fresh
<1>33. p = "Teco" => s \in Teco_remotes
  BY TecoResetTyped DEF Fresh
<1>34. p = "Hitachi424" => s \in Hitachi424_remotes
  BY Hitachi424ResetTyped DEF Fresh
<1>35. QED
  BY <1>1, <1>2, <1>3, <1>4, <1>5, <1>6, <1>7, <1>8, <1>9, <1>10, <1>11, <1>12, <1>13, <1>14,
     <1>15, <1>16, <1>17, <1>18, <1>19, <1>20, <1>21, <1>22, <1>23, <1>24, <1>25, <1>26, <1>27,
     <1>28, <1>29, <1>30, <1>31, <1>32, <1>33, <1>34 DEF Typed

LEMMA SetParamTypes ==
  ASSUME NEW p, NEW s, NEW r \in Values, Typed(p, s)
  PROVE  Typed(p, SetParam(p, s, r))
<1>1. p = "ESP" => SetParam(p, s, r) \in ESP_remotes
  BY ESPSetparamTyped DEF Typed, SetParam
<1>2. p = "Daikin2" => SetParam(p, s, r) \in Daikin2_remotes
  BY Daikin2SetparamTyped DEF Typed, SetParam
<1>3. p = "Daikin64" => SetParam(p, s, r) \in Daikin64_remotes
  BY Daikin64SetparamTyped DEF Typed, SetParam
<1>4. p = "Daikin128" => SetParam(p, s, r) \in Daikin128_remotes
  BY Daikin128SetparamTyped DEF Typed, SetParam
<1>5. p = "Daikin152" => SetParam(p, s, r) \in Daikin152_remotes
  BY Daikin152SetparamTyped DEF Typed, SetParam
<1>6. p = "Daikin160" => SetParam(p, s, r) \in Daikin160_remotes
  BY Daikin160SetparamTyped DEF Typed, SetParam
<1>7. p = "Daikin176" => SetParam(p, s, r) \in Daikin176_remotes
  BY Daikin176SetparamTyped DEF Typed, SetParam
<1>8. p = "Daikin216" => SetParam(p, s, r) \in Daikin216_remotes
  BY Daikin216SetparamTyped DEF Typed, SetParam
<1>9. p = "Hitachi1" => SetParam(p, s, r) \in Hitachi1_remotes
  BY Hitachi1SetparamTyped DEF Typed, SetParam
<1>10. p = "MitsubishiAC" => SetParam(p, s, r) \in MitsubishiAC_remotes
  BY MitsubishiACSetparamTyped DEF Typed, SetParam
<1>11. p = "Mitsubishi112" => SetParam(p, s, r) \in Mitsubishi112_remotes
  BY Mitsubishi112SetparamTyped DEF Typed, SetParam
<1>12. p = "Mitsubishi136" => SetParam(p, s, r) \in Mitsubishi136_remotes
  BY Mitsubishi136SetparamTyped DEF Typed, SetParam
<1>13. p = "Heavy88" => SetParam(p, s, r) \in Heavy88_remotes
  BY Heavy88SetparamTyped DEF Typed, SetParam
<1>14. p = "Heavy152" => SetParam(p, s, r) \in Heavy152_remotes
  BY Heavy152SetparamTyped DEF Typed, SetParam
<1>15. p = "Fujitsu" => SetParam(p, s, r) \in Fujitsu_remotes
  BY FujitsuSetparamTyped DEF Typed, SetParam
<1>16. p = "Panasonic" => SetParam(p, s, r) \in Panasonic_remotes
  BY PanasonicSetparamTyped DEF Typed, SetParam
<1>17. p = "Sharp" => SetParam(p, s, r) \in Sharp_remotes
  BY SharpSetparamTyped DEF Typed, SetParam
<1>18. p = "Sanyo" => SetParam(p, s, r) \in Sanyo_remotes
  BY SanyoSetparamTyped DEF Typed, SetParam
<1>19. p = "Toshiba" => SetParam(p, s, r) \in Toshiba_remotes
  BY ToshibaSetparamTyped DEF Typed, SetParam
<1>20. p = "Gree" => SetParam(p, s, r) \in Gree_remotes
  BY GreeSetparamTyped DEF Typed, SetParam
<1>21. p = "Kelvinator" => SetParam(p, s, r) \in Kelvinator_remotes
  BY KelvinatorSetparamTyped DEF Typed, SetParam
<1>22. p = "Midea" => SetParam(p, s, r) \in Midea_remotes
  BY MideaSetparamTyped DEF Typed, SetParam
<1>23. p = "TCL" => SetParam(p, s, r) \in TCL_remotes
  BY TCLSetparamTyped DEF Typed, SetParam
<1>24. p = "Goodweather" => SetParam(p, s, r) \in Goodweather_remotes
  BY GoodweatherSetparamTyped DEF Typed, SetParam
<1>25. p = "Neoclima" => SetParam(p, s, r) \in Neoclima_remotes
  BY NeoclimaSetparamTyped DEF Typed, SetParam
<1>26. p = "Casper" => SetParam(p, s, r) \in Casper_remotes
  BY CasperSetparamTyped DEF Typed, SetParam
<1>27. p = "Argo" => SetParam(p, s, r) \in Argo_remotes
  BY ArgoSetparamTyped DEF Typed, SetParam
<1>28. p = "Airwell" => SetParam(p, s, r) \in Airwell_remotes
  BY AirwellSetparamTyped DEF Typed, SetParam
<1>29. p = "Amcor" => SetParam(p, s, r) \in Amcor_remotes
  BY AmcorSetparamTyped DEF Typed, SetParam
<1>30. p = "LG" => SetParam(p, s, r) \in LG_remotes
  BY LGSetparamTyped DEF Typed, SetParam
<1>31. p = "Samsung" => SetParam(p, s, r) \in Samsung_remotes
  BY SamsungSetparamTyped DEF Typed, SetParam
<1>32. p = "Whirlpool" => SetParam(p, s, r) \in Whirlpool_remotes
  BY WhirlpoolSetparamTyped DEF Typed, SetParam
<1>33. p = "Teco" => SetParam(p, s, r) \in Teco_remotes
  BY TecoSetparamTyped DEF Typed, SetParam
<1>34. p = "Hitachi424" => SetParam(p, s, r) \in Hitachi424_remotes
  BY DEF Typed, SetParam
<1>35. QED
  BY <1>1, <1>2, <1>3, <1>4, <1>5, <1>6, <1>7, <1>8, <1>9, <1>10, <1>11, <1>12, <1>13, <1>14,
     <1>15, <1>16, <1>17, <1>18, <1>19, <1>20, <1>21, <1>22, <1>23, <1>24, <1>25, <1>26, <1>27,
     <1>28, <1>29, <1>30, <1>31, <1>32, <1>33, <1>34 DEF Typed

LEMMA OptionsType ==
  ASSUME NEW p, NEW s, Typed(p, s), NEW t \in Options(p, s) PROVE Typed(p, t)
<1>1. p = "ESP" => t \in ESP_remotes
  BY ESPOptionsTyped DEF Typed, Options
<1>2. p = "Daikin2" => t \in Daikin2_remotes
  BY Daikin2OptionsTyped DEF Typed, Options
<1>3. p = "Daikin64" => t \in Daikin64_remotes
  BY Daikin64OptionsTyped DEF Typed, Options
<1>4. p = "Daikin128" => t \in Daikin128_remotes
  BY Daikin128OptionsTyped DEF Typed, Options
<1>5. p = "Daikin152" => t \in Daikin152_remotes
  BY Daikin152OptionsTyped DEF Typed, Options
<1>6. p = "Daikin160" => t \in Daikin160_remotes
  BY Daikin160OptionsTyped DEF Typed, Options
<1>7. p = "Daikin176" => t \in Daikin176_remotes
  BY Daikin176OptionsTyped DEF Typed, Options
<1>8. p = "Daikin216" => t \in Daikin216_remotes
  BY Daikin216OptionsTyped DEF Typed, Options
<1>9. p = "Hitachi1" => t \in Hitachi1_remotes
  BY Hitachi1OptionsTyped DEF Typed, Options
<1>10. p = "MitsubishiAC" => t \in MitsubishiAC_remotes
  BY MitsubishiACOptionsTyped DEF Typed, Options
<1>11. p = "Mitsubishi112" => t \in Mitsubishi112_remotes
  BY Mitsubishi112OptionsTyped DEF Typed, Options
<1>12. p = "Mitsubishi136" => t \in Mitsubishi136_remotes
  BY Mitsubishi136OptionsTyped DEF Typed, Options
<1>13. p = "Heavy88" => t \in Heavy88_remotes
  BY Heavy88OptionsTyped DEF Typed, Options
<1>14. p = "Heavy152" => t \in Heavy152_remotes
  BY Heavy152OptionsTyped DEF Typed, Options
<1>15. p = "Fujitsu" => t \in Fujitsu_remotes
  BY FujitsuOptionsTyped DEF Typed, Options
<1>16. p = "Panasonic" => t \in Panasonic_remotes
  BY PanasonicOptionsTyped DEF Typed, Options
<1>17. p = "Sharp" => t \in Sharp_remotes
  BY SharpOptionsTyped DEF Typed, Options
<1>18. p = "Sanyo" => t \in Sanyo_remotes
  BY SanyoOptionsTyped DEF Typed, Options
<1>19. p = "Toshiba" => t \in Toshiba_remotes
  BY ToshibaOptionsTyped DEF Typed, Options
<1>20. p = "Gree" => t \in Gree_remotes
  BY GreeOptionsTyped DEF Typed, Options
<1>21. p = "Kelvinator" => t \in Kelvinator_remotes
  BY KelvinatorOptionsTyped DEF Typed, Options
<1>22. p = "Midea" => t \in Midea_remotes
  BY MideaOptionsTyped DEF Typed, Options
<1>23. p = "TCL" => t \in TCL_remotes
  BY TCLOptionsTyped DEF Typed, Options
<1>24. p = "Goodweather" => t \in Goodweather_remotes
  BY GoodweatherOptionsTyped DEF Typed, Options
<1>25. p = "Neoclima" => t \in Neoclima_remotes
  BY NeoclimaOptionsTyped DEF Typed, Options
<1>26. p = "Casper" => t \in Casper_remotes
  BY CasperOptionsTyped DEF Typed, Options
<1>27. p = "Argo" => t \in Argo_remotes
  BY ArgoOptionsTyped DEF Typed, Options
<1>28. p = "Airwell" => t \in Airwell_remotes
  BY AirwellOptionsTyped DEF Typed, Options
<1>29. p = "Amcor" => t \in Amcor_remotes
  BY AmcorOptionsTyped DEF Typed, Options
<1>30. p = "LG" => t \in LG_remotes
  BY LGOptionsTyped DEF Typed, Options
<1>31. p = "Samsung" => t \in Samsung_remotes
  BY SamsungOptionsTyped DEF Typed, Options
<1>32. p = "Whirlpool" => t \in Whirlpool_remotes
  BY WhirlpoolOptionsTyped DEF Typed, Options
<1>33. p = "Teco" => t \in Teco_remotes
  BY TecoOptionsTyped DEF Typed, Options
<1>34. p = "Hitachi424" => t \in Hitachi424_remotes
  BY Hitachi424OptionsTyped DEF Typed, Options
<1>35. QED
  BY <1>1, <1>2, <1>3, <1>4, <1>5, <1>6, <1>7, <1>8, <1>9, <1>10, <1>11, <1>12, <1>13, <1>14,
     <1>15, <1>16, <1>17, <1>18, <1>19, <1>20, <1>21, <1>22, <1>23, <1>24, <1>25, <1>26, <1>27,
     <1>28, <1>29, <1>30, <1>31, <1>32, <1>33, <1>34 DEF Typed

LEMMA SentTypes == ASSUME NEW p, NEW s, Typed(p, s) PROVE Typed(p, Sent(p, s))
<1>1. p = "ESP" => Sent(p, s) \in ESP_remotes
  BY DEF Typed, Sent, OnAir
<1>2. p = "Daikin2" => Sent(p, s) \in Daikin2_remotes
  BY DEF Typed, Sent, OnAir
<1>3. p = "Daikin64" => Sent(p, s) \in Daikin64_remotes
  BY DEF Typed, Sent, OnAir
<1>4. p = "Daikin128" => Sent(p, s) \in Daikin128_remotes
  BY DEF Typed, Sent, OnAir
<1>5. p = "Daikin152" => Sent(p, s) \in Daikin152_remotes
  BY DEF Typed, Sent, OnAir
<1>6. p = "Daikin160" => Sent(p, s) \in Daikin160_remotes
  BY DEF Typed, Sent, OnAir
<1>7. p = "Daikin176" => Sent(p, s) \in Daikin176_remotes
  BY DEF Typed, Sent, OnAir
<1>8. p = "Daikin216" => Sent(p, s) \in Daikin216_remotes
  BY DEF Typed, Sent, OnAir
<1>9. p = "Hitachi1" => Sent(p, s) \in Hitachi1_remotes
  BY Hitachi1SentTyped DEF Typed, Sent, OnAir
<1>10. p = "MitsubishiAC" => Sent(p, s) \in MitsubishiAC_remotes
  BY DEF Typed, Sent, OnAir
<1>11. p = "Mitsubishi112" => Sent(p, s) \in Mitsubishi112_remotes
  BY DEF Typed, Sent, OnAir
<1>12. p = "Mitsubishi136" => Sent(p, s) \in Mitsubishi136_remotes
  BY DEF Typed, Sent, OnAir
<1>13. p = "Heavy88" => Sent(p, s) \in Heavy88_remotes
  BY DEF Typed, Sent, OnAir
<1>14. p = "Heavy152" => Sent(p, s) \in Heavy152_remotes
  BY DEF Typed, Sent, OnAir
<1>15. p = "Fujitsu" => Sent(p, s) \in Fujitsu_remotes
  BY DEF Typed, Sent, OnAir
<1>16. p = "Panasonic" => Sent(p, s) \in Panasonic_remotes
  BY DEF Typed, Sent, OnAir
<1>17. p = "Sharp" => Sent(p, s) \in Sharp_remotes
  BY DEF Typed, Sent, OnAir
<1>18. p = "Sanyo" => Sent(p, s) \in Sanyo_remotes
  BY DEF Typed, Sent, OnAir
<1>19. p = "Toshiba" => Sent(p, s) \in Toshiba_remotes
  BY ToshibaSentTyped DEF Typed, Sent, OnAir
<1>20. p = "Gree" => Sent(p, s) \in Gree_remotes
  BY GreeSentTyped DEF Typed, Sent, OnAir
<1>21. p = "Kelvinator" => Sent(p, s) \in Kelvinator_remotes
  BY KelvinatorSentTyped DEF Typed, Sent, OnAir
<1>22. p = "Midea" => Sent(p, s) \in Midea_remotes
  BY MideaSentTyped DEF Typed, Sent, OnAir
<1>23. p = "TCL" => Sent(p, s) \in TCL_remotes
  BY DEF Typed, Sent, OnAir
<1>24. p = "Goodweather" => Sent(p, s) \in Goodweather_remotes
  BY DEF Typed, Sent, OnAir
<1>25. p = "Neoclima" => Sent(p, s) \in Neoclima_remotes
  BY DEF Typed, Sent, OnAir
<1>26. p = "Casper" => Sent(p, s) \in Casper_remotes
  BY DEF Typed, Sent, OnAir
<1>27. p = "Argo" => Sent(p, s) \in Argo_remotes
  BY DEF Typed, Sent, OnAir
<1>28. p = "Airwell" => Sent(p, s) \in Airwell_remotes
  BY DEF Typed, Sent, OnAir
<1>29. p = "Amcor" => Sent(p, s) \in Amcor_remotes
  BY DEF Typed, Sent, OnAir
<1>30. p = "LG" => Sent(p, s) \in LG_remotes
  BY LGSentTyped DEF Typed, Sent, OnAir
<1>31. p = "Samsung" => Sent(p, s) \in Samsung_remotes
  BY SamsungSentTyped DEF Typed, Sent, OnAir
<1>32. p = "Whirlpool" => Sent(p, s) \in Whirlpool_remotes
  BY DEF Typed, Sent, OnAir
<1>33. p = "Teco" => Sent(p, s) \in Teco_remotes
  BY DEF Typed, Sent, OnAir
<1>34. p = "Hitachi424" => Sent(p, s) \in Hitachi424_remotes
  BY DEF Typed, Sent, OnAir
<1>35. QED
  BY <1>1, <1>2, <1>3, <1>4, <1>5, <1>6, <1>7, <1>8, <1>9, <1>10, <1>11, <1>12, <1>13, <1>14,
     <1>15, <1>16, <1>17, <1>18, <1>19, <1>20, <1>21, <1>22, <1>23, <1>24, <1>25, <1>26, <1>27,
     <1>28, <1>29, <1>30, <1>31, <1>32, <1>33, <1>34 DEF Typed

LEMMA TypedFits == ASSUME NEW p \in DOMAIN Bits, NEW s, Typed(p, s) PROVE Fits(p, s)
<1>1. p = "ESP" => Fits(p, s)
  BY ESPFits DEF Typed
<1>2. p = "Daikin2" => Fits(p, s)
  BY Daikin2Fits DEF Typed
<1>3. p = "Daikin64" => Fits(p, s)
  BY Daikin64Fits DEF Typed
<1>4. p = "Daikin128" => Fits(p, s)
  BY Daikin128Fits DEF Typed
<1>5. p = "Daikin152" => Fits(p, s)
  BY Daikin152Fits DEF Typed
<1>6. p = "Daikin160" => Fits(p, s)
  BY Daikin160Fits DEF Typed
<1>7. p = "Daikin176" => Fits(p, s)
  BY Daikin176Fits DEF Typed
<1>8. p = "Daikin216" => Fits(p, s)
  BY Daikin216Fits DEF Typed
<1>9. p = "Hitachi1" => Fits(p, s)
  BY Hitachi1Fits DEF Typed
<1>10. p = "MitsubishiAC" => Fits(p, s)
  BY MitsubishiACFits DEF Typed
<1>11. p = "Mitsubishi112" => Fits(p, s)
  BY Mitsubishi112Fits DEF Typed
<1>12. p = "Mitsubishi136" => Fits(p, s)
  BY Mitsubishi136Fits DEF Typed
<1>13. p = "Heavy88" => Fits(p, s)
  BY Heavy88Fits DEF Typed
<1>14. p = "Heavy152" => Fits(p, s)
  BY Heavy152Fits DEF Typed
<1>15. p = "Fujitsu" => Fits(p, s)
  BY FujitsuFits DEF Typed
<1>16. p = "Panasonic" => Fits(p, s)
  BY PanasonicFits DEF Typed
<1>17. p = "Sharp" => Fits(p, s)
  BY SharpFits DEF Typed
<1>18. p = "Sanyo" => Fits(p, s)
  BY SanyoFits DEF Typed
<1>19. p = "Toshiba" => Fits(p, s)
  BY ToshibaFits DEF Typed
<1>20. p = "Gree" => Fits(p, s)
  BY GreeFits DEF Typed
<1>21. p = "Kelvinator" => Fits(p, s)
  BY KelvinatorFits DEF Typed
<1>22. p = "Midea" => Fits(p, s)
  BY MideaFits DEF Typed
<1>23. p = "TCL" => Fits(p, s)
  BY TCLFits DEF Typed
<1>24. p = "Goodweather" => Fits(p, s)
  BY GoodweatherFits DEF Typed
<1>25. p = "Neoclima" => Fits(p, s)
  BY NeoclimaFits DEF Typed
<1>26. p = "Casper" => Fits(p, s)
  BY CasperFits DEF Typed
<1>27. p = "Argo" => Fits(p, s)
  BY ArgoFits DEF Typed
<1>28. p = "Airwell" => Fits(p, s)
  BY AirwellFits DEF Typed
<1>29. p = "Amcor" => Fits(p, s)
  BY AmcorFits DEF Typed
<1>30. p = "LG" => Fits(p, s)
  BY LGFits DEF Typed
<1>31. p = "Samsung" => Fits(p, s)
  BY SamsungFits DEF Typed
<1>32. p = "Whirlpool" => Fits(p, s)
  BY WhirlpoolFits DEF Typed
<1>33. p = "Teco" => Fits(p, s)
  BY TecoFits DEF Typed
<1>34. p = "Hitachi424" => Fits(p, s)
  BY Hitachi424Fits DEF Typed
<1>35. QED
  BY <1>1, <1>2, <1>3, <1>4, <1>5, <1>6, <1>7, <1>8, <1>9, <1>10, <1>11, <1>12, <1>13, <1>14,
     <1>15, <1>16, <1>17, <1>18, <1>19, <1>20, <1>21, <1>22, <1>23, <1>24, <1>25, <1>26, <1>27,
     <1>28, <1>29, <1>30, <1>31, <1>32, <1>33, <1>34 DEF Bits

----------------------------------------------------------------------------
(* The machine: what the constructor, setparam, the setters and send leave *)
(* of an object.                                                           *)

\* The inductive invariant of TypeOK: a remote is a record with the fields of its class, each
\* within its width, from the constructor to the destructor.
TypedInv ==
  /\ irAcValue \in Values
  /\ stage \in {"idle", "parsed", "made", "set", "sent"}
  /\ stage \in {"idle", "parsed"} => protocol = "none"
  /\ protocol \in DOMAIN Bits => Typed(protocol, remote)

LEMMA TypedInit == Init => TypedInv
BY NoClass DEF Init, TypedInv, Values, Byte

LEMMA TypedNext == TypedInv /\ [Next]_vars => TypedInv'
<1> SUFFICES ASSUME TypedInv, [Next]_vars PROVE TypedInv'
  OBVIOUS
<1>1. CASE json_parser_command_contrl
  BY <1>1, NoClass, RequestsAssumption DEF json_parser_command_contrl, TypedInv, Values
<1>2. CASE Construct
  <2>1. PICK p \in DOMAIN Bits : \E s \in Fresh[p] : protocol' = p /\ remote' = s
    BY <1>2 DEF Construct
  <2>2. Typed(protocol', remote')
    BY <2>1, FreshTyped
  <2>3. QED
    BY <1>2, <2>2 DEF Construct, TypedInv
<1>3. CASE setparam
  <2>1. irAcValue \in Values
    BY DEF TypedInv
  <2>2. protocol \in DOMAIN Bits => Typed(protocol, SetParam(protocol, remote, irAcValue))
    BY <2>1, SetParamTypes DEF TypedInv
  <2>3. QED
    BY <1>3, <2>2 DEF setparam, TypedInv
<1>4. CASE Option
  BY <1>4, OptionsType DEF Option, TypedInv
<1>5. CASE send
  BY <1>5, SentTypes DEF send, TypedInv
<1>6. CASE SendConstant
  BY <1>6, NoClass DEF SendConstant, TypedInv
<1>7. CASE Destroy
  BY <1>7, NoClass DEF Destroy, TypedInv
<1>8. CASE UNCHANGED vars
  BY <1>8 DEF vars, TypedInv
<1>9. QED
  BY <1>1, <1>2, <1>3, <1>4, <1>5, <1>6, <1>7, <1>8 DEF Next

LEMMA TypedAlways == Spec => []TypedInv
BY TypedInit, TypedNext, PTL DEF Spec

\* No bit-field of an air conditioner's state is ever given a number it has no bits for:
\* whatever four bytes a message holds, the two conversions and the setters of setparam
\* replace or clamp what a field does not take before it is assigned, and so do the other
\* setters, called with the arguments the options of the class name, any number of times in
\* any order, where what they read back (a saved temperature, a timer, a mode) was stored by
\* another.
THEOREM FieldsHold == Spec => []TypeOK
<1>1. TypedInv => TypeOK
  BY TypedFits DEF TypedInv, TypeOK, Values, Fits, U
<1>2. QED
  BY <1>1, TypedAlways, PTL

=============================================================================
