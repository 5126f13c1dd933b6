---------------------------- MODULE AcMitsubishi ----------------------------
(***************************************************************************)
(* The Mitsubishi Electric remotes (IrMitsubishi112.cpp) and those of      *)
(* Mitsubishi Heavy Industries (IrMitsubishiHeavy.cpp), laid out as in     *)
(* AcDaikin.                                                               *)
(***************************************************************************)
EXTENDS AcCommon

----------------------------------------------------------------------------
(* IRMitsubishiAC.  mode8 is the low half of byte 8, whose high half is    *)
(* WideVane: setMode writes the byte as a whole.                           *)

MitsubishiAC_bits ==
  [Power |-> 1, Mode |-> 3, Temp |-> 8, mode8 |-> 4, WideVane |-> 4, Fan |-> 3, Vane |-> 3,
   VaneBit |-> 1, FanAuto |-> 1, Clock |-> 8, StopClock |-> 8, StartClock |-> 8, Timer |-> 3]

kMitsubishiAcHeat == 1
kMitsubishiAcDry == 2
kMitsubishiAcCool == 3
kMitsubishiAcAuto == 4
kMitsubishiAcFanAuto == 0
kMitsubishiAcFanMax == 5
kMitsubishiAcFanSilent == 6
kMitsubishiAcMinTemp == 16
kMitsubishiAcMaxTemp == 31

MitsubishiAC_stateReset ==
  [Power |-> 1, Mode |-> kMitsubishiAcHeat, Temp |-> 6, mode8 |-> 0, WideVane |-> 3, Fan |-> 5,
   Vane |-> 0, VaneBit |-> 1, FanAuto |-> 0, Clock |-> 103, StopClock |-> 0, StartClock |-> 0,
   Timer |-> 0]

MitsubishiAC_convertMode(m) ==
  Lookup(kCool :> kMitsubishiAcCool @@ kHeat :> kMitsubishiAcHeat @@ kDry :> kMitsubishiAcDry,
         m, kMitsubishiAcAuto)
MitsubishiAC_convertFan(f) ==
  CASE f = kMin -> kMitsubishiAcFanSilent
    [] f \in kLow .. kMax -> f - 1
    [] OTHER -> kMitsubishiAcFanAuto

MitsubishiAC_setMode(s, mode) ==
  [s EXCEPT !.Mode = OneOf(mode, 1 .. 4, kMitsubishiAcAuto), !.WideVane = 3,
            !.mode8 = Lookup(kMitsubishiAcCool :> 6 @@ kMitsubishiAcDry :> 2, mode, 0)]
\* No speed is 5 in the frame: what lies above moves down by one.
MitsubishiAC_setFan(s, speed) ==
  LET fan == IF speed > kMitsubishiAcFanSilent THEN kMitsubishiAcFanMax ELSE speed
  IN  [s EXCEPT !.FanAuto = BitOf(fan = kMitsubishiAcFanAuto),
                !.Fan = IF fan >= kMitsubishiAcFanMax THEN fan - 1 ELSE fan]
MitsubishiAC_setTemp(s, degrees) ==
  [s EXCEPT !.Temp = Clamp(degrees, kMitsubishiAcMinTemp, kMitsubishiAcMaxTemp)
                       - kMitsubishiAcMinTemp]

MitsubishiAC_setparam(s, r) ==
  LET moded == MitsubishiAC_setMode([s EXCEPT !.Power = Truth(r.power)],
                                    MitsubishiAC_convertMode(r.mode))
  IN  MitsubishiAC_setTemp(MitsubishiAC_setFan(moded, MitsubishiAC_convertFan(r.fan)), r.temp)

\* Clocks count tens of minutes in a byte; setTimer is one of four patterns.
MitsubishiAC_options(s) ==
  {[s EXCEPT !.VaneBit = 1, !.Vane = Clamp(p, 0, 7)] : p \in 0 .. 8}
  \union {[s EXCEPT !.WideVane = Clamp(p, 0, 8)] : p \in 0 .. 9}
  \union Each(s, "Timer", {0, 3, 5, 7})
  \union UNION {Each(s, f, {0, 143, 255}) : f \in {"Clock", "StartClock", "StopClock"}}

MitsubishiAC_asks(s) ==
  [power |-> s.Power, temp |-> s.Temp + kMitsubishiAcMinTemp,
   mode |-> (kMitsubishiAcCool :> kCool @@ kMitsubishiAcHeat :> kHeat @@ kMitsubishiAcDry :> kDry
             @@ kMitsubishiAcAuto :> kAuto)[s.Mode]]

MitsubishiAC_send == <<Section(0, 17)>>
MitsubishiAC_checksum == {Sum(0, 16, 17)}

----------------------------------------------------------------------------
(* IRMitsubishi136.                                                        *)

Mitsubishi136_bits == [Power |-> 1, Mode |-> 3, Temp |-> 4, Fan |-> 2, SwingV |-> 4]

kMitsubishi136Fan == 0
kMitsubishi136Cool == 1
kMitsubishi136Heat == 2
kMitsubishi136Auto == 3
kMitsubishi136Dry == 5
kMitsubishi136FanMin == 0
kMitsubishi136FanLow == 1
kMitsubishi136FanMed == 2
kMitsubishi136FanMax == 3
kMitsubishi136SwingVAuto == 12

Mitsubishi136_stateReset ==
  [Power |-> 1, Mode |-> kMitsubishi136Heat, Temp |-> 12, Fan |-> kMitsubishi136FanMax,
   SwingV |-> kMitsubishi136SwingVAuto]

Mitsubishi136_convertMode(m) ==
  Lookup(kCool :> kMitsubishi136Cool @@ kHeat :> kMitsubishi136Heat @@ kDry :> kMitsubishi136Dry
         @@ kFan :> kMitsubishi136Fan, m, kMitsubishi136Auto)
Mitsubishi136_convertFan(f) ==
  Lookup(kMin :> kMitsubishi136FanMin @@ kLow :> kMitsubishi136FanLow
         @@ kHigh :> kMitsubishi136FanMax @@ kMax :> kMitsubishi136FanMax, f, kMitsubishi136FanMed)

Mitsubishi136_setparam(s, r) ==
  [s EXCEPT !.Power = Truth(r.power),
            !.Mode = OneOf(Mitsubishi136_convertMode(r.mode), {0, 1, 2, 3, 5}, kMitsubishi136Auto),
            !.Fan = Clamp(Mitsubishi136_convertFan(r.fan), 0, kMitsubishi136FanMax),
            !.Temp = Clamp(r.temp, 17, 30) - kMitsubishiAcMinTemp]

\* Quiet is the lowest fan speed, and switched off only when it is on.
Mitsubishi136_options(s) ==
  {[s EXCEPT !.SwingV = OneOf(p, {0, 1, 2, 3, 12}, kMitsubishi136SwingVAuto)] : p \in 0 .. 12}
  \union {[s EXCEPT !.Fan = kMitsubishi136FanMin],
          [s EXCEPT !.Fan = IF @ = kMitsubishi136FanMin THEN kMitsubishi136FanLow ELSE @]}

Mitsubishi136_asks(s) ==
  [power |-> s.Power, temp |-> s.Temp + kMitsubishiAcMinTemp,
   mode |-> (kMitsubishi136Cool :> kCool @@ kMitsubishi136Heat :> kHeat @@ kMitsubishi136Dry :> kDry
             @@ kMitsubishi136Fan :> kFan @@ kMitsubishi136Auto :> kAuto)[s.Mode]]

\* The second half of the state is the complement of the first.
Mitsubishi136_send == <<Section(0, 16)>>
Mitsubishi136_checksum == {Sum(i, i, i + 6) : i \in 5 .. 10}

----------------------------------------------------------------------------
(* IRMitsubishi112.                                                        *)

Mitsubishi112_bits == [Power |-> 1, Mode |-> 3, Temp |-> 4, Fan |-> 3, SwingV |-> 3, SwingH |-> 4]

kMitsubishi112Heat == 1
kMitsubishi112Dry == 2
kMitsubishi112Cool == 3
kMitsubishi112Auto == 7
kMitsubishi112FanMax == 0
kMitsubishi112FanMin == 2
kMitsubishi112FanLow == 3
kMitsubishi112FanMed == 5
kMitsubishi112SwingVAuto == 7
kMitsubishi112SwingHAuto == 12

Mitsubishi112_stateReset ==
  [Power |-> 1, Mode |-> kMitsubishi112Cool, Temp |-> 11, Fan |-> kMitsubishi112FanMax,
   SwingV |-> 2, SwingH |-> kMitsubishi112SwingHAuto]

Mitsubishi112_convertMode(m) ==
  Lookup(kCool :> kMitsubishi112Cool @@ kHeat :> kMitsubishi112Heat @@ kDry :> kMitsubishi112Dry,
         m, kMitsubishi112Auto)
Mitsubishi112_convertFan(f) ==
  Lookup(kMin :> kMitsubishi112FanMin @@ kLow :> kMitsubishi112FanLow
         @@ kHigh :> kMitsubishi112FanMax @@ kMax :> kMitsubishi112FanMax, f, kMitsubishi112FanMed)

\* Temperatures count down from the highest.
Mitsubishi112_setparam(s, r) ==
  [s EXCEPT !.Power = Truth(r.power),
            !.Mode = OneOf(Mitsubishi112_convertMode(r.mode), {1, 2, 3, 7}, kMitsubishi112Auto),
            !.Fan = OneOf(Mitsubishi112_convertFan(r.fan), {0, 2, 3, 5}, kMitsubishi112FanMax),
            !.Temp = kMitsubishiAcMaxTemp - Clamp(r.temp, 16, 31)]

Mitsubishi112_options(s) ==
  {[s EXCEPT !.SwingV = OneOf(p, {1, 2, 3, 4, 5, 7}, kMitsubishi112SwingVAuto)] : p \in 0 .. 7}
  \union {[s EXCEPT !.SwingH = OneOf(p, {1, 2, 3, 4, 5, 8, 12}, kMitsubishi112SwingHAuto)]
            : p \in 0 .. 12}
  \union {[s EXCEPT !.Fan = kMitsubishi112FanMin],
          [s EXCEPT !.Fan = IF @ = kMitsubishi112FanMin THEN kMitsubishi112FanLow ELSE @]}

Mitsubishi112_asks(s) ==
  [power |-> s.Power, temp |-> kMitsubishiAcMaxTemp - s.Temp,
   mode |-> (kMitsubishi112Cool :> kCool @@ kMitsubishi112Heat :> kHeat @@ kMitsubishi112Dry :> kDry
             @@ kMitsubishi112Auto :> kAuto)[s.Mode]]

\* The checksum is that of Ir_TCL_112Ac.
Mitsubishi112_send == <<Section(0, 13)>>
Mitsubishi112_checksum == {Sum(0, 12, 13)}

----------------------------------------------------------------------------
(* IRMitsubishiHeavy152Ac and IRMitsubishiHeavy88Ac.                       *)

kMitsubishiHeavyAuto == 0
kMitsubishiHeavyCool == 1
kMitsubishiHeavyDry == 2
kMitsubishiHeavyFan == 3
kMitsubishiHeavyHeat == 4
kMitsubishiHeavyMinTemp == 17
kMitsubishiHeavyMaxTemp == 31

MitsubishiHeavy_convertMode(m) ==
  Lookup(kCool :> kMitsubishiHeavyCool @@ kHeat :> kMitsubishiHeavyHeat @@ kDry :> kMitsubishiHeavyDry
         @@ kFan :> kMitsubishiHeavyFan, m, kMitsubishiHeavyAuto)
MitsubishiHeavy_setTemp(s, temp) ==
  [s EXCEPT !.Temp = Clamp(temp, kMitsubishiHeavyMinTemp, kMitsubishiHeavyMaxTemp)
                       - kMitsubishiHeavyMinTemp]
MitsubishiHeavy_setMode(s, mode) ==
  [s EXCEPT !.Mode = OneOf(mode, 1 .. 4, kMitsubishiHeavyAuto)]
MitsubishiHeavy_asks(s) ==
  [power |-> s.Power, temp |-> s.Temp + kMitsubishiHeavyMinTemp,
   mode |-> (kMitsubishiHeavyCool :> kCool @@ kMitsubishiHeavyHeat :> kHeat
             @@ kMitsubishiHeavyDry :> kDry @@ kMitsubishiHeavyFan :> kFan
             @@ kMitsubishiHeavyAuto :> kAuto)[s.Mode]]

Heavy152_bits ==
  [Mode |-> 3, Power |-> 1, Clean |-> 1, Filter |-> 1, Temp |-> 4, Fan |-> 4, Three |-> 1, D |-> 1,
   SwingV |-> 3, SwingH |-> 4, Night |-> 1, Silent |-> 1]

Heavy152_stateReset == [f \in DOMAIN Heavy152_bits |-> 0]

kMitsubishiHeavy152FanEcono == 6
kMitsubishiHeavy152FanTurbo == 8
Heavy152_convertFan(f) ==
  CASE f = kMin -> kMitsubishiHeavy152FanEcono
    [] f \in kLow .. kMax -> f - 1
    [] OTHER -> 0
Heavy152_setFan(s, speed) == [s EXCEPT !.Fan = OneOf(speed, {1, 2, 3, 4, 6, 8}, 0)]

Heavy152_setparam(s, r) ==
  LET moded == MitsubishiHeavy_setMode([s EXCEPT !.Power = Truth(r.power)],
                                       MitsubishiHeavy_convertMode(r.mode))
  IN  MitsubishiHeavy_setTemp(Heavy152_setFan(moded, Heavy152_convertFan(r.fan)), r.temp)

\* Clean sets the filter too; turbo and econo are fan speeds.
Heavy152_options(s) ==
  {[s EXCEPT !.SwingV = Clamp(p, 0, 6)] : p \in 0 .. 7}
  \union {[s EXCEPT !.SwingH = Clamp(p, 0, 8)] : p \in 0 .. 9}
  \union Toggles(s, {"Night", "Silent", "Filter"})
  \union {[s EXCEPT !.Three = on, !.D = on] : on \in Bit}
  \union {[s EXCEPT !.Filter = on, !.Clean = on] : on \in Bit}
  \union UNION {{Heavy152_setFan(s, v), IF s.Fan = v THEN Heavy152_setFan(s, 0) ELSE s}
                 : v \in {kMitsubishiHeavy152FanEcono, kMitsubishiHeavy152FanTurbo}}

Heavy152_asks(s) == MitsubishiHeavy_asks(s)

\* Every second byte is the complement of the one before it.
Heavy152_send == <<Section(0, 18)>>
Heavy152_checksum == {Sum(2 * i + 1, 2 * i + 1, 2 * i + 2) : i \in 1 .. 8}

\* The positions of the swings are split over two fields.
Heavy88_bits ==
  [SwingV5 |-> 1, SwingH1 |-> 2, Clean |-> 1, SwingH2 |-> 2, SwingV7 |-> 2, Fan |-> 3, Mode |-> 3,
   Power |-> 1, Temp |-> 4]

Heavy88_stateReset == [f \in DOMAIN Heavy88_bits |-> 0]

kMitsubishiHeavy88FanTurbo == 6
kMitsubishiHeavy88FanEcono == 7
kMitsubishiHeavy88SwingH3D == 14
Heavy88_convertFan(f) ==
  Lookup(kMin :> kMitsubishiHeavy88FanEcono @@ kLow :> 2 @@ kMedium :> 3 @@ kHigh :> 4
         @@ kMax :> kMitsubishiHeavy88FanTurbo, f, 0)
Heavy88_setFan(s, speed) == [s EXCEPT !.Fan = OneOf(speed, {2, 3, 4, 6, 7}, 0)]
Heavy88_setSwingVertical(s, pos) ==
  LET newpos == OneOf(pos, {1, 3, 4, 5, 6, 7}, 0)
  IN  [s EXCEPT !.SwingV5 = newpos % 2, !.SwingV7 = newpos \div 2]
Heavy88_setSwingHorizontal(s, pos) ==
  LET newpos == OneOf(pos, {1, 2, 5, 6, 8, 9, 10, 13, kMitsubishiHeavy88SwingH3D}, 0)
  IN  [s EXCEPT !.SwingH1 = newpos % 4, !.SwingH2 = newpos \div 4]

Heavy88_setparam(s, r) ==
  LET moded == MitsubishiHeavy_setMode([s EXCEPT !.Power = Truth(r.power)],
                                       MitsubishiHeavy_convertMode(r.mode))
  IN  MitsubishiHeavy_setTemp(Heavy88_setFan(moded, Heavy88_convertFan(r.fan)), r.temp)

Heavy88_options(s) ==
  LET is3D == s.SwingH1 + 4 * s.SwingH2 = kMitsubishiHeavy88SwingH3D
  IN  {Heavy88_setSwingVertical(s, p) : p \in 0 .. 7}
      \union {Heavy88_setSwingHorizontal(s, p) : p \in 0 .. 15}
      \union {IF is3D THEN Heavy88_setSwingHorizontal(s, 0) ELSE s}
      \union Toggles(s, {"Clean"})
      \union UNION {{Heavy88_setFan(s, v), IF s.Fan = v THEN Heavy88_setFan(s, 0) ELSE s}
                     : v \in {kMitsubishiHeavy88FanEcono, kMitsubishiHeavy88FanTurbo}}

Heavy88_asks(s) == MitsubishiHeavy_asks(s)

Heavy88_send == <<Section(0, 10)>>
Heavy88_checksum == {Sum(2 * i + 1, 2 * i + 1, 2 * i + 2) : i \in 1 .. 4}

=============================================================================
