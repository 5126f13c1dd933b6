--------------------------- MODULE AcAskedProofs ---------------------------
(***************************************************************************)
(* What a message asks an air conditioner for is what its frame says.  For *)
(* every class the four setters of setparam are followed from the object   *)
(* its constructor leaves to the state that is sent: one lemma shows how   *)
(* the class reads the mode it wrote back, the next what a unit makes of   *)
(* the state.                                                              *)
(***************************************************************************)
EXTENDS AirConditioner, TLAPS

Has(s, fields) == fields \subseteq DOMAIN s
Basic == {"Power", "Mode", "Fan", "Temp"}

\* The messages that ask for a mode there is, and what a unit is told.
Asked == [power : Byte, mode : kAuto .. kFan, fan : Byte, temp : Byte]
Says(got, power, mode, temp) == got.power = power /\ got.mode = mode /\ got.temp = temp

LEMMA AskedModes == \A r \in Asked : r.mode \in {0, 1, 2, 3, 4}
BY DEF Asked, kAuto, kFan

\* A switch of four cases, as the conditions it stands for.
LEMMA Switch4 ==
  \A a, b, c, d, va, vb, vc, vd, k, default :
    Lookup(a :> va @@ b :> vb @@ c :> vc @@ d :> vd, k, default) =
      IF k = a THEN va ELSE IF k = b THEN vb
      ELSE IF k = c THEN vc ELSE IF k = d THEN vd ELSE default
BY DEF Lookup, :>, @@

LEMMA BcdRead == \A t \in Byte : bcdToUint8(uint8ToBcd(Clamp(t, 16, 30))) = Clamp(t, 16, 30)
BY DEF bcdToUint8, uint8ToBcd, Clamp, Byte

\* The modes most of the Daikin classes share.
LEMMA DaikinModesRead ==
  \A m \in {0, 1, 2, 3, 4} : DaikinMode(m) \in kDaikinModes /\ kDaikinMode[DaikinMode(m)] = m
BY SMTT(30) DEF DaikinMode, kDaikinMode, Lookup, kDaikinModes, kDaikinAuto, kDaikinCool, kDaikinHeat,
       kDaikinDry, kDaikinFan, kAuto, kCool, kHeat, kDry, kFan, :>, @@

LEMMA DaikinHeats ==
  \A m \in {0, 1, 2, 3, 4} : /\ DaikinMode(m) = kDaikinHeat <=> m = kHeat
                             /\ DaikinMode(m) = kDaikinCool <=> m = kCool
BY DEF DaikinMode, Lookup, kDaikinAuto, kDaikinCool, kDaikinHeat, kDaikinDry, kDaikinFan,
       kAuto, kCool, kHeat, kDry, kFan, :>, @@

----------------------------------------------------------------------------
(* Daikin                                                                  *)

LEMMA ESPAsked ==
  ASSUME NEW s, Has(s, Basic), NEW r \in Asked
  PROVE  Says(ESP_asks(ESP_setparam(s, r)), Truth(r.power), r.mode, Clamp(r.temp, 10, 32))
BY AskedModes, DaikinModesRead
   DEF Has, Basic, Says, ESP_asks, ESP_setparam, ESP_setTemp, ESP_setFan, DaikinSetMode, OneOf,
       kDaikinMinTemp, kDaikinMaxTemp

LEMMA Daikin152Asked ==
  ASSUME NEW s, Has(s, Basic), NEW r \in Asked
  PROVE  Says(Daikin152_asks(Daikin152_setparam(s, r)), Truth(r.power), r.mode,
              IF r.temp = 96 THEN 96 ELSE Clamp(r.temp, IF r.mode = kHeat THEN 10 ELSE 18, 32))
<1>1. ASSUME NEW t, Has(t, Basic), NEW temp
      PROVE  /\ Has(Daikin152_setTemp(t, temp), Basic)
             /\ Daikin152_setTemp(t, temp).Power = t.Power
             /\ Daikin152_setTemp(t, temp).Mode = t.Mode
             /\ Daikin152_setTemp(t, temp).Temp =
                  IF temp = 96 THEN 96
                  ELSE Clamp(temp, IF t.Mode = kDaikinHeat THEN 10 ELSE 18, 32)
  BY <1>1
     DEF Has, Basic, Daikin152_setTemp, kDaikinMinTemp, kDaikinMaxTemp, kDaikin2MinCoolTemp,
         kDaikin152FanTemp
<1>2. ASSUME NEW t, Has(t, Basic), NEW mode \in kDaikinModes
      PROVE  /\ Has(Daikin152_setMode(t, mode), Basic)
             /\ Daikin152_setMode(t, mode).Power = t.Power
             /\ Daikin152_setMode(t, mode).Mode = mode
  BY <1>1, <1>2 DEF Has, Basic, Daikin152_setMode, DaikinSetMode, OneOf
<1>3. DaikinMode(r.mode) \in kDaikinModes /\ kDaikinMode[DaikinMode(r.mode)] = r.mode
      /\ (DaikinMode(r.mode) = kDaikinHeat <=> r.mode = kHeat)
  BY AskedModes, DaikinModesRead, DaikinHeats
<1> DEFINE powered == [s EXCEPT !.Power = Truth(r.power)]
           fanned == [Daikin152_setMode(powered, DaikinMode(r.mode))
                   EXCEPT !.Fan = DaikinFanSet(DaikinFan(r.fan))]
<1>4. Has(powered, Basic) /\ powered.Power = Truth(r.power)
  BY DEF Has, Basic
<1>5. Has(fanned, Basic) /\ fanned.Power = Truth(r.power) /\ fanned.Mode = DaikinMode(r.mode)
  <2> HIDE DEF powered
  <2> QED BY <1>2, <1>3, <1>4 DEF Has, Basic
<1>6. Daikin152_setparam(s, r) = Daikin152_setTemp(fanned, r.temp)
  BY DEF Daikin152_setparam
<1> HIDE DEF fanned
<1> QED
  BY <1>1, <1>3, <1>5, <1>6 DEF Says, Daikin152_asks

LEMMA Daikin160Asked ==
  ASSUME NEW s, Has(s, Basic), NEW r \in Asked
  PROVE  Says(Daikin160_asks(Daikin160_setparam(s, r)), Truth(r.power),
              r.mode, Clamp(r.temp, 10, 32))
BY AskedModes, DaikinModesRead
   DEF Asked, Byte, Clamp, Has, Basic, Says, Daikin160_asks, Daikin160_setparam,
       Daikin160_setTemp, DaikinSetMode, OneOf, kDaikinMinTemp, kDaikinMaxTemp

LEMMA Daikin216Asked ==
  ASSUME NEW s, Has(s, Basic), NEW r \in Asked
  PROVE  Says(Daikin216_asks(Daikin216_setparam(s, r)), Truth(r.power),
              r.mode, Clamp(r.temp, 10, 32))
BY AskedModes, DaikinModesRead
   DEF Has, Basic, Says, Daikin216_asks, Daikin216_setparam, Daikin216_setTemp, DaikinSetMode,
       OneOf, kDaikinMinTemp, kDaikinMaxTemp

LEMMA Daikin2Asked ==
  ASSUME NEW s, Has(s, {"Power", "Power2", "Mode", "Fan", "Temp"}), NEW r \in Asked
  PROVE  Says(Daikin2_asks(Daikin2_setparam(s, r)), Truth(r.power),
              r.mode, Clamp(r.temp, IF r.mode = kCool THEN 18 ELSE 10, 32))
<1>1. BitOf(Truth(r.power) = 1 /\ 1 - Truth(r.power) = 0) = Truth(r.power)
  BY DEF BitOf, Truth
<1>2. r.mode = kCool <=> DaikinMode(r.mode) = kDaikinCool
  BY AskedModes, DaikinHeats
<1> QED
BY <1>1, <1>2, AskedModes, DaikinModesRead
   DEF Has, Says, Daikin2_asks, Daikin2_setparam, Daikin2_setPower, Daikin2_setTemp,
       Daikin2_setMode, DaikinSetMode, OneOf, kDaikinMinTemp, kDaikinMaxTemp, kDaikin2MinCoolTemp

LEMMA Daikin64Modes ==  \A m \in {0, 1, 2, 3, 4} :
   LET mode == OneOf(Daikin64_convertMode(m), {kDaikin64Fan, kDaikin64Dry, kDaikin64Cool},
                     kDaikin64Cool) IN
   (kDaikin64Dry :> kDry @@ kDaikin64Cool :> kCool @@ kDaikin64Fan :> kFan)[mode]
      = IF m \in {kAuto, kHeat} THEN kCool ELSE m
BY DEF Daikin64_convertMode, OneOf, Lookup, :>, @@, kAuto, kHeat, kCool, kDry, kFan, kDaikin64Dry,
       kDaikin64Cool, kDaikin64Fan, kDaikinCool

LEMMA Daikin64Asked ==
  ASSUME NEW s, Has(s, Basic), NEW r \in Asked
  PROVE  Says(Daikin64_asks(Daikin64_setparam(s, r)), Truth(r.power),
              IF r.mode \in {kAuto, kHeat} THEN kCool ELSE r.mode, Clamp(r.temp, 16, 30))
<1>3. bcdToUint8(uint8ToBcd(Clamp(r.temp, 16, 30))) = Clamp(r.temp, 16, 30)
  BY BcdRead DEF Asked
<1> QED
BY <1>3, AskedModes, Daikin64Modes
   DEF Has, Basic, Says, Daikin64_asks, Daikin64_setparam, Daikin64_setTemp, Daikin64_setMode,
       Daikin64_setFan

LEMMA Daikin128Modes ==
  \A m \in {0, 1, 2, 3, 4} :
    LET mode == OneOf(Daikin128_convertMode(m), {kDaikin128Dry, kDaikin128Cool, kDaikin128Fan,
                                               kDaikin128Heat}, kDaikin128Auto)
    IN  Lookup(kDaikin128Dry :> kDry @@ kDaikin128Cool :> kCool @@ kDaikin128Fan :> kFan
                   @@ kDaikin128Heat :> kHeat, mode, kAuto) = IF m = kDry THEN kCool ELSE m
<1>1. \A m \in {0, 1, 2, 3, 4} :
        OneOf(Daikin128_convertMode(m), {kDaikin128Dry, kDaikin128Cool, kDaikin128Fan,
                                               kDaikin128Heat}, kDaikin128Auto) =
          IF m = kCool THEN kDaikin128Cool ELSE IF m = kHeat THEN kDaikin128Heat
          ELSE IF m = kDry THEN kDaikin128Cool
          ELSE IF m = kFan THEN kDaikin128Fan ELSE kDaikin128Auto
  BY Switch4
     DEF OneOf, Daikin128_convertMode, kDaikinDry, kAuto, kHeat, kCool, kDry, kFan, kDaikin128Dry,
         kDaikin128Heat, kDaikin128Fan, kDaikin128Auto, kDaikin128Cool
<1>2. QED
  BY <1>1, Switch4
     DEF kAuto, kHeat, kCool, kDry, kFan, kDaikin128Dry, kDaikin128Heat, kDaikin128Fan,
         kDaikin128Auto, kDaikin128Cool

LEMMA Daikin128Asked ==
  ASSUME NEW s, Has(s, {"Power", "Mode", "Fan", "Temp", "Econo"}), NEW r \in Asked
  PROVE  Says(Daikin128_asks(Daikin128_setparam(s, r)), Truth(r.power),
              IF r.mode = kDry THEN kCool ELSE r.mode, Clamp(r.temp, 16, 30))
<1>3. bcdToUint8(uint8ToBcd(Clamp(r.temp, 16, 30))) = Clamp(r.temp, 16, 30)
  BY BcdRead DEF Asked
<1> QED
BY <1>3, AskedModes, Daikin128Modes
   DEF Has, Says, Daikin128_asks, Daikin128_setparam, Daikin128_setTemp, Daikin128_setMode,
       Daikin128_setFan, Daikin128_setEcono

LEMMA Daikin176Modes ==
  \A m \in {0, 1, 2, 3, 4} :
    LET mode == OneOf(Daikin176_convertMode(m),
                      {kDaikin176Dry, kDaikin176Fan, kDaikin176Auto, kDaikin176Heat},
                      kDaikin176Cool)
    IN  /\ (kDaikin176Fan :> kFan @@ kDaikin176Heat :> kHeat @@ kDaikin176Cool :> kCool
             @@ kDaikin176Auto :> kAuto @@ kDaikin176Dry :> kDry)[mode] = m
        /\ mode \in {kDaikin176Dry, kDaikin176Fan} <=> m \in {kDry, kFan}
<1>1. \A m \in {0, 1, 2, 3, 4} :
        OneOf(Daikin176_convertMode(m), {kDaikin176Dry, kDaikin176Fan, kDaikin176Auto,
                                         kDaikin176Heat},
                      kDaikin176Cool) =
          IF m = kDry THEN kDaikin176Dry ELSE IF m = kHeat THEN kDaikin176Heat
          ELSE IF m = kFan THEN kDaikin176Fan
          ELSE IF m = kAuto THEN kDaikin176Auto ELSE kDaikin176Cool
  BY Switch4
     DEF OneOf, Daikin176_convertMode, kAuto, kHeat, kCool, kDry, kFan, kDaikin176Dry,
         kDaikin176Heat, kDaikin176Fan, kDaikin176Auto, kDaikin176Cool
<1>2. QED
  BY <1>1
     DEF :>, @@, kAuto, kHeat, kCool, kDry, kFan, kDaikin176Dry, kDaikin176Heat, kDaikin176Fan,
         kDaikin176Auto, kDaikin176Cool

LEMMA Daikin176Asked ==
  ASSUME NEW s, Has(s, {"Power", "Mode", "Fan", "Temp", "ModeButton", "AltMode", "_saved_temp"}),
         NEW r \in Asked
  PROVE  Says(Daikin176_asks(Daikin176_setparam(s, r)), Truth(r.power), r.mode,
              IF r.mode \in {kDry, kFan} THEN 17 ELSE Clamp(r.temp, 10, 32))
<1>1. Clamp(r.temp, 10, 32) - 9 + 9 = Clamp(r.temp, 10, 32)
  BY DEF Asked, Byte, Clamp
<1> QED
  BY <1>1, AskedModes, Daikin176Modes
     DEF Has, Says, Daikin176_asks, Daikin176_setparam, Daikin176_setTemp, Daikin176_setMode,
         Daikin176_setFan, kDaikinMinTemp, kDaikinMaxTemp, kDaikin176DryFanTemp

----------------------------------------------------------------------------
(* Hitachi and Mitsubishi                                                  *)

LEMMA Hitachi1Modes ==
  \A m \in {0, 1, 2, 3, 4} :
    LET mode == Hitachi1_convertMode(m)
    IN  /\ (kHitachiAc1Dry :> kDry @@ kHitachiAc1Fan :> kFan @@ kHitachiAc1Cool :> kCool
             @@ kHitachiAc1Heat :> kHeat @@ kHitachiAc1Auto :> kAuto)[mode] = m
        /\ mode = kHitachiAc1Auto <=> m = kAuto
<1>1. \A m \in {0, 1, 2, 3, 4} :
        Hitachi1_convertMode(m) =
          IF m = kCool THEN kHitachiAc1Cool ELSE IF m = kHeat THEN kHitachiAc1Heat
          ELSE IF m = kDry THEN kHitachiAc1Dry
          ELSE IF m = kFan THEN kHitachiAc1Fan ELSE kHitachiAc1Auto
  BY Switch4
     DEF Hitachi1_convertMode, kAuto, kHeat, kCool, kDry, kFan, kHitachiAc1Dry, kHitachiAc1Heat,
         kHitachiAc1Fan, kHitachiAc1Auto, kHitachiAc1Cool
<1>2. QED
  BY <1>1
     DEF :>, @@, kAuto, kHeat, kCool, kDry, kFan, kHitachiAc1Dry, kHitachiAc1Heat, kHitachiAc1Fan,
         kHitachiAc1Auto, kHitachiAc1Cool

Hitachi1_fields == {"Fan", "Mode", "Temp", "Sleep", "PowerToggle", "Power"}

LEMMA Hitachi1Asked ==
  ASSUME NEW s, Has(s, Hitachi1_fields), s.Mode = kHitachiAc1Auto, s.Temp = 9, NEW r \in Asked
  PROVE  Says(Hitachi1_asks(Hitachi1_setparam(s, r)), Truth(r.power), r.mode,
              IF r.mode = kAuto THEN 25 ELSE Clamp(r.temp, 16, 32))
<1>1. ASSUME NEW v \in 0 .. 31 PROVE reverseFive(reverseFive(v)) = v
  BY DEF reverseFive, reverseNibble
<1>2. reverseFive(9) + 7 = 25
  BY DEF reverseFive, reverseNibble
<1>3. /\ Clamp(r.temp, 16, 32) - 7 \in 0 .. 31
      /\ Clamp(r.temp, 16, 32) - 7 + 7 = Clamp(r.temp, 16, 32)
  BY DEF Asked, Byte, Clamp
<1>4. ASSUME NEW t, Has(t, Hitachi1_fields), NEW v
      PROVE  /\ Has(Hitachi1_setFan(t, v), Hitachi1_fields)
             /\ Has(Hitachi1_setSleep(t, v), Hitachi1_fields)
             /\ \A f \in {"Power", "Mode", "Temp"} :
                  Hitachi1_setFan(t, v)[f] = t[f] /\ Hitachi1_setSleep(t, v)[f] = t[f]
  BY <1>4 DEF Has, Hitachi1_fields, Hitachi1_setFan, Hitachi1_setSleep
<1>5. ASSUME NEW t, Has(t, Hitachi1_fields), t.Mode = kHitachiAc1Auto,
             NEW m \in {kHitachiAc1Fan, kHitachiAc1Heat, kHitachiAc1Cool, kHitachiAc1Dry,
                        kHitachiAc1Auto}
      PROVE  /\ Has(Hitachi1_setMode(t, m), Hitachi1_fields)
             /\ Hitachi1_setMode(t, m).Power = t.Power
             /\ Hitachi1_setMode(t, m).Mode = m
             /\ Hitachi1_setMode(t, m).Temp = t.Temp
  <2> DEFINE moded == IF m = kHitachiAc1Auto THEN t ELSE [t EXCEPT !.Mode = m]
             slept == Hitachi1_setSleep(moded, t.Sleep)
  <2>1. /\ Has(moded, Hitachi1_fields)
        /\ moded.Power = t.Power
        /\ moded.Mode = m
        /\ moded.Temp = t.Temp
    BY <1>5 DEF Has, Hitachi1_fields
  <2>2. Hitachi1_setMode(t, m) = Hitachi1_setFan(slept, t.Fan)
    <3>1. Hitachi1_setTemp(t, 25) = t
      BY <1>5 DEF Hitachi1_setTemp
    <3>2. CASE m = kHitachiAc1Auto
      <4>1. Hitachi1_setMode(t, kHitachiAc1Auto)
              = Hitachi1_setFan(Hitachi1_setSleep(Hitachi1_setTemp(t, 25), t.Sleep), t.Fan)
        <5>1. kHitachiAc1Auto \notin {kHitachiAc1Fan, kHitachiAc1Heat, kHitachiAc1Cool,
                                      kHitachiAc1Dry}
          BY DEF kHitachiAc1Auto, kHitachiAc1Fan, kHitachiAc1Heat, kHitachiAc1Cool, kHitachiAc1Dry
        <5>2. QED
          BY <5>1, Zenon DEF Hitachi1_setMode
      <4>2. QED
        BY <3>1, <3>2, <4>1 DEF slept, moded
    <3>3. CASE m # kHitachiAc1Auto
      <4>1. m \in {kHitachiAc1Fan, kHitachiAc1Heat, kHitachiAc1Cool, kHitachiAc1Dry}
        BY <1>5, <3>3
      <4>2. QED
        BY <3>3, <4>1, Zenon DEF Hitachi1_setMode, slept, moded
    <3>4. QED
      BY <3>2, <3>3
  <2> HIDE DEF moded
  <2>3. /\ Has(slept, Hitachi1_fields)
        /\ slept.Power = t.Power
        /\ slept.Mode = m
        /\ slept.Temp = t.Temp
    BY <1>4, <2>1
  <2> HIDE DEF slept
  <2>4. QED
    BY <1>4, <2>2, <2>3
<1> DEFINE native == Hitachi1_convertMode(r.mode)
           powered == Hitachi1_setPower(s, Truth(r.power))
           moded == Hitachi1_setMode(powered, native)
           fanned == Hitachi1_setFan(moded, Hitachi1_convertFan(r.fan))
           sent == Hitachi1_setTemp(fanned, r.temp)
<1>6. /\ Has(powered, Hitachi1_fields)
      /\ powered.Power = Truth(r.power)
      /\ powered.Mode = kHitachiAc1Auto
      /\ powered.Temp = 9
  BY DEF Has, Hitachi1_fields, Hitachi1_setPower
<1>7. native \in {kHitachiAc1Fan, kHitachiAc1Heat, kHitachiAc1Cool, kHitachiAc1Dry,
                  kHitachiAc1Auto}
  BY AskedModes, Switch4 DEF Hitachi1_convertMode
<1>8. /\ Has(moded, Hitachi1_fields)
      /\ moded.Power = Truth(r.power)
      /\ moded.Mode = native
      /\ moded.Temp = 9
  <2> HIDE DEF powered, native
  <2> QED BY <1>5, <1>6, <1>7
<1>9. /\ Has(fanned, Hitachi1_fields)
      /\ fanned.Power = Truth(r.power)
      /\ fanned.Mode = native
      /\ fanned.Temp = 9
  <2> HIDE DEF moded, native
  <2> QED BY <1>4, <1>8
<1>10. Hitachi1_setparam(s, r) = sent
  BY DEF Hitachi1_setparam
<1> HIDE DEF fanned
<1>11. /\ sent.Power = Truth(r.power) /\ sent.Mode = native
       /\ sent.Temp = IF native = kHitachiAc1Auto THEN 9
                      ELSE reverseFive(Clamp(r.temp, 16, 32) - 7)
  BY <1>9
     DEF Has, Hitachi1_fields, Hitachi1_setTemp, kHitachiAcMinTemp, kHitachiAcMaxTemp,
         kHitachiAc1TempDelta
<1> HIDE DEF sent
<1>12. QED
  BY <1>1, <1>2, <1>3, <1>10, <1>11, AskedModes, Hitachi1Modes
     DEF Says, Hitachi1_asks, kHitachiAc1TempDelta

LEMMA MitsubishiACModes ==
  \A m \in {0, 1, 2, 3, 4} :
    LET mode == OneOf(MitsubishiAC_convertMode(m), 1 .. 4, kMitsubishiAcAuto)
    IN  (kMitsubishiAcCool :> kCool @@ kMitsubishiAcHeat :> kHeat @@ kMitsubishiAcDry :> kDry
           @@ kMitsubishiAcAuto :> kAuto)[mode] = IF m = kFan THEN kAuto ELSE m
BY SMTT(30) DEF OneOf, MitsubishiAC_convertMode, Lookup, :>, @@, kAuto, kHeat, kCool, kDry, kFan,
       kMitsubishiAcCool, kMitsubishiAcHeat, kMitsubishiAcDry, kMitsubishiAcAuto

LEMMA MitsubishiACAsked ==
  ASSUME NEW s, Has(s, {"Power", "Mode", "Fan", "Temp", "mode8", "WideVane", "FanAuto"}),
         NEW r \in Asked
  PROVE  Says(MitsubishiAC_asks(MitsubishiAC_setparam(s, r)), Truth(r.power),
              IF r.mode = kFan THEN kAuto ELSE r.mode, Clamp(r.temp, 16, 31))
<1>1. Clamp(r.temp, 16, 31) - 16 + 16 = Clamp(r.temp, 16, 31)
  BY DEF Asked, Byte, Clamp
<1> QED
BY <1>1, AskedModes, MitsubishiACModes
   DEF Has, Says, MitsubishiAC_asks, MitsubishiAC_setparam, MitsubishiAC_setMode,
       MitsubishiAC_setFan, MitsubishiAC_setTemp, kMitsubishiAcMinTemp, kMitsubishiAcMaxTemp

LEMMA Mitsubishi112Modes ==
  \A m \in {0, 1, 2, 3, 4} :
    LET mode == OneOf(Mitsubishi112_convertMode(m), {1, 2, 3, 7}, kMitsubishi112Auto)
    IN  (kMitsubishi112Cool :> kCool @@ kMitsubishi112Heat :> kHeat @@ kMitsubishi112Dry :> kDry
           @@ kMitsubishi112Auto :> kAuto)[mode] = IF m = kFan THEN kAuto ELSE m
BY SMTT(30) DEF OneOf, Mitsubishi112_convertMode, Lookup, :>, @@, kAuto, kHeat, kCool, kDry, kFan,
       kMitsubishi112Cool, kMitsubishi112Heat, kMitsubishi112Dry, kMitsubishi112Auto

LEMMA Mitsubishi112Asked ==
  ASSUME NEW s, Has(s, Basic), NEW r \in Asked
  PROVE  Says(Mitsubishi112_asks(Mitsubishi112_setparam(s, r)), Truth(r.power),
              IF r.mode = kFan THEN kAuto ELSE r.mode, Clamp(r.temp, 16, 31))
<1>1. 31 - (31 - Clamp(r.temp, 16, 31)) = Clamp(r.temp, 16, 31)
  BY DEF Asked, Byte, Clamp
<1> QED
BY <1>1, AskedModes, Mitsubishi112Modes
   DEF Has, Basic, Says, Mitsubishi112_asks, Mitsubishi112_setparam, kMitsubishiAcMaxTemp

LEMMA Mitsubishi136Modes ==
  \A m \in {0, 1, 2, 3, 4} :
    LET mode == OneOf(Mitsubishi136_convertMode(m), {0, 1, 2, 3, 5}, kMitsubishi136Auto)
    IN  (kMitsubishi136Cool :> kCool @@ kMitsubishi136Heat :> kHeat @@ kMitsubishi136Dry :> kDry
             @@ kMitsubishi136Fan :> kFan @@ kMitsubishi136Auto :> kAuto)[mode] = m
<1>1. \A m \in {0, 1, 2, 3, 4} :
        OneOf(Mitsubishi136_convertMode(m), {0, 1, 2, 3, 5}, kMitsubishi136Auto) =
          IF m = kCool THEN kMitsubishi136Cool ELSE IF m = kHeat THEN kMitsubishi136Heat
          ELSE IF m = kDry THEN kMitsubishi136Dry
          ELSE IF m = kFan THEN kMitsubishi136Fan ELSE kMitsubishi136Auto
  BY Switch4
     DEF OneOf, Mitsubishi136_convertMode, kAuto, kHeat, kCool, kDry, kFan, kMitsubishi136Dry,
         kMitsubishi136Heat, kMitsubishi136Fan, kMitsubishi136Auto, kMitsubishi136Cool
<1>2. QED
  BY <1>1
     DEF :>, @@, kAuto, kHeat, kCool, kDry, kFan, kMitsubishi136Dry, kMitsubishi136Heat,
         kMitsubishi136Fan, kMitsubishi136Auto, kMitsubishi136Cool

LEMMA Mitsubishi136Asked ==
  ASSUME NEW s, Has(s, Basic), NEW r \in Asked
  PROVE  Says(Mitsubishi136_asks(Mitsubishi136_setparam(s, r)), Truth(r.power),
              r.mode, Clamp(r.temp, 17, 30))
<1>1. Clamp(r.temp, 17, 30) - 16 + 16 = Clamp(r.temp, 17, 30)
  BY DEF Asked, Byte, Clamp
<1> QED
BY <1>1, AskedModes, Mitsubishi136Modes
   DEF Has, Basic, Says, Mitsubishi136_asks, Mitsubishi136_setparam, kMitsubishiAcMinTemp

LEMMA HeavyModes ==
  \A m \in {0, 1, 2, 3, 4} :
    LET mode == OneOf(MitsubishiHeavy_convertMode(m), 1 .. 4, kMitsubishiHeavyAuto)
    IN  (kMitsubishiHeavyCool :> kCool @@ kMitsubishiHeavyHeat :> kHeat
           @@ kMitsubishiHeavyDry :> kDry @@ kMitsubishiHeavyFan :> kFan
           @@ kMitsubishiHeavyAuto :> kAuto)[mode] = m
<1>1. \A m \in {0, 1, 2, 3, 4} :
        OneOf(MitsubishiHeavy_convertMode(m), 1 .. 4, kMitsubishiHeavyAuto) =
          IF m = kCool THEN kMitsubishiHeavyCool ELSE IF m = kHeat THEN kMitsubishiHeavyHeat
          ELSE IF m = kDry THEN kMitsubishiHeavyDry
          ELSE IF m = kFan THEN kMitsubishiHeavyFan ELSE kMitsubishiHeavyAuto
  BY Switch4
     DEF OneOf, MitsubishiHeavy_convertMode, kAuto, kHeat, kCool, kDry, kFan,
         kMitsubishiHeavyCool, kMitsubishiHeavyHeat, kMitsubishiHeavyDry, kMitsubishiHeavyFan,
         kMitsubishiHeavyAuto
<1>2. QED
BY <1>1
   DEF :>, @@, kAuto, kHeat, kCool, kDry, kFan, kMitsubishiHeavyCool, kMitsubishiHeavyHeat,
       kMitsubishiHeavyDry, kMitsubishiHeavyFan, kMitsubishiHeavyAuto

LEMMA HeavyAsked ==
  ASSUME NEW s, Has(s, Basic), NEW r \in Asked
  PROVE  /\ Says(Heavy152_asks(Heavy152_setparam(s, r)), Truth(r.power),
                 r.mode, Clamp(r.temp, 17, 31))
         /\ Says(Heavy88_asks(Heavy88_setparam(s, r)), Truth(r.power),
                 r.mode, Clamp(r.temp, 17, 31))
<1>1. Clamp(r.temp, 17, 31) - 17 + 17 = Clamp(r.temp, 17, 31)
  BY DEF Asked, Byte, Clamp
<1> QED
BY <1>1, AskedModes, HeavyModes
   DEF Has, Basic, Says, Heavy152_asks, Heavy88_asks, Heavy152_setparam, Heavy88_setparam,
       MitsubishiHeavy_asks, MitsubishiHeavy_setMode, MitsubishiHeavy_setTemp, Heavy152_setFan,
       Heavy88_setFan, kMitsubishiHeavyMinTemp, kMitsubishiHeavyMaxTemp

----------------------------------------------------------------------------
(* Fujitsu, Panasonic, Sharp, Sanyo and Toshiba                            *)

LEMMA FujitsuModes ==
  \A m \in {0, 1, 2, 3, 4} :
    LET mode == Clamp(Fujitsu_convertMode(m), 0, kFujitsuAcModeHeat)
    IN  (0 :> kAuto @@ 1 :> kCool @@ 2 :> kDry @@ 3 :> kFan @@ 4 :> kHeat)[mode] = m
<1>1. \A m \in {0, 1, 2, 3, 4} :
        Clamp(Fujitsu_convertMode(m), 0, kFujitsuAcModeHeat) =
          IF m = kCool THEN 1 ELSE IF m = kHeat THEN 4 ELSE IF m = kDry THEN 2
          ELSE IF m = kFan THEN 3 ELSE 0
  BY Switch4 DEF Clamp, Fujitsu_convertMode, kAuto, kHeat, kCool, kDry, kFan, kFujitsuAcModeHeat
<1>2. QED
  BY <1>1 DEF :>, @@, kAuto, kHeat, kCool, kDry, kFan, kFujitsuAcModeHeat

Fujitsu_fields == {"_cmd", "_mode", "_fanSpeed", "_temp", "_model"}

LEMMA FujitsuAsked ==
  ASSUME NEW s, Has(s, Fujitsu_fields), NEW r \in Asked
  PROVE  Says(Fujitsu_asks(Fujitsu_setparam(s, r)), 1, r.mode, Clamp(r.temp, 16, 30))
<1>1. ASSUME NEW t, Has(t, Fujitsu_fields)
      PROVE  /\ Has(StayOn(t), Fujitsu_fields) /\ StayOn(t)._cmd = kFujitsuAcCmdStayOn
             /\ StayOn(t)._mode = t._mode /\ StayOn(t)._temp = t._temp
  BY <1>1 DEF StayOn, Fujitsu_setCmd, OneOf, Has, Fujitsu_fields
<1>2. kFujitsuAcCmdStayOn # kFujitsuAcCmdTurnOff
  BY DEF kFujitsuAcCmdStayOn, kFujitsuAcCmdTurnOff
<1>3. Has(Fujitsu_setPower(s, Truth(r.power)), Fujitsu_fields)
  BY DEF Has, Fujitsu_setPower, Fujitsu_setCmd
<1>4. ASSUME NEW t, Has(t, Fujitsu_fields), NEW v
      PROVE  /\ Has(Fujitsu_setMode(t, v), Fujitsu_fields)
             /\ Fujitsu_setMode(t, v)._mode = Clamp(v, 0, kFujitsuAcModeHeat)
             /\ Has(Fujitsu_setFanSpeed(t, v), Fujitsu_fields)
             /\ Fujitsu_setFanSpeed(t, v)._mode = t._mode
             /\ Fujitsu_setTemp(t, v)._mode = t._mode
             /\ Fujitsu_setTemp(t, v)._temp = Clamp(v, 16, 30)
             /\ Fujitsu_setTemp(t, v)._cmd = kFujitsuAcCmdStayOn
  <2> DEFINE a == [t EXCEPT !._mode = Clamp(v, 0, kFujitsuAcModeHeat)]
             b == [t EXCEPT !._fanSpeed = IF v > 4 THEN 1 ELSE v]
             c == [t EXCEPT !._temp = Clamp(v, 16, 30)]
  <2>1. Has(a, Fujitsu_fields) /\ a._mode = Clamp(v, 0, kFujitsuAcModeHeat)
    BY <1>4 DEF Has, Fujitsu_fields
  <2>2. Has(b, Fujitsu_fields) /\ b._mode = t._mode
    BY <1>4 DEF Has, Fujitsu_fields
  <2>3. Has(c, Fujitsu_fields) /\ c._mode = t._mode /\ c._temp = Clamp(v, 16, 30)
    BY <1>4 DEF Has, Fujitsu_fields
  <2>4. /\ Fujitsu_setMode(t, v) = StayOn(a)
        /\ Fujitsu_setFanSpeed(t, v) = StayOn(b)
        /\ Fujitsu_setTemp(t, v) = StayOn(c)
    BY DEF Fujitsu_setMode, Fujitsu_setFanSpeed, Fujitsu_setTemp
  <2> HIDE DEF a, b, c
  <2> QED
    BY <1>1, <2>1, <2>2, <2>3, <2>4
<1> DEFINE moded == Fujitsu_setMode(Fujitsu_setPower(s, Truth(r.power)),
                                    Fujitsu_convertMode(r.mode))
           fanned == Fujitsu_setFanSpeed(moded, Fujitsu_convertFan(r.fan))
           sent == Fujitsu_setTemp(fanned, r.temp)
           native == Clamp(Fujitsu_convertMode(r.mode), 0, kFujitsuAcModeHeat)
<1>5. Has(moded, Fujitsu_fields) /\ moded._mode = native
  BY <1>3, <1>4
<1>6. Has(fanned, Fujitsu_fields) /\ fanned._mode = native
  <2> HIDE DEF moded
  <2> QED BY <1>4, <1>5
<1>7. sent._mode = native /\ sent._temp = Clamp(r.temp, 16, 30) /\ sent._cmd = kFujitsuAcCmdStayOn
  <2> HIDE DEF fanned
  <2> QED BY ZenonT(30), <1>4, <1>6
<1>8. Fujitsu_setparam(s, r) = sent
  BY DEF Fujitsu_setparam
<1> HIDE DEF sent
<1>9. QED
  BY <1>2, <1>7, <1>8, AskedModes, FujitsuModes DEF Says, Fujitsu_asks, BitOf

LEMMA PanasonicModes ==
  \A m \in {0, 1, 2, 3, 4} :
    LET mode == Panasonic_convertMode(m)
    IN  /\ Lookup(2 :> kDry @@ 3 :> kCool @@ 4 :> kHeat @@ 6 :> kFan, mode, kAuto) = m
        /\ mode \in {0, 2, 3, 4, kPanasonicAcFan}
<1>1. \A m \in {0, 1, 2, 3, 4} :
        Panasonic_convertMode(m) =
          IF m = kCool THEN 3 ELSE IF m = kHeat THEN 4 ELSE IF m = kDry THEN 2
          ELSE IF m = kFan THEN 6 ELSE 0
  BY Switch4 DEF Panasonic_convertMode, kAuto, kHeat, kCool, kDry, kFan, kPanasonicAcFan
<1>2. QED
  BY <1>1, Switch4 DEF kAuto, kHeat, kCool, kDry, kFan, kPanasonicAcFan

LEMMA PanasonicAsked ==
  ASSUME NEW s, Has(s, {"Power", "Mode", "Temp", "_temp", "Fan"}), NEW r \in Asked
  PROVE  Says(Panasonic_asks(Panasonic_setparam(s, r)), Truth(r.power),
              r.mode, Clamp(r.temp, 16, 30))
BY AskedModes, PanasonicModes
   DEF Has, Says, Panasonic_asks, Panasonic_setparam, Panasonic_setTemp, Panasonic_setFan,
       Panasonic_setMode

LEMMA SharpModes ==
  \A m \in {0, 1, 2, 3, 4} :
    /\ Sharp_convertMode(m) \in kSharpAcAuto .. kSharpAcDry
    /\ Sharp_convertMode(m) = kSharpAcHeat <=> m = kHeat
BY DEF Sharp_convertMode, Lookup, :>, @@, kAuto, kHeat, kCool, kDry, kFan, kSharpAcAuto,
       kSharpAcHeat, kSharpAcCool, kSharpAcDry

LEMMA SharpAsked ==
  ASSUME NEW s, Has(s, {"Temp", "PowerSpecial", "Mode", "Clean", "Fan", "Special", "_temp",
                        "_mode", "_fan", "_model"}),
         s.Mode = kSharpAcAuto, s.Clean = 0, s._model = A907, NEW r \in Asked
  PROVE  Says(Sharp_asks(Sharp_setparam(s, r)), Truth(r.power),
              IF r.mode = kHeat THEN kHeat ELSE kAuto,
              IF r.mode = kHeat THEN Clamp(r.temp, 15, 30) ELSE 15)
<1> DEFINE Ok(t, mode) ==
             /\ Has(t, {"Temp", "PowerSpecial", "Mode", "Clean", "Fan", "Special",
                        "_temp", "_mode", "_fan", "_model"})
             /\ t._model = A907 /\ t.Mode = mode
             /\ t.PowerSpecial = IF Truth(r.power) = 1 THEN kSharpAcPowerOn ELSE kSharpAcPowerOff
<1>1. Ok(Sharp_setPower(s, Truth(r.power), TRUE), kSharpAcAuto)
  BY DEF Sharp_setPower, Has, Truth, BitOf
<1>2. \A t, mode, v : Ok(t, mode) => Ok(Pressed(t, v), mode)
  BY DEF Pressed, Has, kSharpAcPowerOn, kSharpAcPowerOff
<1>3. ASSUME NEW t, NEW mode, Ok(t, mode), NEW v, NEW save
      PROVE  Ok(Sharp_setTemp(t, v, save), mode) /\ Ok(Sharp_setFan(t, v, save), mode)
  <2> DEFINE base == IF t._model = A705 THEN 208 ELSE 192
             warmed == [t EXCEPT !.Temp = base + Clamp(v, 15, 30) - 15,
                                 !._temp = IF save THEN Clamp(v, 15, 30) ELSE @]
             known == v \in {kSharpAcFanAuto, 3, 4, 5, kSharpAcFanMax}
             fan == IF known THEN v ELSE kSharpAcFanAuto
             fanned == [t EXCEPT !.Fan = fan, !._fan = IF save \/ ~known THEN fan ELSE @]
  <2>2. Ok([t EXCEPT !.Temp = 0], mode) /\ Ok(warmed, mode) /\ Ok(fanned, mode)
    BY <1>3 DEF Has
  <2> HIDE DEF Ok
  <2>3. Sharp_setTemp(t, v, save) =
          IF t.Mode \in {kSharpAcAuto, kSharpAcDry} THEN [t EXCEPT !.Temp = 0]
          ELSE Pressed(warmed, kSharpAcSpecialTempEcono)
    BY DEF Sharp_setTemp
  <2>4. Sharp_setFan(t, v, save) = Pressed(fanned, kSharpAcSpecialFan)
    BY DEF Sharp_setFan
  <2> HIDE DEF warmed, fanned
  <2>5. QED
    BY <1>2, <2>2, <2>3, <2>4
<1>4. PICK mode : mode = Sharp_convertMode(r.mode)
  OBVIOUS
<1>5. mode \in kSharpAcAuto .. kSharpAcDry /\ (mode = kSharpAcHeat <=> r.mode = kHeat)
  BY <1>4, AskedModes, SharpModes
<1> DEFINE native == IF r.mode = kHeat THEN kSharpAcHeat ELSE kSharpAcAuto
<1>6. Ok(Sharp_setMode(Sharp_setPower(s, Truth(r.power), TRUE), mode, TRUE), native)
  <2> DEFINE t == Sharp_setPower(s, Truth(r.power), TRUE)
  <2>1. Ok(t, kSharpAcAuto)
    BY <1>1
  <2> HIDE DEF t
  <2>2. Ok([t EXCEPT !.Mode = kSharpAcHeat], kSharpAcHeat)
    BY <2>1 DEF Has
  <2>3. \A u, v, w : Ok(u, v) => Ok([u EXCEPT !._mode = w], v)
    BY DEF Has
  <2>4. t._model # A705
    BY <2>1 DEF A907, A705
  <2>5. kSharpAcHeat \notin {kSharpAcAuto, kSharpAcDry}
    BY DEF kSharpAcHeat, kSharpAcAuto, kSharpAcDry
  <2> HIDE DEF Ok
  <2> DEFINE stored ==
               CASE mode \in {kSharpAcAuto, kSharpAcDry} -> Sharp_setFan(t, kSharpAcFanAuto, FALSE)
                 [] mode = kSharpAcHeat -> [t EXCEPT !.Mode = mode]
                 [] OTHER -> t
  <2>6. Ok(stored, native)
    <3>1. CASE r.mode = kHeat
      BY <3>1, <1>5, <2>2, <2>5
    <3>2. CASE r.mode # kHeat
      BY <3>2, <1>5, <2>1, <1>3
    <3>3. QED
      BY <3>1, <3>2
  <2>7. Sharp_setMode(t, mode, TRUE) =
          Pressed([Sharp_setTemp(stored, t._temp, FALSE) EXCEPT !._mode = mode],
                  kSharpAcSpecialPower)
    BY <2>4 DEF Sharp_setMode
  <2> HIDE DEF stored, native
  <2> DEFINE warmed == Sharp_setTemp(stored, t._temp, FALSE)
  <2>8. Ok(warmed, native)
    BY <1>3, <2>6
  <2>9. Ok([warmed EXCEPT !._mode = mode], native)
    BY <2>3, <2>8
  <2>10. Ok(Sharp_setMode(t, mode, TRUE), native)
    BY <1>2, <2>7, <2>9
  <2>11. QED
    BY <2>10 DEF t
<1> DEFINE fanned == Sharp_setFan(Sharp_setMode(Sharp_setPower(s, Truth(r.power), TRUE),
                                                mode, TRUE),
                                  Sharp_convertFan(r.fan), TRUE)
<1>7. Ok(fanned, native)
  <2> HIDE DEF Ok, native
  <2> QED BY <1>3, <1>6
<1>8. Sharp_setparam(s, r) = Sharp_setTemp(fanned, r.temp, TRUE)
  BY <1>4 DEF Sharp_setparam
<1> HIDE DEF fanned
<1>9. Ok(Sharp_setTemp(fanned, r.temp, TRUE), native)
  <2> HIDE DEF Ok, native
  <2> QED BY <1>3, <1>7
<1>10. Sharp_setTemp(fanned, r.temp, TRUE).Temp =
         IF r.mode = kHeat THEN 192 + Clamp(r.temp, 15, 30) - 15 ELSE 0
  BY <1>7 DEF Sharp_setTemp, Pressed, Has, A907, A705, kSharpAcAuto, kSharpAcHeat, kSharpAcDry
<1>11. /\ ((192 + Clamp(r.temp, 15, 30) - 15) % 16) + 15 = Clamp(r.temp, 15, 30)
       /\ (0 % 16) + 15 = 15
  BY DEF Clamp, Asked, Byte
<1>12. (kSharpAcAuto :> kAuto @@ kSharpAcHeat :> kHeat @@ kSharpAcCool :> kCool
             @@ kSharpAcDry :> kDry)[native] = IF r.mode = kHeat THEN kHeat ELSE kAuto
  BY DEF :>, @@, kSharpAcAuto, kSharpAcHeat, kSharpAcCool, kSharpAcDry
<1>13. Truth(r.power) = BitOf((IF Truth(r.power) = 1 THEN kSharpAcPowerOn
                               ELSE kSharpAcPowerOff) \notin {0, kSharpAcPowerOff})
  BY DEF Truth, BitOf, kSharpAcPowerOn, kSharpAcPowerOff
<1> HIDE DEF native
<1> DEFINE sent == Sharp_setTemp(fanned, r.temp, TRUE)
<1>14. /\ sent.Mode = native
       /\ sent.PowerSpecial = IF Truth(r.power) = 1 THEN kSharpAcPowerOn ELSE kSharpAcPowerOff
  BY <1>9
<1>15. sent.Temp = IF r.mode = kHeat THEN 192 + Clamp(r.temp, 15, 30) - 15 ELSE 0
  BY <1>10
<1>16. Sharp_setparam(s, r) = sent
  BY <1>8
<1> HIDE DEF Ok, sent
<1>17. Sharp_asks(sent).power = Truth(r.power)
  BY <1>13, <1>14 DEF Sharp_asks
<1>18. Sharp_asks(sent).mode = IF r.mode = kHeat THEN kHeat ELSE kAuto
  BY <1>12, <1>14 DEF Sharp_asks
<1>19. Sharp_asks(sent).temp = IF r.mode = kHeat THEN Clamp(r.temp, 15, 30) ELSE 15
  BY <1>11, <1>15 DEF Sharp_asks
<1>20. QED
  BY <1>16, <1>17, <1>18, <1>19 DEF Says

LEMMA SanyoModes ==
  \A m \in {0, 1, 2, 3, 4} :
    Lookup(1 :> kHeat @@ 2 :> kCool @@ 3 :> kDry, Sanyo_convertMode(m), kAuto) =
      IF m = kFan THEN kAuto ELSE m
BY DEF Sanyo_convertMode, Lookup, :>, @@, kAuto, kHeat, kCool, kDry, kFan

LEMMA SanyoAsked ==
  ASSUME NEW s, Has(s, Basic), NEW r \in Asked
  PROVE  Says(Sanyo_asks(Sanyo_setparam(s, r)), Truth(r.power),
              IF r.mode = kFan THEN kAuto ELSE r.mode, Clamp(r.temp, 16, 30))
<1>1. Clamp(r.temp, 16, 30) - 4 + 4 = Clamp(r.temp, 16, 30)
  BY DEF Asked, Byte, Clamp
<1> QED
BY <1>1, AskedModes, SanyoModes
   DEF Has, Basic, Says, Sanyo_asks, Sanyo_setparam, Sanyo_temp, Truth, BitOf, kSanyoAcPowerOn,
       kSanyoAcPowerOff, kSanyoAcTempDelta

LEMMA ToshibaModes ==
  \A m \in {0, 1, 2, 3, 4} :
    LET mode == Toshiba_convertMode(m)
    IN  /\ Lookup(1 :> kCool @@ 2 :> kDry @@ 3 :> kHeat @@ 4 :> kFan, mode, kAuto) = m
        /\ mode \in kToshibaAcAuto .. kToshibaAcFan
<1>1. \A m \in {0, 1, 2, 3, 4} :
        Toshiba_convertMode(m) =
          IF m = kCool THEN 1 ELSE IF m = kHeat THEN 3 ELSE IF m = kDry THEN 2
          ELSE IF m = kFan THEN 4 ELSE 0
  BY Switch4
     DEF Toshiba_convertMode, kAuto, kHeat, kCool, kDry, kFan, kToshibaAcAuto, kToshibaAcFan
<1>2. QED
  BY <1>1, Switch4 DEF kAuto, kHeat, kCool, kDry, kFan, kToshibaAcAuto, kToshibaAcFan

LEMMA ToshibaAsked ==
  ASSUME NEW s, Has(s, {"length", "Temp", "Fan", "Mode", "prev_mode"}), NEW r \in Asked
  PROVE  Says(Toshiba_asks(Toshiba_setparam(s, r)), 1, r.mode, Clamp(r.temp, 17, 30))
<1>1. Clamp(r.temp, 17, 30) - 17 + 17 = Clamp(r.temp, 17, 30)
  BY DEF Asked, Byte, Clamp
<1>2. ASSUME NEW t, Has(t, {"length", "Temp", "Fan", "Mode", "prev_mode"}), NEW m
      PROVE  /\ Has(Toshiba_setMode(t, m), {"length", "Temp", "Fan", "Mode", "prev_mode"})
             /\ m \in kToshibaAcAuto .. kToshibaAcFan => Toshiba_setMode(t, m).Mode = m
  BY <1>2 DEF Has, Toshiba_setMode, Toshiba_setStateLength
<1>3. Has(Toshiba_setPower(s, Truth(r.power)), {"length", "Temp", "Fan", "Mode", "prev_mode"})
  BY <1>2 DEF Toshiba_setPower
<1> DEFINE moded == Toshiba_setMode(Toshiba_setPower(s, Truth(r.power)),
                                    Toshiba_convertMode(r.mode))
<1>4. /\ Has(moded, {"length", "Temp", "Fan", "Mode", "prev_mode"})
      /\ moded.Mode = Toshiba_convertMode(r.mode)
  BY <1>2, <1>3, AskedModes, ToshibaModes
<1>5. Toshiba_setparam(s, r) =
        Toshiba_setTemp(Toshiba_setFan(moded, Toshiba_convertFan(r.fan)), r.temp)
  BY DEF Toshiba_setparam
<1> HIDE DEF moded
<1>6. Toshiba_convertMode(r.mode) # kToshibaAcOff
  BY AskedModes, ToshibaModes DEF kToshibaAcAuto, kToshibaAcFan, kToshibaAcOff
<1> QED
BY <1>1, <1>4, <1>5, <1>6, AskedModes, ToshibaModes
   DEF Has, Says, Toshiba_asks, Toshiba_setFan, Toshiba_setTemp, BitOf

----------------------------------------------------------------------------
(* Gree, Kelvinator, Midea, TCL, Goodweather and Neoclima                  *)

LEMMA GreeModes ==
  \A m \in {0, 1, 2, 3, 4} :
    LET mode == GreeMode(m)
    IN  /\ GreeModeAsked(mode) = m
        /\ mode \in kGreeAuto .. kGreeHeat
        /\ mode = kGreeAuto <=> m = kAuto
        /\ mode = kGreeDry <=> m = kDry
<1>1. \A m \in {0, 1, 2, 3, 4} :
        GreeMode(m) =
          IF m = kCool THEN kGreeCool ELSE IF m = kHeat THEN kGreeHeat
          ELSE IF m = kDry THEN kGreeDry ELSE IF m = kFan THEN kGreeFan ELSE kGreeAuto
  BY Switch4
     DEF GreeMode, kAuto, kHeat, kCool, kDry, kFan, kGreeCool, kGreeHeat, kGreeDry, kGreeFan,
         kGreeAuto
<1>2. QED
  BY <1>1, Switch4
     DEF GreeModeAsked, kAuto, kHeat, kCool, kDry, kFan, kGreeCool, kGreeHeat, kGreeDry, kGreeFan,
         kGreeAuto

LEMMA GreeAsked ==
  ASSUME NEW s, Has(s, {"Mode", "Power", "Fan", "Temp", "ModelA", "UseFahrenheit",
                        "TempExtraDegreeF", "_model"}),
         NEW r \in Asked
  PROVE  Says(Gree_asks(Gree_getRaw(Gree_setparam(s, r))), Truth(r.power),
              r.mode, IF r.mode = kAuto THEN 25 ELSE Clamp(r.temp, 16, 30))
<1> DEFINE shown(mode, t) == (IF mode = kGreeAuto THEN 18 * 25
                              ELSE Clamp(18 * t, 18 * 16, 18 * 30)) \div 18 - 16
<1>1. \A m : shown(m, r.temp) + 16 = IF m = kGreeAuto THEN 25 ELSE Clamp(r.temp, 16, 30)
  <2>1. /\ r.temp \in Nat
        /\ (18 * r.temp) \div 18 = r.temp
        /\ (18 * 16) \div 18 = 16
        /\ (18 * 30) \div 18 = 30
        /\ (18 * 25) \div 18 = 25
    BY DEF Asked, Byte
  <2>2. Clamp(18 * r.temp, 18 * 16, 18 * 30) = 18 * Clamp(r.temp, 16, 30)
    BY <2>1 DEF Clamp
  <2>3. /\ (18 * Clamp(r.temp, 16, 30)) \div 18 = Clamp(r.temp, 16, 30)
        /\ Clamp(r.temp, 16, 30) \in Nat
    BY <2>1 DEF Clamp
  <2>4. QED
    BY <2>1, <2>2, <2>3
<1> DEFINE fields == {"Mode", "Power", "Fan", "Temp", "ModelA", "UseFahrenheit",
                      "TempExtraDegreeF", "_model"}
<1>2. ASSUME NEW t, Has(t, fields), NEW v
      PROVE  /\ Has(Gree_setPower(t, v), fields) /\ Gree_setPower(t, v).Power = v
             /\ Gree_setPower(t, v).Mode = t.Mode /\ Gree_setPower(t, v).Temp = t.Temp
             /\ Has(Gree_setFan(t, v), fields)
             /\ Gree_setFan(t, v).Power = t.Power
             /\ Gree_setFan(t, v).Mode = t.Mode
             /\ Has(Gree_setTemp(t, v, 0), fields)
             /\ Gree_setTemp(t, v, 0).Power = t.Power
             /\ Gree_setTemp(t, v, 0).Mode = t.Mode
             /\ Gree_setTemp(t, v, 0).Temp = shown(t.Mode, v)
  BY <1>2 DEF Has, Gree_setPower, Gree_setFan, Gree_setTemp, kGreeMinTempC, kGreeMaxTempC
<1>3. ASSUME NEW t, Has(t, fields), NEW m \in kGreeAuto .. kGreeHeat
      PROVE  /\ Has(Gree_setMode(t, m), fields)
             /\ Gree_setMode(t, m).Power = t.Power
             /\ Gree_setMode(t, m).Mode = m
  BY <1>2, <1>3 DEF Has, Gree_setMode, OneOf
<1>4. Has(s, fields)
  OBVIOUS
<1> HIDE DEF fields, shown
<1>5. /\ GreeMode(r.mode) \in kGreeAuto .. kGreeHeat
      /\ GreeModeAsked(GreeMode(r.mode)) = r.mode
      /\ GreeMode(r.mode) = kGreeAuto <=> r.mode = kAuto
  BY AskedModes, GreeModes
<1> DEFINE moded == Gree_setMode(Gree_setPower(s, Truth(r.power)), GreeMode(r.mode))
<1>6. Has(moded, fields) /\ moded.Power = Truth(r.power) /\ moded.Mode = GreeMode(r.mode)
  BY <1>2, <1>3, <1>4, <1>5
<1> DEFINE sent == Gree_setTemp(Gree_setFan(moded, Gree_convertFan(r.fan)), r.temp, 0)
<1>7. Has(sent, fields) /\ sent.Power = Truth(r.power) /\ sent.Mode = GreeMode(r.mode)
      /\ sent.Temp = shown(GreeMode(r.mode), r.temp)
  <2> HIDE DEF moded
  <2> DEFINE fanned == Gree_setFan(moded, Gree_convertFan(r.fan))
  <2>1. Has(fanned, fields) /\ fanned.Power = Truth(r.power) /\ fanned.Mode = GreeMode(r.mode)
    BY <1>2, <1>6
  <2>2. sent = Gree_setTemp(fanned, r.temp, 0)
    OBVIOUS
  <2> HIDE DEF fanned, sent
  <2> QED BY <1>2, <1>5, <2>1, <2>2
<1>8. Gree_setparam(s, r) = sent
  BY DEF Gree_setparam
<1> HIDE DEF sent
<1> QED
  BY <1>1, <1>2, <1>5, <1>7, <1>8 DEF Says, Gree_asks, Gree_getRaw, kGreeMinTempC

LEMMA KelvinatorAsked ==
  ASSUME NEW s, Has(s, {"Mode", "Power", "Fan", "BasicFan", "Turbo", "Temp", "XFan"}),
         s.Mode \in {0, 7}, NEW r \in Asked
  PROVE  Says(Kelvinator_asks(Kelvinator_getRaw(Kelvinator_setparam(s, r))), Truth(r.power),
              IF r.mode = kDry THEN kAuto ELSE r.mode, Clamp(r.temp, 16, 30))
<1>1. Clamp(r.temp, 16, 30) - 16 + 16 = Clamp(r.temp, 16, 30)
  BY DEF Asked, Byte, Clamp
<1>2. GreeModeAsked(0) = kAuto /\ GreeModeAsked(7) = kAuto
  BY Switch4 DEF GreeModeAsked, kGreeAuto, kGreeCool, kGreeHeat, kGreeDry, kGreeFan
<1>3. /\ GreeMode(r.mode) \in {kGreeAuto, kGreeDry, kGreeHeat, kGreeCool, kGreeFan}
      /\ GreeModeAsked(GreeMode(r.mode)) = r.mode
      /\ (GreeMode(r.mode) \in {kGreeAuto, kGreeDry} <=> r.mode \in {kAuto, kDry})
  BY AskedModes, GreeModes DEF kGreeAuto, kGreeCool, kGreeHeat, kGreeDry, kGreeFan
<1>4. \A t, speed : Has(t, {"Mode", "Power", "Fan", "BasicFan", "Turbo", "Temp", "XFan"}) =>
       /\ Has(Kelvinator_setFan(t, speed),
              {"Mode", "Power", "Fan", "BasicFan", "Turbo", "Temp", "XFan"})
       /\ Kelvinator_setFan(t, speed).Mode = t.Mode /\ Kelvinator_setFan(t, speed).Power = t.Power
  BY DEF Kelvinator_setFan, Has
<1> DEFINE moded == Kelvinator_setMode([s EXCEPT !.Power = Truth(r.power)], GreeMode(r.mode))
<1>5. /\ Has(moded, {"Mode", "Power", "Fan", "BasicFan", "Turbo", "Temp",
                     "XFan"}) /\ moded.Power = Truth(r.power)
      /\ moded.Mode = IF r.mode \in {kAuto, kDry} THEN s.Mode ELSE GreeMode(r.mode)
  <2>1. CASE r.mode \in {kAuto, kDry}
    BY <1>3, <2>1
       DEF Has, Kelvinator_setMode, Kelvinator_setTemp, kGreeAuto, kGreeCool, kGreeHeat, kGreeDry,
           kGreeFan
  <2>2. CASE r.mode \notin {kAuto, kDry}
    BY <1>3, <2>2 DEF Has, Kelvinator_setMode, Kelvinator_setTemp
  <2>3. QED
    BY <2>1, <2>2
<1> HIDE DEF moded
<1>6. Kelvinator_setparam(s, r) = Kelvinator_setTemp(Kelvinator_setFan(moded, r.fan), r.temp)
  BY DEF Kelvinator_setparam, moded
<1> QED
  BY <1>1, <1>2, <1>3, <1>4, <1>5, <1>6
     DEF Has, Says, Kelvinator_asks, Kelvinator_getRaw, Kelvinator_setTemp

LEMMA MideaModes ==
  \A m \in {0, 1, 2, 3, 4} :
    LET mode == Midea_convertMode(m)
    IN  Lookup(0 :> kCool @@ 1 :> kDry @@ 3 :> kHeat @@ 4 :> kFan, mode, kAuto) = m
<1>1. \A m \in {0, 1, 2, 3, 4} :
        Midea_convertMode(m) =
          IF m = kCool THEN 0 ELSE IF m = kHeat THEN 3 ELSE IF m = kDry THEN 1
          ELSE IF m = kFan THEN 4 ELSE kMideaACAuto
  BY Switch4 DEF Midea_convertMode, kAuto, kHeat, kCool, kDry, kFan, kMideaACAuto
<1>2. QED
  BY <1>1, Switch4 DEF kAuto, kHeat, kCool, kDry, kFan, kMideaACAuto

LEMMA MideaAsked ==
  ASSUME NEW s, Has(s, {"Power", "Mode", "Temp", "Fan", "useFahrenheit"}), s.useFahrenheit = 1,
         NEW r \in Asked
  PROVE  LET got == Midea_asks(Midea_setparam(s, r))
         IN  /\ got.power = Truth(r.power) /\ got.mode = r.mode
             /\ got.temp \in IF r.temp <= kMideaACMinTempF THEN {17} ELSE 17 .. 30
<1> DEFINE degrees == Clamp(r.temp, 62, 86)
<1>1. degrees \in 62 .. 86 /\ (r.temp <= 62 => degrees = 62)
  BY DEF Asked, Byte, Clamp
<1>2. Clamp(degrees - 62, 0, 255) + 62 = degrees
  BY <1>1 DEF Clamp
<1>3. (10 * (degrees - 32) + 9) \div 18 \in IF r.temp <= 62 THEN {17} ELSE 17 .. 30
  BY <1>1 DEF Asked, Byte
<1> HIDE DEF degrees
<1> DEFINE moded == [s EXCEPT !.Power = Truth(r.power), !.Mode = Midea_convertMode(r.mode),
                         !.Fan = Midea_convertFan(r.fan)]
<1>4. /\ Has(moded, {"Power", "Mode", "Temp", "Fan", "useFahrenheit"})
      /\ moded.useFahrenheit = 1
      /\ moded.Power = Truth(r.power)
      /\ moded.Mode = Midea_convertMode(r.mode)
  BY DEF Has
<1>5. Midea_setparam(s, r) = Midea_setTemp(moded, r.temp, 0)
  BY DEF Midea_setparam
<1> HIDE DEF moded
<1>6. Midea_setTemp(moded, r.temp, 0) = [moded EXCEPT !.Temp = Clamp(degrees - 62, 0, 255)]
  BY <1>4 DEF Midea_setTemp, Midea_native, degrees, kMideaACMinTempF, kMideaACMaxTempF
<1> QED
  BY <1>2, <1>3, <1>4, <1>5, <1>6, AskedModes, MideaModes
     DEF Has, Midea_asks, Midea_getTemp, kMideaACMinTempF

LEMMA TCLModes ==
  \A m \in {0, 1, 2, 3, 4} :
    LET mode == TCL_convertMode(m)
    IN  (m = kFan /\ mode = kTcl112AcFan)
          \/ (m # kFan /\ mode # kTcl112AcFan /\
              Lookup(1 :> kHeat @@ 2 :> kDry @@ 3 :> kCool @@ kTcl112AcFan :> kFan, mode,
                     kAuto) = m)
<1>1. \A m \in {0, 1, 2, 3, 4} :
        TCL_convertMode(m) =
          IF m = kCool THEN 3 ELSE IF m = kHeat THEN 1 ELSE IF m = kDry THEN 2
          ELSE IF m = kFan THEN kTcl112AcFan ELSE kTcl112AcAuto
  BY Switch4 DEF TCL_convertMode, kAuto, kHeat, kCool, kDry, kFan, kTcl112AcFan, kTcl112AcAuto
<1>2. QED
  BY <1>1, Switch4 DEF kAuto, kHeat, kCool, kDry, kFan, kTcl112AcFan, kTcl112AcAuto

LEMMA TCLAsked ==
  ASSUME NEW s, Has(s, {"Power", "Mode", "Temp", "Fan", "Half"}), s.Mode = 3, NEW r \in Asked
  PROVE  Says(TCL_asks(TCL_setparam(s, r)), Truth(r.power),
              IF r.mode = kFan THEN kCool ELSE r.mode, Clamp(r.temp, 16, 31))
<1>1. 31 - (31 - Clamp(r.temp, 16, 31)) = Clamp(r.temp, 16, 31)
  BY DEF Asked, Byte, Clamp
<1>2. Lookup(1 :> kHeat @@ 2 :> kDry @@ 3 :> kCool @@ kTcl112AcFan :> kFan, 3, kAuto) = kCool
  BY Switch4 
<1> QED
BY <1>1, <1>2, AskedModes, TCLModes
   DEF Has, Says, TCL_asks, TCL_setparam, TCL_setMode, TCL_setTemp, kTcl112AcTempMax,
       kTcl112AcTempMin

LEMMA GoodweatherAsked ==
  ASSUME NEW s, Has(s, {"Power", "Mode", "Temp", "Fan", "Command"}), NEW r \in Asked
  PROVE  Says(Goodweather_asks(Goodweather_setparam(s, r)), Truth(r.power),
              r.mode, Clamp(r.temp, 16, 31))
<1>1. Clamp(r.temp, 16, 31) - 16 + 16 = Clamp(r.temp, 16, 31)
  BY DEF Asked, Byte, Clamp
<1> QED
BY <1>1, AskedModes, GreeModes
   DEF Has, Says, Goodweather_asks, Goodweather_setparam, Goodweather_setTemp,
       kGoodweatherTempMin, kGoodweatherTempMax

LEMMA NeoclimaAsked ==
  ASSUME NEW s, Has(s, {"Power", "Mode", "Temp", "Fan", "Button", "UseFah"}), NEW r \in Asked
  PROVE  Says(Neoclima_asks(Neoclima_setparam(s, r)), Truth(r.power),
              r.mode, Clamp(r.temp, 16, 32))
<1>1. Clamp(r.temp, 16, 32) - 16 + 16 = Clamp(r.temp, 16, 32)
  BY DEF Asked, Byte, Clamp
<1>2. OneOf(GreeMode(r.mode), kGreeAuto .. kGreeHeat, kGreeAuto) = GreeMode(r.mode)
  BY AskedModes, GreeModes DEF OneOf
<1> QED
BY <1>1, <1>2, AskedModes, GreeModes
   DEF Has, Says, Neoclima_asks, Neoclima_setparam, Neoclima_setTemp, Neoclima_setFan,
       Neoclima_setMode, Neoclima_min

----------------------------------------------------------------------------
(* Argo, Airwell, Amcor, LG, Samsung, Whirlpool and Teco                   *)

LEMMA ArgoModes ==
  \A m \in {0, 1, 2, 3, 4} :
    Lookup(0 :> kCool @@ 1 :> kDry @@ 4 :> kHeat @@ kArgoHeatAuto :> kHeat,
           OneOf(Argo_convertMode(m), 0 .. kArgoHeatAuto, kArgoAuto), kAuto)
      = IF m = kFan THEN kAuto ELSE m
<1>1. \A m \in {0, 1, 2, 3, 4} : OneOf(Argo_convertMode(m), 0 .. kArgoHeatAuto, kArgoAuto) =
         IF m = kCool THEN 0 ELSE IF m = kHeat THEN 4 ELSE IF m = kDry THEN 1 ELSE 2
  BY DEF OneOf, Argo_convertMode, Lookup, :>, @@, kAuto, kHeat, kCool, kDry, kFan, kArgoAuto,
         kArgoHeatAuto
<1>2. QED
  BY <1>1, Switch4 DEF kAuto, kHeat, kCool, kDry, kFan, kArgoHeatAuto

LEMMA ArgoAsked ==
  ASSUME NEW s, Has(s, Basic), NEW r \in Asked
  PROVE  Says(Argo_asks(Argo_setparam(s, r)), Truth(r.power),
              IF r.mode = kFan THEN kAuto ELSE r.mode, Clamp(r.temp, 10, 32))
<1>1. Clamp(r.temp, 10, 32) - 4 + 4 = Clamp(r.temp, 10, 32)
  BY DEF Asked, Byte, Clamp
<1> QED
BY <1>1, AskedModes, ArgoModes
   DEF Has, Basic, Says, Argo_asks, Argo_setparam, Argo_setMode, Argo_setTemp, kArgoTempDelta,
       kArgoMinTemp, kArgoMaxTemp

LEMMA AirwellModes ==
  \A m \in {0, 1, 2, 3, 4} :
    LET mode == OneOf(Airwell_convertMode(m), 1 .. kAirwellFan, kAirwellAuto)
    IN  Lookup(1 :> kCool @@ 2 :> kHeat @@ 4 :> kDry @@ 5 :> kFan, mode, kAuto) = m
<1>1. \A m \in {0, 1, 2, 3, 4} :
        OneOf(Airwell_convertMode(m), 1 .. kAirwellFan, kAirwellAuto) =
          IF m = kCool THEN 1 ELSE IF m = kHeat THEN 2 ELSE IF m = kDry THEN 4
          ELSE IF m = kFan THEN 5 ELSE 3
  BY Switch4
     DEF OneOf, Airwell_convertMode, kAuto, kHeat, kCool, kDry, kFan, kAirwellDry, kAirwellFan,
         kAirwellAuto
<1>2. QED
  BY <1>1, Switch4 DEF kAuto, kHeat, kCool, kDry, kFan, kAirwellDry, kAirwellFan, kAirwellAuto

LEMMA AirwellAsked ==
  ASSUME NEW s, Has(s, {"PowerToggle", "Mode", "Temp", "Fan"}), NEW r \in Asked
  PROVE  Says(Airwell_asks(Airwell_setparam(s, r)), Truth(r.power), r.mode, Clamp(r.temp, 16, 30))
<1>1. Clamp(r.temp, 16, 30) - 16 + 1 + 16 - 1 = Clamp(r.temp, 16, 30)
  BY DEF Asked, Byte, Clamp
<1> QED
BY <1>1, AskedModes, AirwellModes
   DEF Has, Says, Airwell_asks, Airwell_setparam, Airwell_setMode, Airwell_setFan,
       Airwell_setTemp, kAirwellMinTemp, kAirwellMaxTemp

LEMMA AmcorModes ==
  \A m \in {0, 1, 2, 3, 4} :
    LET mode == OneOf(Amcor_convertMode(m), 1 .. kAmcorAuto, kAmcorAuto)
    IN  Lookup(1 :> kCool @@ 2 :> kHeat @@ 3 :> kFan @@ 4 :> kDry, mode, kAuto) = m
<1>1. \A m \in {0, 1, 2, 3, 4} :
        OneOf(Amcor_convertMode(m), 1 .. kAmcorAuto, kAmcorAuto) =
          IF m = kCool THEN 1 ELSE IF m = kHeat THEN 2 ELSE IF m = kDry THEN 4
          ELSE IF m = kFan THEN 3 ELSE 5
  BY Switch4
     DEF OneOf, Amcor_convertMode, kAuto, kHeat, kCool, kDry, kFan, kAmcorCool, kAmcorHeat,
         kAmcorFan, kAmcorAuto
<1>2. QED
  BY <1>1, Switch4
     DEF kAuto, kHeat, kCool, kDry, kFan, kAmcorCool, kAmcorHeat, kAmcorFan, kAmcorAuto

LEMMA AmcorAsked ==
  ASSUME NEW s, Has(s, {"Power", "Mode", "Temp", "Fan", "Vent"}), NEW r \in Asked
  PROVE  Says(Amcor_asks(Amcor_setparam(s, r)), Truth(r.power), r.mode, Clamp(r.temp, 12, 32))
<1>1. BitOf((IF Truth(r.power) = 1 THEN kAmcorPowerOn ELSE kAmcorPowerOff) = kAmcorPowerOn)
        = Truth(r.power)
  BY DEF BitOf, Truth, kAmcorPowerOn, kAmcorPowerOff
<1> QED
BY <1>1, AskedModes, AmcorModes
   DEF Has, Says, Amcor_asks, Amcor_setparam, Amcor_setPower, Amcor_setMode, Amcor_setFan,
       Amcor_setTemp, kAmcorMinTemp, kAmcorMaxTemp

LEMMA LGModes ==
  \A m \in {0, 1, 2, 3, 4} :
    LET mode == OneOf(LG_convertMode(m), 0 .. 4, kLgAcAuto)
    IN  Lookup(0 :> kCool @@ 1 :> kDry @@ 2 :> kFan @@ 4 :> kHeat, mode, kAuto) = m
<1>1. \A m \in {0, 1, 2, 3, 4} :
        OneOf(LG_convertMode(m), 0 .. 4, kLgAcAuto) =
          IF m = kCool THEN 0 ELSE IF m = kHeat THEN 4 ELSE IF m = kFan THEN 2
          ELSE IF m = kDry THEN 1 ELSE 3
  BY Switch4 DEF OneOf, LG_convertMode, kAuto, kHeat, kCool, kDry, kFan, kLgAcAuto
<1>2. QED
  BY <1>1, Switch4 DEF kAuto, kHeat, kCool, kDry, kFan, kLgAcAuto

LG_fields == {"Power", "Mode", "Fan", "Temp", "_temp"}

LEMMA LGAsked ==
  ASSUME NEW s, Has(s, LG_fields), NEW r \in Asked
  PROVE  LET got == LG_asks(LG_frame(LG_setparam(s, r)))
         IN  /\ got.power = Truth(r.power)
             /\ r.power # 0 => got.mode = r.mode /\ got.temp = Clamp(r.temp, 16, 30)
<1>1. Clamp(r.temp, 16, 30) - 15 + 15 = Clamp(r.temp, 16, 30)
  BY DEF Asked, Byte, Clamp
<1>2. kLgAcPowerOn # kLgAcPowerOff
  BY DEF kLgAcPowerOn, kLgAcPowerOff
<1> DEFINE power == IF r.power # 0 THEN kLgAcPowerOn ELSE kLgAcPowerOff
<1>3. ASSUME NEW t, Has(t, LG_fields), NEW v
      PROVE  /\ Has(LG_setTemp(t, v), LG_fields) /\ LG_setTemp(t, v).Power = t.Power
             /\ LG_setTemp(t, v).Mode = t.Mode /\ LG_setTemp(t, v).Temp = Clamp(v, 16, 30) - 15
             /\ Has(LG_setFan(t, v), LG_fields)
             /\ LG_setFan(t, v).Power = t.Power
             /\ LG_setFan(t, v).Mode = t.Mode
             /\ Has(LG_setMode(t, v), LG_fields) /\ LG_setMode(t, v).Power = t.Power
             /\ LG_setMode(t, v).Mode = OneOf(v, 0 .. 4, kLgAcAuto)
  BY <1>3
     DEF Has, LG_fields, LG_setTemp, LG_setFan, LG_setMode, kLgAcMinTemp, kLgAcMaxTemp,
         kLgAcTempAdjust
<1> DEFINE powered == LG_setPower(s, Truth(r.power))
           moded == LG_setMode(powered, LG_convertMode(r.mode))
           fanned == LG_setFan(moded, LG_convertFan(r.fan))
           sent == LG_setTemp(fanned, r.temp)
           native == OneOf(LG_convertMode(r.mode), 0 .. 4, kLgAcAuto)
<1>4. Has(powered, LG_fields) /\ powered.Power = power
  <2>1. Truth(r.power) = 1 <=> r.power # 0
    BY DEF Truth, BitOf
  <2>2. Has([s EXCEPT !.Power = kLgAcPowerOn], LG_fields)
    BY DEF Has, LG_fields
  <2>3. Has([s EXCEPT !.Power = kLgAcPowerOff, !.Temp = 0], LG_fields)
    BY DEF Has, LG_fields
  <2>4. "Power" \in DOMAIN s
    BY DEF Has, LG_fields
  <2>5. QED
    BY <1>3, <2>1, <2>2, <2>3, <2>4 DEF LG_setPower
<1>5. Has(moded, LG_fields) /\ moded.Power = power /\ moded.Mode = native
  <2> HIDE DEF powered
  <2> QED BY <1>3, <1>4
<1>6. Has(fanned, LG_fields) /\ fanned.Power = power /\ fanned.Mode = native
  <2> HIDE DEF moded
  <2> QED BY <1>3, <1>5
<1>7. sent.Power = power /\ sent.Mode = native /\ sent.Temp = Clamp(r.temp, 16, 30) - 15
  <2> HIDE DEF fanned
  <2> QED BY <1>3, <1>6
<1>8. LG_setparam(s, r) = sent
  BY DEF LG_setparam
<1> HIDE DEF sent
<1>9. CASE r.power # 0
  BY <1>1, <1>2, <1>7, <1>8, <1>9, AskedModes, LGModes
     DEF LG_frame, LG_asks, Truth, BitOf, kLgAcTempAdjust
<1>10. CASE r.power = 0
  BY <1>2, <1>7, <1>8, <1>10 DEF LG_frame, LG_asks, LG_stateReset, Truth, BitOf
<1>11. QED
  BY <1>9, <1>10

LEMMA SamsungModes ==
  \A m \in {0, 1, 2, 3, 4} :
    LET mode == OneOf(Samsung_convertMode(m), 0 .. kSamsungAcHeat, kSamsungAcAuto)
    IN  Lookup(1 :> kCool @@ 2 :> kDry @@ 3 :> kFan @@ 4 :> kHeat, mode, kAuto) = m
<1>1. \A m \in {0, 1, 2, 3, 4} :
        OneOf(Samsung_convertMode(m), 0 .. kSamsungAcHeat, kSamsungAcAuto) =
          IF m = kCool THEN 1 ELSE IF m = kHeat THEN 4 ELSE IF m = kDry THEN 2
          ELSE IF m = kFan THEN 3 ELSE 0
  BY Switch4
     DEF OneOf, Samsung_convertMode, kAuto, kHeat, kCool, kDry, kFan, kSamsungAcHeat,
         kSamsungAcAuto
<1>2. QED
  BY <1>1, Switch4 DEF kAuto, kHeat, kCool, kDry, kFan, kSamsungAcHeat, kSamsungAcAuto

Samsung_fields == {"Power1", "Power6", "Mode", "Fan", "Temp"}

LEMMA SamsungAsked ==
  ASSUME NEW s, Has(s, Samsung_fields), NEW r \in Asked
  PROVE  Says(Samsung_asks(Samsung_setparam(s, r)), Truth(r.power), r.mode, Clamp(r.temp, 16, 30))
<1>1. Clamp(r.temp, 16, 30) - 16 + 16 = Clamp(r.temp, 16, 30)
  BY DEF Asked, Byte, Clamp
<1> DEFINE on == Truth(r.power)
<1>2. ASSUME NEW t, Has(t, Samsung_fields), NEW v
      PROVE  /\ Has(Samsung_setFan(t, v), Samsung_fields)
             /\ Has(Samsung_setMode(t, v), Samsung_fields)
             /\ \A f \in {"Power1", "Power6", "Mode"} : Samsung_setFan(t, v)[f] = t[f]
             /\ \A f \in {"Power1", "Power6"} : Samsung_setMode(t, v)[f] = t[f]
             /\ Samsung_setMode(t, v).Mode = OneOf(v, 0 .. kSamsungAcHeat, kSamsungAcAuto)
  BY <1>2 DEF Has, Samsung_fields, Samsung_setFan, Samsung_setMode
<1> DEFINE powered == Samsung_setPower(s, on)
           moded == Samsung_setMode(powered, Samsung_convertMode(r.mode))
           fanned == Samsung_setFan(moded, Samsung_convertFan(r.fan))
           sent == Samsung_setTemp(fanned, r.temp)
           native == OneOf(Samsung_convertMode(r.mode), 0 .. kSamsungAcHeat, kSamsungAcAuto)
<1>3. /\ Has(powered, Samsung_fields)
      /\ powered.Power1 = 1 - on
      /\ powered.Power6 = IF on = 1 THEN 3 ELSE 0
  BY DEF Has, Samsung_fields, Samsung_setPower
<1>4. /\ Has(moded, Samsung_fields)
      /\ moded.Power1 = 1 - on
      /\ moded.Power6 = (IF on = 1 THEN 3 ELSE 0)
      /\ moded.Mode = native
  <2> HIDE DEF powered
  <2> QED BY <1>2, <1>3
<1>5. /\ Has(fanned, Samsung_fields)
      /\ fanned.Power1 = 1 - on
      /\ fanned.Power6 = (IF on = 1 THEN 3 ELSE 0)
      /\ fanned.Mode = native
  <2> HIDE DEF moded
  <2> QED BY <1>2, <1>4
<1>6. Samsung_setparam(s, r) = sent
  BY DEF Samsung_setparam
<1> HIDE DEF fanned
<1>7. /\ sent.Power1 = 1 - on /\ sent.Power6 = (IF on = 1 THEN 3 ELSE 0) /\ sent.Mode = native
      /\ sent.Temp = Clamp(r.temp, 16, 30) - 16
  BY <1>5 DEF Has, Samsung_fields, Samsung_setTemp, kSamsungAcMinTemp, kSamsungAcMaxTemp
<1> HIDE DEF sent
<1>8. Samsung_getPower(sent) = on
  BY <1>7 DEF Samsung_getPower, Truth, BitOf
<1>9. QED
  BY <1>1, <1>6, <1>7, <1>8, AskedModes, SamsungModes DEF Says, Samsung_asks, kSamsungAcMinTemp

LEMMA WhirlpoolModes ==
  \A m \in {0, 1, 2, 3, 4} :
    LET mode == Whirlpool_convertMode(m)
    IN  (m = kAuto /\ mode = kWhirlpoolAcAuto)
          \/ (m # kAuto /\ mode # kWhirlpoolAcAuto /\ mode <= kWhirlpoolAcFan /\
              Lookup(0 :> kHeat @@ 2 :> kCool @@ 3 :> kDry @@ 4 :> kFan, mode, kAuto) = m)
<1>1. \A m \in {0, 1, 2, 3, 4} :
        Whirlpool_convertMode(m) =
          IF m = kAuto THEN kWhirlpoolAcAuto ELSE IF m = kHeat THEN kWhirlpoolAcHeat
          ELSE IF m = kDry THEN 3 ELSE IF m = kFan THEN kWhirlpoolAcFan ELSE kWhirlpoolAcCool
  BY Switch4
     DEF Whirlpool_convertMode, kAuto, kHeat, kCool, kDry, kFan, kWhirlpoolAcHeat,
         kWhirlpoolAcAuto, kWhirlpoolAcFan, kWhirlpoolAcCool
<1>2. QED
  BY <1>1, Switch4
     DEF kAuto, kHeat, kCool, kDry, kFan, kWhirlpoolAcHeat, kWhirlpoolAcAuto, kWhirlpoolAcFan,
         kWhirlpoolAcCool

LEMMA WhirlpoolAsked ==
  ASSUME NEW s, Has(s, {"PowerToggle", "Sleep", "Fan", "Mode", "Temp", "Super", "Command",
                        "_desiredtemp", "AltTemp"}),
         s.AltTemp = 0, s.Mode = kWhirlpoolAcHeat, NEW r \in Asked
  PROVE  Says(Whirlpool_asks(Whirlpool_setparam(s, r)), Truth(r.power),
              IF r.mode = kAuto THEN kHeat ELSE r.mode, Clamp(r.temp, 18, 32))
<1>1. Clamp(r.temp, 18, 32) - 18 + 18 + 0 = Clamp(r.temp, 18, 32)
  BY DEF Asked, Byte, Clamp
<1> DEFINE fields == {"PowerToggle", "Sleep", "Fan", "Mode", "Temp", "Super", "Command",
                      "_desiredtemp", "AltTemp"}
           Ok(t) == Has(t, fields) /\ t.AltTemp = 0 /\ t.PowerToggle = Truth(r.power)
<1>2. ASSUME NEW t, Ok(t), NEW v
      PROVE  /\ Ok(Whirlpool_setFan(t, v)) /\ Whirlpool_setFan(t, v).Mode = t.Mode
             /\ Ok(Whirlpool_storeTemp(t, v)) /\ Whirlpool_storeTemp(t, v).Mode = t.Mode
             /\ Ok([t EXCEPT !.Command = v]) /\ [t EXCEPT !.Command = v].Mode = t.Mode
  BY <1>2 DEF Has, Whirlpool_setFan, Whirlpool_storeTemp
<1>3. ASSUME NEW t, Ok(t)
      PROVE  Ok(Whirlpool_setSleep(t, 0)) /\ Whirlpool_setSleep(t, 0).Mode = t.Mode
  BY <1>3 DEF Has, Whirlpool_setSleep
<1> DEFINE native(m) == IF m = kWhirlpoolAcAuto THEN kWhirlpoolAcHeat ELSE m
<1>4. ASSUME NEW t, Ok(t), t.Mode = kWhirlpoolAcHeat, NEW m, m = kWhirlpoolAcAuto
               \/ m <= kWhirlpoolAcFan
      PROVE  Ok(Whirlpool_setMode(t, m)) /\ Whirlpool_setMode(t, m).Mode = native(m)
  <2> DEFINE plain == [t EXCEPT !.Super = 0, !.Command = kWhirlpoolAcCommandSuper]
             cool23 == Whirlpool_storeTemp(Whirlpool_setFan(plain, kWhirlpoolAcFanAuto),
                                           kWhirlpoolAcAutoTemp)
             eased == Whirlpool_setSleep(cool23, 0)
  <2>1. Ok(plain) /\ plain.Mode = kWhirlpoolAcHeat
    BY <1>4 DEF Has
  <2>2. CASE m = kWhirlpoolAcAuto
    <3>1. Ok(cool23) /\ cool23.Mode = kWhirlpoolAcHeat
      <4> DEFINE blown == Whirlpool_setFan(plain, kWhirlpoolAcFanAuto)
      <4>1. Ok(blown) /\ blown.Mode = kWhirlpoolAcHeat
        <5> HIDE DEF plain, Ok
        <5> QED BY <1>2, <2>1
      <4>2. QED
        <5> HIDE DEF blown, Ok
        <5>1. Ok(Whirlpool_storeTemp(blown, kWhirlpoolAcAutoTemp))
              /\ Whirlpool_storeTemp(blown, kWhirlpoolAcAutoTemp).Mode = kWhirlpoolAcHeat
          BY <1>2, <4>1
        <5>2. QED
          BY <5>1 DEF blown
    <3>2. Ok(eased) /\ eased.Mode = kWhirlpoolAcHeat
      <4> HIDE DEF cool23, Ok
      <4> QED BY <1>3, <3>1
    <3> DEFINE Eased(u) == Ok(u) /\ u.Mode = kWhirlpoolAcHeat
    <3>3. Eased([eased EXCEPT !.Command = kWhirlpoolAcCommand6thSense])
      <4> HIDE DEF eased, Ok
      <4> QED BY <1>2, <3>2
    <3>4. Eased(Whirlpool_setMode(t, m))
      <4> HIDE DEF Eased, Ok
      <4> QED BY <2>2, <3>3, Zenon DEF Whirlpool_setMode, eased, cool23, plain
    <3>5. QED
      BY <2>2, <3>4
  <2>3. CASE m # kWhirlpoolAcAuto
    <3>1. Whirlpool_setMode(t, m) = [plain EXCEPT !.Mode = m, !.Command = kWhirlpoolAcCommandMode]
      BY <1>4, <2>3 DEF Whirlpool_setMode
    <3>2. QED
      BY <2>1, <2>3, <3>1 DEF Has
  <2>4. QED
    BY <2>2, <2>3
<1> DEFINE powered == Whirlpool_setPowerToggle(s, Truth(r.power))
           moded == Whirlpool_setMode(powered, Whirlpool_convertMode(r.mode))
           fanned == Whirlpool_setFan(moded, Whirlpool_convertFan(r.fan))
           sent == Whirlpool_setTemp(fanned, r.temp)
<1>5. Ok(powered) /\ powered.Mode = kWhirlpoolAcHeat
  BY DEF Has, Whirlpool_setPowerToggle
<1>6. Ok(moded) /\ moded.Mode = native(Whirlpool_convertMode(r.mode))
  <2> HIDE DEF powered, Ok
  <2>1. Whirlpool_convertMode(r.mode) = kWhirlpoolAcAuto
          \/ Whirlpool_convertMode(r.mode) <= kWhirlpoolAcFan
    BY AskedModes, WhirlpoolModes
  <2> QED BY <1>4, <1>5, <2>1
<1>7. Ok(fanned) /\ fanned.Mode = native(Whirlpool_convertMode(r.mode))
  <2> HIDE DEF moded, Ok
  <2> QED BY <1>2, <1>6
<1>8. Whirlpool_setparam(s, r) = sent
  BY DEF Whirlpool_setparam
<1> HIDE DEF fanned
<1>9. /\ sent.PowerToggle = Truth(r.power) /\ sent.AltTemp = 0
      /\ sent.Mode = native(Whirlpool_convertMode(r.mode))
      /\ sent.Temp = Clamp(r.temp, 18, 32) - 18
  BY <1>7
     DEF Has, Whirlpool_setTemp, Whirlpool_keepTemp, Whirlpool_storeTemp, Whirlpool_getTempOffset,
         kWhirlpoolAcMinTemp, kWhirlpoolAcMaxTemp
<1> HIDE DEF sent
<1>10. Lookup(0 :> kHeat @@ 2 :> kCool @@ 3 :> kDry @@ 4 :> kFan,
              native(Whirlpool_convertMode(r.mode)), kAuto)
         = IF r.mode = kAuto THEN kHeat ELSE r.mode
  <2>1. Lookup(0 :> kHeat @@ 2 :> kCool @@ 3 :> kDry @@ 4 :> kFan, kWhirlpoolAcHeat, kAuto)
          = kHeat
    BY Switch4 DEF kWhirlpoolAcHeat
  <2>2. QED
    BY <2>1, AskedModes, WhirlpoolModes
<1>11. QED
  BY <1>1, <1>8, <1>9, <1>10
     DEF Says, Whirlpool_asks, Whirlpool_getTempOffset, kWhirlpoolAcMinTemp

LEMMA TecoModes ==
  \A m \in {0, 1, 2, 3, 4} :
    LET mode == OneOf(Teco_convertMode(m), 0 .. kTecoHeat, 0)
    IN  Lookup(1 :> kCool @@ 2 :> kDry @@ 3 :> kFan @@ kTecoHeat :> kHeat, mode, kAuto) = m
<1>1. \A m \in {0, 1, 2, 3, 4} :
        OneOf(Teco_convertMode(m), 0 .. kTecoHeat, 0) =
          IF m = kCool THEN 1 ELSE IF m = kHeat THEN 4 ELSE IF m = kDry THEN 2
          ELSE IF m = kFan THEN 3 ELSE 0
  BY Switch4 DEF OneOf, Teco_convertMode, kAuto, kHeat, kCool, kDry, kFan, kTecoHeat
<1>2. QED
  BY <1>1, Switch4 DEF kAuto, kHeat, kCool, kDry, kFan, kTecoHeat

LEMMA TecoAsked ==
  ASSUME NEW s, Has(s, Basic), NEW r \in Asked
  PROVE  Says(Teco_asks(Teco_setparam(s, r)), Truth(r.power), r.mode, Clamp(r.temp, 16, 30))
<1>1. Clamp(r.temp, 16, 30) - 16 + 16 = Clamp(r.temp, 16, 30)
  BY DEF Asked, Byte, Clamp
<1> QED
BY <1>1, AskedModes, TecoModes
   DEF Has, Basic, Says, Teco_asks, Teco_setparam, Teco_setMode, Teco_setFan, Teco_setTemp,
       kTecoMinTemp, kTecoMaxTemp

----------------------------------------------------------------------------
(* The classes together: SendHAVC makes the object, and setparam follows.  *)

\* What a unit makes of the frame of an object that only setparam was called on.
Told(p, s, r) == Asks(p, OnAir(p, SetParam(p, s, r)))

\* Every message that finds the object as its constructor left it is answered, but for
\* those the class alters.
ClassAnswers(p) ==
  \A s \in Fresh[p], r \in Asked : ~ Altered(p, r) => Answers(p, Told(p, s, r), r)

LEMMA ESPAnswers == ClassAnswers("ESP")
<1> SUFFICES ASSUME NEW s \in Fresh["ESP"], NEW r \in Asked, ~ Altered("ESP", r)
             PROVE  Answers("ESP", Told("ESP", s, r), r)
  BY DEF ClassAnswers
<1>1. Has(s, Basic)
  BY DEF Fresh, ESP_stateReset, Has, Basic
<1>2. Told("ESP", s, r) = ESP_asks(ESP_setparam(s, r))
  BY DEF Told, Asks, OnAir, SetParam
<1>3. QED
  BY <1>1, <1>2, ESPAsked DEF Answers, Limits, OwnTemp, Altered, OneOffFrame, Says

LEMMA Daikin2Answers == ClassAnswers("Daikin2")
<1> SUFFICES ASSUME NEW s \in Fresh["Daikin2"], NEW r \in Asked, ~ Altered("Daikin2", r)
             PROVE  Answers("Daikin2", Told("Daikin2", s, r), r)
  BY DEF ClassAnswers
<1>1. Has(s, {"Power", "Power2", "Mode", "Fan", "Temp"})
  BY DEF Fresh, Daikin2_stateReset, Daikin2_bits, Has
<1>2. Told("Daikin2", s, r) = Daikin2_asks(Daikin2_setparam(s, r))
  BY DEF Told, Asks, OnAir, SetParam
<1>3. QED
  BY <1>1, <1>2, Daikin2Asked DEF Answers, Limits, OwnTemp, Altered, OneOffFrame, Says

LEMMA Daikin64Answers == ClassAnswers("Daikin64")
<1> SUFFICES ASSUME NEW s \in Fresh["Daikin64"], NEW r \in Asked, ~ Altered("Daikin64", r)
             PROVE  Answers("Daikin64", Told("Daikin64", s, r), r)
  BY DEF ClassAnswers
<1>1. Has(s, Basic)
  BY DEF Fresh, Daikin64_stateReset, Has, Basic
<1>2. Told("Daikin64", s, r) = Daikin64_asks(Daikin64_setparam(s, r))
  BY DEF Told, Asks, OnAir, SetParam
<1>3. QED
  BY <1>1, <1>2, Daikin64Asked DEF Answers, Limits, OwnTemp, Altered, OneOffFrame, Says

LEMMA Daikin128Answers == ClassAnswers("Daikin128")
<1> SUFFICES ASSUME NEW s \in Fresh["Daikin128"], NEW r \in Asked, ~ Altered("Daikin128", r)
             PROVE  Answers("Daikin128", Told("Daikin128", s, r), r)
  BY DEF ClassAnswers
<1>1. Has(s, {"Power", "Mode", "Fan", "Temp", "Econo"})
  BY DEF Fresh, Daikin128_stateReset, Daikin128_bits, Has
<1>2. Told("Daikin128", s, r) = Daikin128_asks(Daikin128_setparam(s, r))
  BY DEF Told, Asks, OnAir, SetParam
<1>3. QED
  BY <1>1, <1>2, Daikin128Asked DEF Answers, Limits, OwnTemp, Altered, OneOffFrame, Says

LEMMA Daikin152Answers == ClassAnswers("Daikin152")
<1> SUFFICES ASSUME NEW s \in Fresh["Daikin152"], NEW r \in Asked, ~ Altered("Daikin152", r)
             PROVE  Answers("Daikin152", Told("Daikin152", s, r), r)
  BY DEF ClassAnswers
<1>1. Has(s, Basic)
  BY DEF Fresh, Daikin152_stateReset, Daikin152_bits, Has, Basic
<1>2. Told("Daikin152", s, r) = Daikin152_asks(Daikin152_setparam(s, r))
  BY DEF Told, Asks, OnAir, SetParam
<1>3. QED
  BY <1>1, <1>2, Daikin152Asked
     DEF Answers, Limits, OwnTemp, Altered, OneOffFrame, Says, kDaikin152FanTemp

LEMMA Daikin160Answers == ClassAnswers("Daikin160")
<1> SUFFICES ASSUME NEW s \in Fresh["Daikin160"], NEW r \in Asked, ~ Altered("Daikin160", r)
             PROVE  Answers("Daikin160", Told("Daikin160", s, r), r)
  BY DEF ClassAnswers
<1>1. Has(s, Basic)
  BY DEF Fresh, Daikin160_stateReset, Has, Basic
<1>2. Told("Daikin160", s, r) = Daikin160_asks(Daikin160_setparam(s, r))
  BY DEF Told, Asks, OnAir, SetParam
<1>3. QED
  BY <1>1, <1>2, Daikin160Asked DEF Answers, Limits, OwnTemp, Altered, OneOffFrame, Says

LEMMA Daikin176Answers == ClassAnswers("Daikin176")
<1> SUFFICES ASSUME NEW s \in Fresh["Daikin176"], NEW r \in Asked, ~ Altered("Daikin176", r)
             PROVE  Answers("Daikin176", Told("Daikin176", s, r), r)
  BY DEF ClassAnswers
<1>1. Has(s, {"Power", "Mode", "Fan", "Temp", "ModeButton", "AltMode", "_saved_temp"})
  BY DEF Fresh, Daikin176_stateReset, Has
<1>2. Told("Daikin176", s, r) = Daikin176_asks(Daikin176_setparam(s, r))
  BY DEF Told, Asks, OnAir, SetParam
<1>3. QED
  BY <1>1, <1>2, Daikin176Asked DEF Answers, Limits, OwnTemp, Altered, OneOffFrame, Says

LEMMA Daikin216Answers == ClassAnswers("Daikin216")
<1> SUFFICES ASSUME NEW s \in Fresh["Daikin216"], NEW r \in Asked, ~ Altered("Daikin216", r)
             PROVE  Answers("Daikin216", Told("Daikin216", s, r), r)
  BY DEF ClassAnswers
<1>1. Has(s, Basic)
  BY DEF Fresh, Daikin216_stateReset, Daikin216_bits, Has, Basic
<1>2. Told("Daikin216", s, r) = Daikin216_asks(Daikin216_setparam(s, r))
  BY DEF Told, Asks, OnAir, SetParam
<1>3. QED
  BY <1>1, <1>2, Daikin216Asked DEF Answers, Limits, OwnTemp, Altered, OneOffFrame, Says

LEMMA Hitachi1Answers == ClassAnswers("Hitachi1")
<1> SUFFICES ASSUME NEW s \in Fresh["Hitachi1"], NEW r \in Asked, ~ Altered("Hitachi1", r)
             PROVE  Answers("Hitachi1", Told("Hitachi1", s, r), r)
  BY DEF ClassAnswers
<1>1. Has(s, Hitachi1_fields) /\ s.Mode = kHitachiAc1Auto /\ s.Temp = 9
  BY DEF Fresh, Hitachi1_fields, Hitachi1_stateReset, Has
<1>2. Told("Hitachi1", s, r) = Hitachi1_asks(Hitachi1_setparam(s, r))
  BY DEF Told, Asks, OnAir, SetParam
<1>3. QED
  BY <1>1, <1>2, Hitachi1Asked DEF Answers, Limits, OwnTemp, Altered, OneOffFrame, Says

LEMMA MitsubishiACAnswers == ClassAnswers("MitsubishiAC")
<1> SUFFICES ASSUME NEW s \in Fresh["MitsubishiAC"], NEW r \in Asked, ~ Altered("MitsubishiAC", r)
             PROVE  Answers("MitsubishiAC", Told("MitsubishiAC", s, r), r)
  BY DEF ClassAnswers
<1>1. Has(s, {"Power", "Mode", "Fan", "Temp", "mode8", "WideVane", "FanAuto"})
  BY DEF Fresh, MitsubishiAC_stateReset, Has
<1>2. Told("MitsubishiAC", s, r) = MitsubishiAC_asks(MitsubishiAC_setparam(s, r))
  BY DEF Told, Asks, OnAir, SetParam
<1>3. QED
  BY <1>1, <1>2, MitsubishiACAsked DEF Answers, Limits, OwnTemp, Altered, OneOffFrame, Says

LEMMA Mitsubishi112Answers == ClassAnswers("Mitsubishi112")
<1> SUFFICES ASSUME NEW s \in Fresh["Mitsubishi112"], NEW r \in Asked, ~ Altered("Mitsubishi112", r)
             PROVE  Answers("Mitsubishi112", Told("Mitsubishi112", s, r), r)
  BY DEF ClassAnswers
<1>1. Has(s, Basic)
  BY DEF Fresh, Mitsubishi112_stateReset, Has, Basic
<1>2. Told("Mitsubishi112", s, r) = Mitsubishi112_asks(Mitsubishi112_setparam(s, r))
  BY DEF Told, Asks, OnAir, SetParam
<1>3. QED
  BY <1>1, <1>2, Mitsubishi112Asked DEF Answers, Limits, OwnTemp, Altered, OneOffFrame, Says

LEMMA Mitsubishi136Answers == ClassAnswers("Mitsubishi136")
<1> SUFFICES ASSUME NEW s \in Fresh["Mitsubishi136"], NEW r \in Asked, ~ Altered("Mitsubishi136", r)
             PROVE  Answers("Mitsubishi136", Told("Mitsubishi136", s, r), r)
  BY DEF ClassAnswers
<1>1. Has(s, Basic)
  BY DEF Fresh, Mitsubishi136_stateReset, Has, Basic
<1>2. Told("Mitsubishi136", s, r) = Mitsubishi136_asks(Mitsubishi136_setparam(s, r))
  BY DEF Told, Asks, OnAir, SetParam
<1>3. QED
  BY <1>1, <1>2, Mitsubishi136Asked DEF Answers, Limits, OwnTemp, Altered, OneOffFrame, Says

LEMMA Heavy88Answers == ClassAnswers("Heavy88")
<1> SUFFICES ASSUME NEW s \in Fresh["Heavy88"], NEW r \in Asked, ~ Altered("Heavy88", r)
             PROVE  Answers("Heavy88", Told("Heavy88", s, r), r)
  BY DEF ClassAnswers
<1>1. Has(s, Basic)
  BY DEF Fresh, Heavy88_stateReset, Heavy88_bits, Has, Basic
<1>2. Told("Heavy88", s, r) = Heavy88_asks(Heavy88_setparam(s, r))
  BY DEF Told, Asks, OnAir, SetParam
<1>3. QED
  BY <1>1, <1>2, HeavyAsked DEF Answers, Limits, OwnTemp, Altered, OneOffFrame, Says

LEMMA Heavy152Answers == ClassAnswers("Heavy152")
<1> SUFFICES ASSUME NEW s \in Fresh["Heavy152"], NEW r \in Asked, ~ Altered("Heavy152", r)
             PROVE  Answers("Heavy152", Told("Heavy152", s, r), r)
  BY DEF ClassAnswers
<1>1. Has(s, Basic)
  BY DEF Fresh, Heavy152_stateReset, Heavy152_bits, Has, Basic
<1>2. Told("Heavy152", s, r) = Heavy152_asks(Heavy152_setparam(s, r))
  BY DEF Told, Asks, OnAir, SetParam
<1>3. QED
  BY <1>1, <1>2, HeavyAsked DEF Answers, Limits, OwnTemp, Altered, OneOffFrame, Says

LEMMA FujitsuAnswers == ClassAnswers("Fujitsu")
<1> SUFFICES ASSUME NEW s \in Fresh["Fujitsu"], NEW r \in Asked, ~ Altered("Fujitsu", r)
             PROVE  Answers("Fujitsu", Told("Fujitsu", s, r), r)
  BY DEF ClassAnswers
<1>1. Has(s, Fujitsu_fields)
  BY DEF Fresh, Fujitsu_fields, Fujitsu_stateReset, Has
<1>2. Told("Fujitsu", s, r) = Fujitsu_asks(Fujitsu_setparam(s, r))
  BY DEF Told, Asks, OnAir, SetParam
<1>3. r.power # 0
  BY DEF Altered
<1>4. Truth(r.power) = 1
  BY <1>3 DEF Truth, BitOf
<1>5. QED
  BY <1>1, <1>2, <1>4, FujitsuAsked DEF Answers, Limits, OwnTemp, OneOffFrame, Says

LEMMA PanasonicAnswers == ClassAnswers("Panasonic")
<1> SUFFICES ASSUME NEW s \in Fresh["Panasonic"], NEW r \in Asked, ~ Altered("Panasonic", r)
             PROVE  Answers("Panasonic", Told("Panasonic", s, r), r)
  BY DEF ClassAnswers
<1>1. Has(s, {"Power", "Mode", "Temp", "_temp", "Fan"})
  BY DEF Fresh, Panasonic_stateReset, Has
<1>2. Told("Panasonic", s, r) = Panasonic_asks(Panasonic_setparam(s, r))
  BY DEF Told, Asks, OnAir, SetParam
<1>3. QED
  BY <1>1, <1>2, PanasonicAsked DEF Answers, Limits, OwnTemp, Altered, OneOffFrame, Says

LEMMA SharpAnswers == ClassAnswers("Sharp")
<1> SUFFICES ASSUME NEW s \in Fresh["Sharp"], NEW r \in Asked, ~ Altered("Sharp", r)
             PROVE  Answers("Sharp", Told("Sharp", s, r), r)
  BY DEF ClassAnswers
<1>1. /\ Has(s, {"Temp", "PowerSpecial", "Mode", "Clean", "Fan", "Special", "_temp", "_mode",
                 "_fan", "_model"})
      /\ s.Mode = kSharpAcAuto
      /\ s.Clean = 0
      /\ s._model = A907
  BY DEF Fresh, Sharp_stateReset, kSharpAcAuto, Has
<1>2. Told("Sharp", s, r) = Sharp_asks(Sharp_setparam(s, r))
  BY DEF Told, Asks, OnAir, SetParam
<1>3. QED
  BY <1>1, <1>2, SharpAsked, AskedModes
     DEF Answers, Limits, OwnTemp, Altered, OneOffFrame, Says, kAuto, kCool, kHeat, kDry, kFan

LEMMA SanyoAnswers == ClassAnswers("Sanyo")
<1> SUFFICES ASSUME NEW s \in Fresh["Sanyo"], NEW r \in Asked, ~ Altered("Sanyo", r)
             PROVE  Answers("Sanyo", Told("Sanyo", s, r), r)
  BY DEF ClassAnswers
<1>1. Has(s, Basic)
  BY DEF Fresh, Sanyo_stateReset, Has, Basic
<1>2. Told("Sanyo", s, r) = Sanyo_asks(Sanyo_setparam(s, r))
  BY DEF Told, Asks, OnAir, SetParam
<1>3. QED
  BY <1>1, <1>2, SanyoAsked DEF Answers, Limits, OwnTemp, Altered, OneOffFrame, Says

LEMMA ToshibaAnswers == ClassAnswers("Toshiba")
<1> SUFFICES ASSUME NEW s \in Fresh["Toshiba"], NEW r \in Asked, ~ Altered("Toshiba", r)
             PROVE  Answers("Toshiba", Told("Toshiba", s, r), r)
  BY DEF ClassAnswers
<1>1. Has(s, {"length", "Temp", "Fan", "Mode", "prev_mode"})
  BY DEF Fresh, Toshiba_stateReset, Has
<1>2. Told("Toshiba", s, r) = Toshiba_asks(Toshiba_setparam(s, r))
  BY DEF Told, Asks, OnAir, SetParam
<1>3. r.power # 0
  BY DEF Altered
<1>4. Truth(r.power) = 1
  BY <1>3 DEF Truth, BitOf
<1>5. QED
  BY <1>1, <1>2, <1>4, ToshibaAsked DEF Answers, Limits, OwnTemp, OneOffFrame, Says

LEMMA GreeAnswers == ClassAnswers("Gree")
<1> SUFFICES ASSUME NEW s \in Fresh["Gree"], NEW r \in Asked, ~ Altered("Gree", r)
             PROVE  Answers("Gree", Told("Gree", s, r), r)
  BY DEF ClassAnswers
<1>1. Has(s, {"Mode", "Power", "Fan", "Temp", "ModelA", "UseFahrenheit", "TempExtraDegreeF",
              "_model"})
  BY DEF Fresh, Gree_stateReset, Gree_bits, Has
<1>2. Told("Gree", s, r) = Gree_asks(Gree_getRaw(Gree_setparam(s, r)))
  BY DEF Told, Asks, OnAir, SetParam
<1>3. QED
  BY <1>1, <1>2, GreeAsked DEF Answers, Limits, OwnTemp, Altered, OneOffFrame, Says

LEMMA KelvinatorAnswers == ClassAnswers("Kelvinator")
<1> SUFFICES ASSUME NEW s \in Fresh["Kelvinator"], NEW r \in Asked, ~ Altered("Kelvinator", r)
             PROVE  Answers("Kelvinator", Told("Kelvinator", s, r), r)
  BY DEF ClassAnswers
<1> DEFINE fields == {"Mode", "Power", "Fan", "BasicFan", "Turbo", "Temp", "XFan"}
<1>1. Has(s, fields) /\ s.Mode \in {0, 7}
  <2>1. \/ s = Kelvinator_stateReset
        \/ s = [f \in DOMAIN Kelvinator_bits |-> 2 ^ Kelvinator_bits[f] - 1]
    BY DEF Fresh, Kelvinator_fresh
  <2>2. fields \subseteq DOMAIN Kelvinator_bits /\ Kelvinator_bits.Mode = 3
    BY DEF Kelvinator_bits
  <2>3. 2 ^ 3 - 1 = 7
    OBVIOUS
  <2>4. QED
    BY <2>1, <2>2, <2>3 DEF Has, Kelvinator_stateReset
<1>2. Told("Kelvinator", s, r) = Kelvinator_asks(Kelvinator_getRaw(Kelvinator_setparam(s, r)))
  BY DEF Told, Asks, OnAir, SetParam
<1>3. QED
  BY <1>1, <1>2, KelvinatorAsked DEF Answers, Limits, OwnTemp, Altered, OneOffFrame, Says

LEMMA MideaAnswers == ClassAnswers("Midea")
<1> SUFFICES ASSUME NEW s \in Fresh["Midea"], NEW r \in Asked, ~ Altered("Midea", r)
             PROVE  Answers("Midea", Told("Midea", s, r), r)
  BY DEF ClassAnswers
<1>1. Has(s, {"Power", "Mode", "Temp", "Fan", "useFahrenheit"}) /\ s.useFahrenheit = 1
  BY DEF Fresh, Midea_stateReset, Has
<1>2. Told("Midea", s, r) = Midea_asks(Midea_setparam(s, r))
  BY DEF Told, Asks, OnAir, SetParam
<1>3. QED
  BY <1>1, <1>2, MideaAsked DEF Answers, Limits, OwnTemp, Altered, OneOffFrame, Says

LEMMA TCLAnswers == ClassAnswers("TCL")
<1> SUFFICES ASSUME NEW s \in Fresh["TCL"], NEW r \in Asked, ~ Altered("TCL", r)
             PROVE  Answers("TCL", Told("TCL", s, r), r)
  BY DEF ClassAnswers
<1>1. Has(s, {"Power", "Mode", "Temp", "Fan", "Half"}) /\ s.Mode = 3
  BY DEF Fresh, TCL_stateReset, Has
<1>2. Told("TCL", s, r) = TCL_asks(TCL_setparam(s, r))
  BY DEF Told, Asks, OnAir, SetParam
<1>3. QED
  BY <1>1, <1>2, TCLAsked DEF Answers, Limits, OwnTemp, Altered, OneOffFrame, Says

LEMMA GoodweatherAnswers == ClassAnswers("Goodweather")
<1> SUFFICES ASSUME NEW s \in Fresh["Goodweather"], NEW r \in Asked, ~ Altered("Goodweather", r)
             PROVE  Answers("Goodweather", Told("Goodweather", s, r), r)
  BY DEF ClassAnswers
<1>1. Has(s, {"Power", "Mode", "Temp", "Fan", "Command"})
  BY DEF Fresh, Goodweather_stateReset, Goodweather_bits, Has
<1>2. Told("Goodweather", s, r) = Goodweather_asks(Goodweather_setparam(s, r))
  BY DEF Told, Asks, OnAir, SetParam
<1>3. QED
  BY <1>1, <1>2, GoodweatherAsked DEF Answers, Limits, OwnTemp, Altered, OneOffFrame, Says

LEMMA NeoclimaAnswers == ClassAnswers("Neoclima")
<1> SUFFICES ASSUME NEW s \in Fresh["Neoclima"], NEW r \in Asked, ~ Altered("Neoclima", r)
             PROVE  Answers("Neoclima", Told("Neoclima", s, r), r)
  BY DEF ClassAnswers
<1>1. Has(s, {"Power", "Mode", "Temp", "Fan", "Button", "UseFah"})
  BY DEF Fresh, Neoclima_stateReset, Neoclima_bits, Has
<1>2. Told("Neoclima", s, r) = Neoclima_asks(Neoclima_setparam(s, r))
  BY DEF Told, Asks, OnAir, SetParam
<1>3. QED
  BY <1>1, <1>2, NeoclimaAsked DEF Answers, Limits, OwnTemp, Altered, OneOffFrame, Says

LEMMA ArgoAnswers == ClassAnswers("Argo")
<1> SUFFICES ASSUME NEW s \in Fresh["Argo"], NEW r \in Asked, ~ Altered("Argo", r)
             PROVE  Answers("Argo", Told("Argo", s, r), r)
  BY DEF ClassAnswers
<1>1. Has(s, Basic)
  <2>1. Basic \subseteq DOMAIN Argo_bits
    BY DEF Basic, Argo_bits
  <2>2. PICK v : s = Argo_setRoomTemp(Argo_setTemp(
                       [[f \in DOMAIN Argo_bits |-> 0] EXCEPT !.Mode = kArgoAuto,
                                                              !.flap_mode = v], 20), 25)
    BY DEF Fresh, Argo_fresh
  <2>3. QED
    BY <2>1, <2>2 DEF Has, Argo_setTemp, Argo_setRoomTemp
<1>2. Told("Argo", s, r) = Argo_asks(Argo_setparam(s, r))
  BY DEF Told, Asks, OnAir, SetParam
<1>3. QED
  BY <1>1, <1>2, ArgoAsked DEF Answers, Limits, OwnTemp, Altered, OneOffFrame, Says

LEMMA AirwellAnswers == ClassAnswers("Airwell")
<1> SUFFICES ASSUME NEW s \in Fresh["Airwell"], NEW r \in Asked, ~ Altered("Airwell", r)
             PROVE  Answers("Airwell", Told("Airwell", s, r), r)
  BY DEF ClassAnswers
<1>1. Has(s, {"PowerToggle", "Mode", "Temp", "Fan"})
  BY DEF Fresh, Airwell_stateReset, Has
<1>2. Told("Airwell", s, r) = Airwell_asks(Airwell_setparam(s, r))
  BY DEF Told, Asks, OnAir, SetParam
<1>3. QED
  BY <1>1, <1>2, AirwellAsked DEF Answers, Limits, OwnTemp, Altered, OneOffFrame, Says

LEMMA AmcorAnswers == ClassAnswers("Amcor")
<1> SUFFICES ASSUME NEW s \in Fresh["Amcor"], NEW r \in Asked, ~ Altered("Amcor", r)
             PROVE  Answers("Amcor", Told("Amcor", s, r), r)
  BY DEF ClassAnswers
<1>1. Has(s, {"Power", "Mode", "Temp", "Fan", "Vent"})
  BY DEF Fresh, Amcor_stateReset, Has
<1>2. Told("Amcor", s, r) = Amcor_asks(Amcor_setparam(s, r))
  BY DEF Told, Asks, OnAir, SetParam
<1>3. QED
  BY <1>1, <1>2, AmcorAsked DEF Answers, Limits, OwnTemp, Altered, OneOffFrame, Says

LEMMA LGAnswers == ClassAnswers("LG")
<1> SUFFICES ASSUME NEW s \in Fresh["LG"], NEW r \in Asked, ~ Altered("LG", r)
             PROVE  Answers("LG", Told("LG", s, r), r)
  BY DEF ClassAnswers
<1>1. Has(s, LG_fields)
  BY DEF Fresh, LG_fields, LG_stateReset, Has
<1>2. Told("LG", s, r) = LG_asks(LG_frame(LG_setparam(s, r)))
  BY DEF Told, Asks, OnAir, SetParam
<1>3. QED
  BY <1>1, <1>2, LGAsked DEF Answers, Limits, OwnTemp, Altered, OneOffFrame, Says

LEMMA SamsungAnswers == ClassAnswers("Samsung")
<1> SUFFICES ASSUME NEW s \in Fresh["Samsung"], NEW r \in Asked, ~ Altered("Samsung", r)
             PROVE  Answers("Samsung", Told("Samsung", s, r), r)
  BY DEF ClassAnswers
<1>1. Has(s, Samsung_fields)
  BY DEF Fresh, Samsung_fields, Samsung_stateReset, Has
<1>2. Told("Samsung", s, r) = Samsung_asks(Samsung_setparam(s, r))
  BY DEF Told, Asks, OnAir, SetParam
<1>3. QED
  BY <1>1, <1>2, SamsungAsked DEF Answers, Limits, OwnTemp, Altered, OneOffFrame, Says

LEMMA WhirlpoolAnswers == ClassAnswers("Whirlpool")
<1> SUFFICES ASSUME NEW s \in Fresh["Whirlpool"], NEW r \in Asked, ~ Altered("Whirlpool", r)
             PROVE  Answers("Whirlpool", Told("Whirlpool", s, r), r)
  BY DEF ClassAnswers
<1> DEFINE fields == {"PowerToggle", "Sleep", "Fan", "Mode", "Temp", "Super", "Command",
                     "_desiredtemp", "AltTemp"}
           zeros == [f \in DOMAIN Whirlpool_bits |-> 0]
<1>1. Has(s, fields) /\ s.AltTemp = 0 /\ s.Mode = kWhirlpoolAcHeat
  <2>1. Has(zeros, fields) /\ zeros.AltTemp = 0 /\ zeros.Mode = 0
    BY DEF Has, Whirlpool_bits
  <2>2. s = Whirlpool_keepTemp(zeros, kWhirlpoolAcAutoTemp)
    BY DEF Fresh, Whirlpool_stateReset
  <2> HIDE DEF zeros
  <2>3. QED
    BY <2>1, <2>2 DEF Has, Whirlpool_keepTemp, Whirlpool_storeTemp, kWhirlpoolAcHeat
<1>2. Told("Whirlpool", s, r) = Whirlpool_asks(Whirlpool_setparam(s, r))
  BY DEF Told, Asks, OnAir, SetParam
<1>3. QED
  BY <1>1, <1>2, WhirlpoolAsked DEF Answers, Limits, OwnTemp, Altered, OneOffFrame, Says

LEMMA TecoAnswers == ClassAnswers("Teco")
<1> SUFFICES ASSUME NEW s \in Fresh["Teco"], NEW r \in Asked, ~ Altered("Teco", r)
             PROVE  Answers("Teco", Told("Teco", s, r), r)
  BY DEF ClassAnswers
<1>1. Has(s, Basic)
  BY DEF Fresh, Teco_stateReset, Teco_bits, Has, Basic
<1>2. Told("Teco", s, r) = Teco_asks(Teco_setparam(s, r))
  BY DEF Told, Asks, OnAir, SetParam
<1>3. QED
  BY <1>1, <1>2, TecoAsked DEF Answers, Limits, OwnTemp, Altered, OneOffFrame, Says

LEMMA EveryClassAnswers == ASSUME NEW p \in Answering PROVE ClassAnswers(p)
BY ESPAnswers, Daikin2Answers, Daikin64Answers, Daikin128Answers, Daikin152Answers,
   Daikin160Answers, Daikin176Answers, Daikin216Answers, Hitachi1Answers, MitsubishiACAnswers,
   Mitsubishi112Answers, Mitsubishi136Answers, Heavy88Answers, Heavy152Answers, FujitsuAnswers,
   PanasonicAnswers, SharpAnswers, SanyoAnswers, ToshibaAnswers, GreeAnswers,
   KelvinatorAnswers, MideaAnswers, TCLAnswers, GoodweatherAnswers, NeoclimaAnswers,
   ArgoAnswers, AirwellAnswers, AmcorAnswers, LGAnswers, SamsungAnswers, WhirlpoolAnswers,
   TecoAnswers
   DEF Answering, Bits

----------------------------------------------------------------------------
(* From one message to the next.                                           *)

\* What an object that no other setter was called on went through so far.
AskedInv ==
  /\ irAcValue \in [power : Byte, mode : Byte, fan : Byte, temp : Byte]
  /\ options \in Nat
  /\ stage \in {"made", "set"} => protocol \in DOMAIN Bits
  /\ stage = "made" /\ options = 0 => remote \in Fresh[protocol]
  /\ stage = "set" /\ options = 0 =>
       \E s \in Fresh[protocol] : remote = SetParam(protocol, s, irAcValue)
  /\ stage = "sent" /\ options = 0 /\ protocol \in DOMAIN Bits =>
       \E s \in Fresh[protocol] : frame.state = OnAir(protocol, SetParam(protocol, s, irAcValue))

LEMMA NotAsked == "none" \notin DOMAIN Bits /\ (Constants \union Silent) \cap DOMAIN Bits = {}
BY DEF Bits, Constants, Silent

LEMMA AskedInit == Init => AskedInv
BY NotAsked DEF Init, AskedInv, Byte

LEMMA AskedNext == AskedInv /\ [Next]_vars => AskedInv'
<1> SUFFICES ASSUME AskedInv, [Next]_vars PROVE AskedInv'
  OBVIOUS
<1>1. CASE json_parser_command_contrl
  BY <1>1, RequestsAssumption DEF json_parser_command_contrl, AskedInv
<1>2. CASE Construct
  BY <1>2 DEF Construct, AskedInv
<1>3. CASE setparam
  BY <1>3 DEF setparam, AskedInv
<1>4. CASE Option
  <2>1. options' # 0 /\ options' \in Nat
    BY <1>4 DEF Option, AskedInv
  <2>2. QED
    BY <1>4, <2>1 DEF Option, AskedInv
<1>5. CASE send
  <2>1. protocol \in DOMAIN Bits /\ frame'.state = OnAir(protocol, remote)
    BY <1>5 DEF send, AskedInv
  <2>2. QED
    BY <1>5, <2>1 DEF send, AskedInv
<1>6. CASE SendConstant
  BY <1>6, NotAsked DEF SendConstant, AskedInv
<1>7. CASE Destroy
  BY <1>7, NotAsked DEF Destroy, AskedInv
<1>8. CASE UNCHANGED vars
  BY <1>8 DEF vars, AskedInv
<1>9. QED
  BY <1>1, <1>2, <1>3, <1>4, <1>5, <1>6, <1>7, <1>8 DEF Next

\* A frame says what the message asked for: the power, the mode and the temperature within
\* the limits of the class, whatever the four values are, for every class but the two that
\* Answering leaves out and every message but those that Altered names, of which nothing is
\* said; nor of a temperature the class does not send (OwnTemp).
THEOREM FramesSayWhatWasAsked == Spec => []SentAsAsked
<1>1. Spec => []AskedInv
  BY AskedInit, AskedNext, PTL DEF Spec
<1>2. AskedInv => SentAsAsked
  <2> SUFFICES ASSUME AskedInv, stage = "sent", options = 0, protocol \in Answering,
                      irAcValue.mode \in kAuto .. kFan, ~ Altered(protocol, irAcValue)
               PROVE  Answers(protocol, Asks(protocol, frame.state), irAcValue)
    BY DEF SentAsAsked
  <2>1. irAcValue \in Asked
    BY DEF AskedInv, Asked
  <2>2. protocol \in DOMAIN Bits
    BY DEF Answering
  <2>3. PICK s \in Fresh[protocol] :
          frame.state = OnAir(protocol, SetParam(protocol, s, irAcValue))
    BY <2>2 DEF AskedInv
  <2>4. Answers(protocol, Told(protocol, s, irAcValue), irAcValue)
    BY <2>1, EveryClassAnswers DEF ClassAnswers
  <2>5. QED
    BY <2>3, <2>4 DEF Told
<1>3. QED
  BY <1>1, <1>2, PTL

=============================================================================
