--------------------------- MODULE AirConditioner ---------------------------
(***************************************************************************)
(* What becomes of a HAVC message: json_parser_command_contrl stores the   *)
(* four values it carries, the transmit task looks up the protocol of the  *)
(* remote and calls IrBlasterBase::SendHAVC, which builds the object of    *)
(* that protocol on its stack, hands it the values with setparam, and      *)
(* sends.  The object may also be called by the other setters its class    *)
(* declares, up to MaxOptions of them; SendHAVC never does.                *)
(***************************************************************************)
EXTENDS AcDaikin, AcHitachi, AcMitsubishi, AcJapan, AcChina, AcWorld

CONSTANTS Requests,     \* the values HAVC messages carry: [power, mode, fan, temp]
          MaxOptions    \* setters called besides setparam, on one object, per message

ASSUME RequestsAssumption == Requests \subseteq [power : Byte, mode : Byte, fan : Byte, temp : Byte]
ASSUME MaxOptionsAssumption == MaxOptions \in [Requests -> Nat]

----------------------------------------------------------------------------
(* The classes.                                                            *)

\* The width of every field, and what the constructor leaves in memory.
Bits ==
  [ESP |-> ESP_bits, Daikin2 |-> Daikin2_bits, Daikin64 |-> Daikin64_bits,
   Daikin128 |-> Daikin128_bits, Daikin152 |-> Daikin152_bits, Daikin160 |-> Daikin160_bits,
   Daikin176 |-> Daikin176_bits, Daikin216 |-> Daikin216_bits, Hitachi1 |-> Hitachi1_bits,
   MitsubishiAC |-> MitsubishiAC_bits, Mitsubishi112 |-> Mitsubishi112_bits,
   Mitsubishi136 |-> Mitsubishi136_bits, Heavy88 |-> Heavy88_bits,
   Heavy152 |-> Heavy152_bits, Fujitsu |-> Fujitsu_bits, Panasonic |-> Panasonic_bits,
   Sharp |-> Sharp_bits, Sanyo |-> Sanyo_bits, Toshiba |-> Toshiba_bits, Gree |-> Gree_bits,
   Kelvinator |-> Kelvinator_bits, Midea |-> Midea_bits, TCL |-> TCL_bits,
   Goodweather |-> Goodweather_bits, Neoclima |-> Neoclima_bits, Casper |-> Casper_bits,
   Argo |-> Argo_bits, Airwell |-> Airwell_bits, Amcor |-> Amcor_bits, LG |-> LG_bits,
   Samsung |-> Samsung_bits, Whirlpool |-> Whirlpool_bits, Teco |-> Teco_bits,
   Hitachi424 |-> Hitachi424_bits]
Fresh ==
  [ESP |-> {ESP_stateReset}, Daikin2 |-> {Daikin2_stateReset},
   Daikin64 |-> {Daikin64_stateReset}, Daikin128 |-> {Daikin128_stateReset},
   Daikin152 |-> {Daikin152_stateReset}, Daikin160 |-> {Daikin160_stateReset},
   Daikin176 |-> {Daikin176_stateReset}, Daikin216 |-> {Daikin216_stateReset},
   Hitachi1 |-> {Hitachi1_stateReset}, MitsubishiAC |-> {MitsubishiAC_stateReset},
   Mitsubishi112 |-> {Mitsubishi112_stateReset},
   Mitsubishi136 |-> {Mitsubishi136_stateReset}, Heavy88 |-> {Heavy88_stateReset},
   Heavy152 |-> {Heavy152_stateReset}, Fujitsu |-> {Fujitsu_stateReset},
   Panasonic |-> {Panasonic_stateReset}, Sharp |-> {Sharp_stateReset},
   Sanyo |-> {Sanyo_stateReset}, Toshiba |-> {Toshiba_stateReset},
   Gree |-> {Gree_stateReset}, Kelvinator |-> Kelvinator_fresh,
   Midea |-> {Midea_stateReset}, TCL |-> {TCL_stateReset},
   Goodweather |-> {Goodweather_stateReset}, Neoclima |-> {Neoclima_stateReset},
   Casper |-> Casper_fresh, Argo |-> Argo_fresh, Airwell |-> {Airwell_stateReset},
   Amcor |-> {Amcor_stateReset}, LG |-> {LG_stateReset}, Samsung |-> {Samsung_stateReset},
   Whirlpool |-> {Whirlpool_stateReset}, Teco |-> {Teco_stateReset},
   Hitachi424 |-> {Hitachi424_stateReset}]

\* Nothing in SendHAVC hands the values to the last one.
SetParam(p, s, r) ==
  CASE p = "ESP" -> ESP_setparam(s, r)
    [] p = "Daikin2" -> Daikin2_setparam(s, r)
    [] p = "Daikin64" -> Daikin64_setparam(s, r)
    [] p = "Daikin128" -> Daikin128_setparam(s, r)
    [] p = "Daikin152" -> Daikin152_setparam(s, r)
    [] p = "Daikin160" -> Daikin160_setparam(s, r)
    [] p = "Daikin176" -> Daikin176_setparam(s, r)
    [] p = "Daikin216" -> Daikin216_setparam(s, r)
    [] p = "Hitachi1" -> Hitachi1_setparam(s, r)
    [] p = "MitsubishiAC" -> MitsubishiAC_setparam(s, r)
    [] p = "Mitsubishi112" -> Mitsubishi112_setparam(s, r)
    [] p = "Mitsubishi136" -> Mitsubishi136_setparam(s, r)
    [] p = "Heavy88" -> Heavy88_setparam(s, r)
    [] p = "Heavy152" -> Heavy152_setparam(s, r)
    [] p = "Fujitsu" -> Fujitsu_setparam(s, r)
    [] p = "Panasonic" -> Panasonic_setparam(s, r)
    [] p = "Sharp" -> Sharp_setparam(s, r)
    [] p = "Sanyo" -> Sanyo_setparam(s, r)
    [] p = "Toshiba" -> Toshiba_setparam(s, r)
    [] p = "Gree" -> Gree_setparam(s, r)
    [] p = "Kelvinator" -> Kelvinator_setparam(s, r)
    [] p = "Midea" -> Midea_setparam(s, r)
    [] p = "TCL" -> TCL_setparam(s, r)
    [] p = "Goodweather" -> Goodweather_setparam(s, r)
    [] p = "Neoclima" -> Neoclima_setparam(s, r)
    [] p = "Casper" -> Casper_setparam(s, r)
    [] p = "Argo" -> Argo_setparam(s, r)
    [] p = "Airwell" -> Airwell_setparam(s, r)
    [] p = "Amcor" -> Amcor_setparam(s, r)
    [] p = "LG" -> LG_setparam(s, r)
    [] p = "Samsung" -> Samsung_setparam(s, r)
    [] p = "Whirlpool" -> Whirlpool_setparam(s, r)
    [] p = "Teco" -> Teco_setparam(s, r)
    [] p = "Hitachi424" -> s
Options(p, s) ==
  CASE p = "ESP" -> ESP_options(s)
    [] p = "Daikin2" -> Daikin2_options(s)
    [] p = "Daikin64" -> Daikin64_options(s)
    [] p = "Daikin128" -> Daikin128_options(s)
    [] p = "Daikin152" -> Daikin152_options(s)
    [] p = "Daikin160" -> Daikin160_options(s)
    [] p = "Daikin176" -> Daikin176_options(s)
    [] p = "Daikin216" -> Daikin216_options(s)
    [] p = "Hitachi1" -> Hitachi1_options(s)
    [] p = "MitsubishiAC" -> MitsubishiAC_options(s)
    [] p = "Mitsubishi112" -> Mitsubishi112_options(s)
    [] p = "Mitsubishi136" -> Mitsubishi136_options(s)
    [] p = "Heavy88" -> Heavy88_options(s)
    [] p = "Heavy152" -> Heavy152_options(s)
    [] p = "Fujitsu" -> Fujitsu_options(s)
    [] p = "Panasonic" -> Panasonic_options(s)
    [] p = "Sharp" -> Sharp_options(s)
    [] p = "Sanyo" -> Sanyo_options(s)
    [] p = "Toshiba" -> Toshiba_options(s)
    [] p = "Gree" -> Gree_options(s)
    [] p = "Kelvinator" -> Kelvinator_options(s)
    [] p = "Midea" -> Midea_options(s)
    [] p = "TCL" -> TCL_options(s)
    [] p = "Goodweather" -> Goodweather_options(s)
    [] p = "Neoclima" -> Neoclima_options(s)
    [] p = "Casper" -> Casper_options(s)
    [] p = "Argo" -> Argo_options(s)
    [] p = "Airwell" -> Airwell_options(s)
    [] p = "Amcor" -> Amcor_options(s)
    [] p = "LG" -> LG_options(s)
    [] p = "Samsung" -> Samsung_options(s)
    [] p = "Whirlpool" -> Whirlpool_options(s)
    [] p = "Teco" -> Teco_options(s)
    [] p = "Hitachi424" -> Hitachi424_options(s)
\* What a unit makes of a state: its power, mode and degrees Celsius.
Asks(p, s) ==
  CASE p = "ESP" -> ESP_asks(s)
    [] p = "Daikin2" -> Daikin2_asks(s)
    [] p = "Daikin64" -> Daikin64_asks(s)
    [] p = "Daikin128" -> Daikin128_asks(s)
    [] p = "Daikin152" -> Daikin152_asks(s)
    [] p = "Daikin160" -> Daikin160_asks(s)
    [] p = "Daikin176" -> Daikin176_asks(s)
    [] p = "Daikin216" -> Daikin216_asks(s)
    [] p = "Hitachi1" -> Hitachi1_asks(s)
    [] p = "MitsubishiAC" -> MitsubishiAC_asks(s)
    [] p = "Mitsubishi112" -> Mitsubishi112_asks(s)
    [] p = "Mitsubishi136" -> Mitsubishi136_asks(s)
    [] p = "Heavy88" -> Heavy88_asks(s)
    [] p = "Heavy152" -> Heavy152_asks(s)
    [] p = "Fujitsu" -> Fujitsu_asks(s)
    [] p = "Panasonic" -> Panasonic_asks(s)
    [] p = "Sharp" -> Sharp_asks(s)
    [] p = "Sanyo" -> Sanyo_asks(s)
    [] p = "Toshiba" -> Toshiba_asks(s)
    [] p = "Gree" -> Gree_asks(s)
    [] p = "Kelvinator" -> Kelvinator_asks(s)
    [] p = "Midea" -> Midea_asks(s)
    [] p = "TCL" -> TCL_asks(s)
    [] p = "Goodweather" -> Goodweather_asks(s)
    [] p = "Neoclima" -> Neoclima_asks(s)
    [] p = "Casper" -> Casper_asks(s)
    [] p = "Argo" -> Argo_asks(s)
    [] p = "Airwell" -> Airwell_asks(s)
    [] p = "Amcor" -> Amcor_asks(s)
    [] p = "LG" -> LG_asks(s)
    [] p = "Samsung" -> Samsung_asks(s)
    [] p = "Whirlpool" -> Whirlpool_asks(s)
    [] p = "Teco" -> Teco_asks(s)
    [] p = "Hitachi424" -> Hitachi424_asks(s)

\* The stretches of bytes sent one after the other, and the sums among them.
FixedSections ==
  [ESP |-> ESP_send, Daikin2 |-> Daikin2_send, Daikin64 |-> Daikin64_send,
   Daikin128 |-> Daikin128_send, Daikin152 |-> Daikin152_send, Daikin160 |-> Daikin160_send,
   Daikin176 |-> Daikin176_send, Daikin216 |-> Daikin216_send, Hitachi1 |-> Hitachi1_send,
   MitsubishiAC |-> MitsubishiAC_send, Mitsubishi112 |-> Mitsubishi112_send,
   Mitsubishi136 |-> Mitsubishi136_send, Heavy88 |-> Heavy88_send,
   Heavy152 |-> Heavy152_send, Panasonic |-> Panasonic_send, Sharp |-> Sharp_send,
   Sanyo |-> Sanyo_send, Gree |-> Gree_send, Kelvinator |-> Kelvinator_send,
   Midea |-> Midea_send, TCL |-> TCL_send, Goodweather |-> Goodweather_send,
   Neoclima |-> Neoclima_send, Casper |-> Casper_send, Argo |-> Argo_send,
   Airwell |-> Airwell_send, Amcor |-> Amcor_send, LG |-> LG_send,
   Whirlpool |-> Whirlpool_send, Teco |-> Teco_send, Hitachi424 |-> Hitachi424_send]
Sections(p, s) ==
  CASE p = "Fujitsu" -> Fujitsu_send(s)
    [] p = "Toshiba" -> Toshiba_send(s)
    [] p = "Samsung" -> Samsung_send(s)
    [] OTHER -> FixedSections[p]
FixedSums ==
  [ESP |-> ESP_checksum, Daikin2 |-> Daikin2_checksum, Daikin64 |-> Daikin64_checksum,
   Daikin128 |-> Daikin128_checksum, Daikin152 |-> Daikin152_checksum,
   Daikin160 |-> Daikin160_checksum, Daikin176 |-> Daikin176_checksum,
   Daikin216 |-> Daikin216_checksum, Hitachi1 |-> Hitachi1_checksum,
   MitsubishiAC |-> MitsubishiAC_checksum, Mitsubishi112 |-> Mitsubishi112_checksum,
   Mitsubishi136 |-> Mitsubishi136_checksum, Heavy88 |-> Heavy88_checksum,
   Heavy152 |-> Heavy152_checksum, Panasonic |-> Panasonic_checksum,
   Sharp |-> Sharp_checksum, Sanyo |-> Sanyo_checksum, Gree |-> Gree_checksum,
   Kelvinator |-> Kelvinator_checksum, Midea |-> Midea_checksum, TCL |-> TCL_checksum,
   Goodweather |-> Goodweather_checksum, Neoclima |-> Neoclima_checksum,
   Casper |-> Casper_checksum, Argo |-> Argo_checksum, Airwell |-> Airwell_checksum,
   Amcor |-> Amcor_checksum, LG |-> LG_checksum, Samsung |-> Samsung_checksum,
   Whirlpool |-> Whirlpool_checksum, Teco |-> Teco_checksum,
   Hitachi424 |-> Hitachi424_checksum]
Sums(p, s) ==
  CASE p = "Fujitsu" -> Fujitsu_built(s)
    [] p = "Toshiba" -> Toshiba_checksum(s)
    [] OTHER -> FixedSums[p]

\* The state as it goes out, and as sending leaves it.
OnAir(p, s) ==
  CASE p = "Gree" -> Gree_getRaw(s)
    [] p = "Kelvinator" -> Kelvinator_getRaw(s)
    [] p = "LG" -> LG_frame(s)
    [] OTHER -> s
Sent(p, s) ==
  CASE p = "Hitachi1" -> Hitachi1_sent(s)
    [] p = "Toshiba" -> Toshiba_sent(s)
    [] p = "Midea" -> Midea_sent(s)
    [] p = "Samsung" -> Samsung_sent(s)
    [] OTHER -> OnAir(p, s)

\* Protocols SendHAVC knows without an object that is asked for anything: a constant
\* frame for the first two, nothing at all for the others.
Constants == {"HitachiAC2", "PanasonicAC32"}
Silent == {"HitachiAC3", "HitachiAC344"}

----------------------------------------------------------------------------
(* One message at a time.                                                  *)

NoRemote == [none |-> 0]
NoFrame == [sections |-> <<>>, sums |-> {}, state |-> NoRemote]

VARIABLES irAcValue,    \* DeviceData.IrMessageCtr_Info.irAcValue
          protocol,     \* the case of the switch that SendHAVC runs
          remote,       \* the object on its stack
          stage,        \* how far it got with that object
          options,      \* setters called besides setparam
          frame         \* what the object sent last
vars == <<irAcValue, protocol, remote, stage, options, frame>>

Init ==
  /\ irAcValue = [power |-> 0, mode |-> 0, fan |-> 0, temp |-> 0]
  /\ protocol = "none" /\ remote = NoRemote /\ stage = "idle"
  /\ options = 0 /\ frame = NoFrame

json_parser_command_contrl ==
  /\ stage = "idle"
  /\ \E r \in Requests : irAcValue' = r
  /\ stage' = "parsed"
  /\ UNCHANGED <<protocol, remote, options, frame>>

\* SendHAVC up to setparam: the object is constructed.
Construct ==
  /\ stage = "parsed"
  /\ \E p \in DOMAIN Bits : \E s \in Fresh[p] : protocol' = p /\ remote' = s
  /\ stage' = "made"
  /\ UNCHANGED <<irAcValue, options, frame>>

setparam ==
  /\ stage = "made"
  /\ remote' = SetParam(protocol, remote, irAcValue)
  /\ stage' = "set"
  /\ UNCHANGED <<irAcValue, protocol, options, frame>>

Option ==
  /\ stage \in {"made", "set"} /\ options < MaxOptions[irAcValue]
  /\ remote' \in Options(protocol, remote)
  /\ options' = options + 1
  /\ UNCHANGED <<irAcValue, protocol, stage, frame>>

send ==
  /\ stage = "set"
  /\ frame' = [sections |-> Sections(protocol, remote), sums |-> Sums(protocol, remote),
               state |-> OnAir(protocol, remote)]
  /\ remote' = Sent(protocol, remote)
  /\ stage' = "sent"
  /\ UNCHANGED <<irAcValue, protocol, options>>

\* The protocols with no object to ask.
SendConstant ==
  /\ stage = "parsed"
  /\ \E p \in Constants \union Silent :
       /\ protocol' = p
       /\ frame' = [NoFrame EXCEPT !.sections = CASE p = "HitachiAC2" -> <<Section(0, 52)>>
                                                  [] p = "PanasonicAC32" -> <<Section(0, 3)>>
                                                  [] OTHER -> <<>>]
  /\ stage' = "sent"
  /\ UNCHANGED <<irAcValue, remote, options>>

\* The end of the case: the object is destroyed.
Destroy ==
  /\ stage = "sent"
  /\ stage' = "idle" /\ protocol' = "none" /\ remote' = NoRemote /\ options' = 0 /\ frame' = NoFrame
  /\ UNCHANGED irAcValue

Next == json_parser_command_contrl \/ Construct \/ setparam \/ Option \/ send \/ SendConstant \/ Destroy
Spec == Init /\ [][Next]_vars

----------------------------------------------------------------------------
(* Properties.                                                             *)

\* Whatever the values and the order of the setters, no bit-field is given more than
\* it holds: the compiler would drop the high bits without a word, and a unit would
\* be asked for something else.
TypeOK ==
  /\ irAcValue \in [power : Byte, mode : Byte, fan : Byte, temp : Byte]
  /\ stage \in {"idle", "parsed", "made", "set", "sent"}
  /\ protocol \in DOMAIN Bits =>
       /\ DOMAIN remote = DOMAIN Bits[protocol]
       /\ \A f \in DOMAIN remote : remote[f] \in 0 .. 2 ^ Bits[protocol][f] - 1

\* The coldest and the hottest degree a class sends; in cooling, in the first two
\* classes of the CASE, and outside heating, in the third, it starts at 18.
Limits(p, mode) ==
  CASE p = "Daikin2" -> IF mode = kCool THEN <<18, 32>> ELSE <<10, 32>>
    [] p = "Daikin152" -> IF mode = kHeat THEN <<10, 32>> ELSE <<18, 32>>
    [] p \in {"ESP", "Daikin160", "Daikin176", "Daikin216", "Argo"} -> <<10, 32>>
    [] p \in {"Daikin64", "Daikin128", "Fujitsu", "Panasonic", "Sanyo", "Kelvinator",
              "Airwell", "LG", "Samsung", "Teco", "Gree"} -> <<16, 30>>
    [] p \in {"Hitachi1", "Neoclima"} -> <<16, 32>>
    [] p \in {"MitsubishiAC", "Mitsubishi112", "TCL", "Goodweather"} -> <<16, 31>>
    [] p \in {"Mitsubishi136", "Toshiba"} -> <<17, 30>>
    [] p \in {"Heavy88", "Heavy152"} -> <<17, 31>>
    [] p = "Sharp" -> <<15, 30>>
    [] p = "Amcor" -> <<12, 32>>
    [] p = "Whirlpool" -> <<18, 32>>

\* The messages whose temperature the class does not send, or sends as something else:
\* nothing is claimed of what the unit sees.  Daikin152 takes 96 for a setting of its
\* fan, four classes have a fixed one in some modes (Gree's and Hitachi1's automatic,
\* Daikin176's drying and fan, Sharp's all but heating), and Midea reads the number as
\* Fahrenheit.
OwnTemp(p, r) ==
  \/ p = "Daikin152" /\ r.temp = kDaikin152FanTemp
  \/ p = "Daikin176" /\ r.mode \in {kDry, kFan}
  \/ p \in {"Hitachi1", "Gree"} /\ r.mode = kAuto
  \/ p = "Sharp" /\ r.mode # kHeat
  \/ p = "Midea"

\* The messages that reach the unit as something else: setparam has no way to turn two
\* classes off, and in ten a mode becomes another one on its way through convertMode and
\* setMode, for want of such a mode in the unit or because the two disagree, as Sharp's
\* cases that fall through do.  SentAsAsked claims nothing of them.
Altered(p, r) ==
  \/ p \in {"Fujitsu", "Toshiba"} /\ r.power = 0
  \/ p \in {"Daikin64", "Whirlpool"} /\ r.mode = kAuto
  \/ p = "Daikin64" /\ r.mode = kHeat
  \/ p \in {"Daikin128", "Kelvinator"} /\ r.mode = kDry
  \/ p \in {"MitsubishiAC", "Mitsubishi112", "Sanyo", "Argo", "TCL"} /\ r.mode = kFan
  \/ p = "Sharp" /\ r.mode \in {kCool, kDry, kFan}

\* There is one frame to turn an LG off, and it has neither mode nor temperature.
OneOffFrame(p, power) == p = "LG" /\ power = 0

\* What a unit makes of a frame is the power, the mode and the temperature of the
\* message, the last within the limits of the class.
Answers(p, got, r) ==
  LET limits == Limits(p, r.mode)
  IN  /\ got.power = Truth(r.power)
      /\ \/ OneOffFrame(p, r.power)
         \/ /\ got.mode = r.mode
            /\ OwnTemp(p, r) \/ got.temp = Clamp(r.temp, limits[1], limits[2])

\* No setter of the four undoes one before it and no conversion confuses two values: the
\* unit is asked for what the message asks for, outside the messages of Altered.  Casper
\* numbers its modes differently, and answers for none of this.
Answering == DOMAIN Bits \ {"Hitachi424", "Casper"}
SentAsAsked ==
  stage = "sent" /\ options = 0 /\ protocol \in Answering
    /\ irAcValue.mode \in kAuto .. kFan /\ ~ Altered(protocol, irAcValue)
    => Answers(protocol, Asks(protocol, frame.state), irAcValue)

\* The settings of a remote that exclude or imply one another.  Nothing is claimed of
\* Daikin216's Powerful and Quiet: two comments of the class call them mutually exclusive,
\* but its lowest fan speed is the quiet one, and setFan, which setparam calls, leaves
\* Powerful on.
Agreeing(p, s) ==
  CASE p = "ESP" -> ~ (s.Powerful = 1 /\ (s.Quiet = 1 \/ s.Econo = 1))
    [] p = "Daikin2" -> /\ ~ (s.Powerful = 1 /\ s.Quiet = 1)
                        /\ ~ (s.SleepTimer = 1 /\ s.OnTimer = 1)
                        /\ s.Power2 = 1 - s.Power
                        /\ s.Mode = kDaikinCool => s.Temp >= kDaikin2MinCoolTemp
    [] p = "Daikin64" -> s.Mode \in {kDaikin64Dry, kDaikin64Cool, kDaikin64Fan}
    [] p = "Daikin128" -> s.Econo = 1 => s.Mode \in {kDaikin128Cool, kDaikin128Heat}
    [] p = "Daikin152" -> ~ (s.Powerful = 1 /\ (s.Quiet = 1 \/ s.Comfort = 1 \/ s.Econo = 1))
    [] p = "Daikin176" -> s.Temp + 9 = IF s.Mode \in {kDaikin176Dry, kDaikin176Fan}
                                       THEN kDaikin176DryFanTemp ELSE s._saved_temp
    [] p = "Hitachi1" -> /\ s.Mode = kHitachiAc1Dry => s.Fan = kHitachiAc1FanLow
                         /\ s.Mode = kHitachiAc1Auto => s.Fan = kHitachiAc1FanAuto
                         /\ s.Sleep # 0 => s.Mode \in {kHitachiAc1Auto, kHitachiAc1Cool}
    [] p = "Hitachi424" -> /\ s.Mode = kHitachiAc424Fan => s.Fan # kHitachiAc424FanAuto
                           /\ s.Mode = kHitachiAc424Dry => s.Fan \in {1, 2, kHitachiAc424FanAuto}
    [] p = "Panasonic" -> ~ (s.bit21_0 = 1 /\ s.bit21_5 = 1)
    [] p = "Toshiba" -> s.Mode \in {s.prev_mode, kToshibaAcOff}
    [] p = "Gree" -> /\ s.Mode = kGreeAuto => s.Temp = 9
                     /\ s.Mode = kGreeDry => s.Fan = 1
    [] p = "Midea" -> s.disableSensor = s.BeepDisable
    [] p = "Neoclima" -> s.Mode = kGreeDry => s.Fan = kNeoclimaFanLow
    [] p = "Airwell" -> s.Mode = kAirwellDry => s.Fan = 0
    [] p = "Amcor" -> (s.Vent = kAmcorVentOn) <=> (s.Mode = kAmcorFan)
    [] p = "Samsung" -> /\ (s.Mode = kSamsungAcAuto) <=> (s.Fan = kSamsungAcFanAuto2)
                        /\ s.Quiet5 = 1 - s.Quiet1
    [] p = "Whirlpool" -> /\ s.Super = 1 => s.Fan = kWhirlpoolAcFanHigh
                          /\ s.Super = 1 => s.Mode \in {kWhirlpoolAcHeat, kWhirlpoolAcCool}
    [] OTHER -> TRUE

\* They agree in every remote, and so in every frame, after any sequence of setters:
\* each setter of one of them has to take care of all the others.
SettingsAgree == protocol \in DOMAIN Bits => Agreeing(protocol, remote)

\* The sections follow one another from the first byte without a gap, every sum covers
\* bytes that are sent, and it is sent itself.
Whole(sections, sums) ==
  /\ \A i \in DOMAIN sections :
       /\ sections[i].from = IF i = 1 THEN 0 ELSE sections[i - 1].to + 1
       /\ sections[i].from <= sections[i].to
  /\ \A c \in sums :
       /\ c.from <= c.to
       /\ {c.to, c.at} \subseteq 0 .. sections[Len(sections)].to

\* Every frame goes out whole: send and the checksum of a class, two switches over the
\* length, or two tables of positions, do not disagree.  (The sixteen bytes of a Fujitsu
\* have no sum to look at: Fujitsu_built.)
FramesWhole == stage = "sent" => Whole(frame.sections, frame.sums)

=============================================================================
