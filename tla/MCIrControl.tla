---------------------------- MODULE MCIrControl ----------------------------
(* Instances of IrControl: the messages the client sends in each run.      *)
EXTENDS IrControl

CONSTANTS r1, r2, on, off, long1, long2, short, cool, heat, none

MCFileNames == {r1, r2, ""}
MCLineNames == {on, off, ""} \union Keywords

RawLine(n, w) == [name |-> n, proto |-> "RAW", wave |-> w]
CodeLine(n, w) == [name |-> n, proto |-> "NORMAL", wave |-> w]

Base == [kind |-> "check_device", mine |-> TRUE, complete |-> TRUE, encoded |-> TRUE, trans |-> "OTHER",
         file |-> r1, name |-> on, line |-> RawLine(on, long1), ac |-> cool]

Learn == [Base EXCEPT !.kind = "learn_cmd"]
EndLearn == [Base EXCEPT !.kind = "end_learn"]
New(file, n) == [Base EXCEPT !.kind = "new_cmd", !.file = file, !.name = n]
Save(file, line) == [Base EXCEPT !.kind = "save_file", !.trans = "LEARN", !.file = file, !.line = line]
Control(trans, file, n) ==
  [Base EXCEPT !.kind = "control", !.trans = trans, !.file = file, !.name = n]

\* A learning session and messages that ask for nothing.
LearnMessages ==
  {Learn, EndLearn, New(r1, on), New(r1, off)}

\* Messages of every kind, with the payload or without, of a transmit code the
\* parser knows or another, ours or another device's.  (Air-conditioner settings and
\* raw codes are in SpacedMessages, a check_device comes over Bluetooth here.)
MixedMessages ==
  {Learn, EndLearn, New(r1, on), Save(r1, RawLine(off, long1)),
   Control("NORMAL", r1, on), Control("OTHER", r1, on),
   [Control("NORMAL", r1, on) EXCEPT !.encoded = FALSE],
   [Save(r1, RawLine(off, long1)) EXCEPT !.encoded = FALSE], [Learn EXCEPT !.mine = FALSE]}

\* A settled device: commands of every form, saved and learned.
SpacedMessages ==
  {Learn, New(r1, on), EndLearn, Save(r1, RawLine(on, long2)), Save(r1, CodeLine(on, long1)),
   Save(r2, CodeLine(off, long1)), Control("NORMAL", r1, on), Control("NORMAL", r2, off),
   [Control("HAVC", r2, on) EXCEPT !.ac = heat], Control("HAVC", r1, on), Control("RAW", r1, off),
   [Control("RAW", r1, on) EXCEPT !.complete = FALSE]}

RaceMessages == {Learn, New(r1, on), Save(r2, RawLine(off, long2))}
ListenMessages == {Learn, EndLearn, Control("RAW", r1, on)}
=============================================================================
