----------------------------- MODULE IrTransmit -----------------------------
(***************************************************************************)
(* How a stored command leaves the infrared LED.  The transmit task reads  *)
(* the command's line, either a hexadecimal code or a list of durations,   *)
(* and calls IrBase_Send or IrBase_SendRaw.  The object of the remote's    *)
(* protocol installs the RMT transmit channel, writes the pulses of the    *)
(* code to it one item at a time, and uninstalls it again.  Objects nest:  *)
(* several protocols borrow another one's object for the sending.          *)
(*                                                                         *)
(* A word is the set of the positions of its one bits.  Durations are in   *)
(* microseconds, which are the channel's ticks.                            *)
(***************************************************************************)
EXTENDS Integers, Sequences, FiniteSets, SequencesExt

CONSTANTS Codes,       \* stored codes: [digits, word]
          Captures,    \* stored or received lists of durations
          LineSize,    \* the size of buffer_read (1024 in the code)
          HeaderSize   \* characters before the first duration of a learned line

ASSUME CodesAssumption ==
  \A c \in Codes : c.digits \in 1 .. 16 /\ c.word \subseteq 0 .. 4 * c.digits - 1
UInt15 == {d \in Nat : d < 32768}
UInt16 == {d \in Nat : d < 65536}
ASSUME CapturesAssumption == Captures \subseteq Seq(UInt16)
ASSUME SizesAssumption == LineSize \in Nat /\ HeaderSize \in 0 .. LineSize - 1

Protocols ==
  {"NEC", "RC5", "RC6", "JVC", "SAMSUNG", "DENON", "SHERWOOD", "RCMM", "SANYO_LC7461",
   "NIKAI", "MAGIQUEST", "LASERTAG", "GICABLE", "LUTRON", "PIONEER", "SAMSUNG36", "LEGOPF",
   "INAX", "SONY38", "SONY", "AIWA", "PANASONIC_64", "PANASONIC", "MWM"}

----------------------------------------------------------------------------
(* From the line to the data.                                              *)

\* uint64_t data |= hex_data[i] << (8 * ...): the shift is one of int, so byte
\* number 3 brings its sign into the upper half.  A shift by 32 or more is
\* undefined: the machine takes it modulo 32, a folded one gives 0.
Shifted(byte, beyond) ==
  IF \A b \in byte : b < 32 THEN byte
  ELSE IF beyond = "modulo" THEN {b % 32 : b \in byte} ELSE {}
Extended(int) == IF 31 \in int THEN int \cup 32 .. 63 ELSE int
DataShifted(code, beyond) ==    \* the shift forgets the entry the line's end leaves
  UNION {Extended({b + 8 : b \in Shifted({n \in code.word : n \div 8 = i}, beyond)} \cap 0 .. 31) :
           i \in 0 .. (code.digits - 1) \div 2}
Data(code, beyond) ==
  UNION {Extended(Shifted({b \in code.word : b \div 8 = i}, beyond)) :
           i \in 0 .. (code.digits - 1) \div 2}

\* What fgets leaves of a learned line: the durations in its first characters,
\* the last of which may lose digits.
Length(d) == IF d > 9999 THEN 5 ELSE IF d > 999 THEN 4 ELSE IF d > 99 THEN 3
             ELSE IF d > 9 THEN 2 ELSE 1
Starts(ds) ==   \* where each duration starts in the line
  LET start[i \in 1 .. Len(ds)] ==
        IF i = 1 THEN HeaderSize ELSE start[i - 1] + Length(ds[i - 1]) + 1
  IN  start
Room(ds, i) == LineSize - 1 - Starts(ds)[i]
Cut(d, digits) == d \div <<10, 100, 1000, 10000>>[digits]
Stored(ds) ==   \* the first ones: starts increase, so this is a sequence
  [i \in {k \in DOMAIN ds : Room(ds, k) > 0} |->
     IF Room(ds, i) >= Length(ds[i]) THEN ds[i] ELSE Cut(ds[i], Length(ds[i]) - Room(ds, i))]

----------------------------------------------------------------------------
(* The basic driver: items, whose two durations are 15-bit fields.         *)

ItemWide(first, d0, d1) == [first |-> first, d0 |-> d0, d1 |-> d1]
Item(first, d0, d1) == [first |-> first, d0 |-> d0 % 32768, d1 |-> d1 % 32768]
Ticks(us) == (us \div 10) * 10
CappedNever(us) == us
Capped(us) == IF us > 32767 THEN 32767 ELSE us

Install(carrier) == <<[op |-> "install", carrier |-> carrier]>>
Uninstall == <<[op |-> "uninstall"]>>
Write(items) == <<[op |-> "write", items |-> items]>>

\* mark and space write a whole item each, of two equal halves.
MarkSpace(m, s) == Write(<<Item(1, Ticks(m), Ticks(Capped(s)))>>)
Mark(m) == Write(<<Item(0, Ticks(Capped(m)), Ticks(Capped(m)))>>)
Space(s) == Write(<<Item(1, Ticks(Capped(s)), Ticks(Capped(s)))>>)

\* An object on the stack: its constructor, its sending, its destructor.
Object(frequency, duty, ops) == Install(<<frequency, duty>>) \o ops \o Uninstall

----------------------------------------------------------------------------
(* Ir_Send: a shape is the mark and the space of a bit, a header or a      *)
(* footer; the most significant bit goes first.                            *)

MarkSpaceOf(shape) == MarkSpace(shape[1], shape[2])
SendData(one, zero, word, nbits) ==
  FlattenSeq([i \in 1 .. nbits |-> MarkSpaceOf(IF nbits - i \in word THEN one ELSE zero)])
Footer(shape) == IF shape[1] = 0 THEN MarkSpace(0, 0) ELSE MarkSpace(shape[1], Capped(shape[2]))
Message(header, one, zero, footer, word, nbits) ==
  (IF header[1] # 0 /\ header[2] # 0 THEN MarkSpaceOf(header) ELSE <<>>)
    \o SendData(one, zero, word, nbits) \o Footer(footer)
Copies(n, ops) == FlattenSeq([r \in 1 .. n |-> ops])
SendGeneric(header, one, zero, footer, word, nbits, repeat) ==
  Copies(repeat + 1, Message(header, one, zero, footer, word, nbits))
None == <<0, 0>>

\* irutils-like words: bits from .. to of a word, moved down.
Bits(word, from, to) == {b - from : b \in word \cap from .. to}
Raised(word, n) == {b + n : b \in word} \cap 0 .. 63

----------------------------------------------------------------------------
(* The protocols, with the number of bits and of repeats SendCommand's     *)
(* calls leave to the defaults.                                            *)

sendNEC(word, nbits, repeat) ==
  SendGeneric(<<8960, 4480>>, <<560, 1680>>, <<560, 560>>, <<560, 22400>>, word, nbits, 0)
    \o IF repeat = 0 THEN <<>>
       ELSE SendGeneric(<<8960, 2240>>, None, None, <<560, 22400>>, {}, 0, repeat - 1)

sendRC5(word) == <<>>    \* the body is commented out

\* The fourth bit is twice as long; a one and a zero are the same pulse.
sendRC6(word) ==
  MarkSpace(2664, 888) \o MarkSpace(444, 444)
    \o FlattenSeq([i \in 1 .. 20 |-> IF i = 4 THEN MarkSpace(888, 888) ELSE MarkSpace(444, 444)])
    \o MarkSpace(0, 0)

sendJVC(word) ==
  MarkSpace(8400, 4200)
    \o SendGeneric(None, <<525, 1725>>, <<525, 525>>, <<525, 10875>>, word, 16, 0)

sendSamsung(word) ==
  SendGeneric(<<4480, 4480>>, <<560, 1680>>, <<560, 560>>, <<560, 26880>>, word, 32, 0)

sendSamsung36(word) ==
  SendGeneric(<<4515, 4438>>, <<512, 1468>>, <<512, 490>>, <<512, 4438>>, Bits(word, 20, 63), 16, 0)
    \o SendGeneric(None, <<512, 1468>>, <<512, 490>>, <<512, 26880>>, word \cap 0 .. 19, 20, 0)

\* Sent twice, the second time with all but the address inverted.
kSharpToggleMask == 0 .. 9
sendSharpRaw(word, nbits) ==
  LET sent(w) == SendGeneric(None, <<260, 1820>>, <<260, 780>>, <<260, 43602>>, w, nbits, 0)
  IN  sent(word) \o sent(SymDiff(word, kSharpToggleMask))
sendDenonAfter(word) == Object(38000, 50, <<>>) \o sendSharpRaw(word, 15)
sendDenon(word) == Object(38000, 50, sendSharpRaw(word, 15))

sendSherwood(word) == Object(38000, 50, sendNEC(word, 32, 1))

\* Two bits a pulse.
kRcmmBitSpace == <<277, 444, 611, 777>>
sendRCMM(word) ==
  LET pair(i) == (IF 2 * i + 1 \in word THEN 2 ELSE 0) + (IF 2 * i \in word THEN 1 ELSE 0)
  IN  MarkSpace(416, 277)
        \o FlattenSeq([i \in 1 .. 12 |-> Mark(166) \o Space(kRcmmBitSpace[pair(12 - i) + 1])])
        \o Mark(166)

sendSanyoLC7461(word) == Object(38000, 50, sendNEC(word, 42, 0))

sendNikai(word) ==
  SendGeneric(<<4000, 4000>>, <<500, 1000>>, <<500, 2000>>, <<500, 8500>>, word, 24, 0)

sendMagiQuest(word) ==
  SendGeneric(None, <<580, 600>>, <<280, 850>>, <<0, 100000>>, word, 56, 0)

sendLasertag(word) ==
  FlattenSeq([i \in 1 .. 13 |-> IF 13 - i \in word THEN Space(333) \o Mark(333)
                                ELSE Mark(333) \o Space(333)])
    \o Space(100000)

sendGICable(word) ==
  SendGeneric(<<9000, 4400>>, <<550, 4400>>, <<550, 2200>>, <<550, 6450>>, word, 16, 0)
    \o SendGeneric(<<9000, 2200>>, None, None, <<550, 6450>>, {}, 0, 0)

\* The first of the 35 bits is always one: the pulse before the loop.
sendLutron(word) ==
  MarkSpace(2288, 0)
    \o FlattenSeq([i \in 1 .. 34 |-> IF 34 - i \in word THEN Mark(2288) ELSE Space(2288)])

sendPioneer(word) ==
  LET half(w) ==
        SendGeneric(<<8506, 4191>>, <<568, 1542>>, <<568, 487>>, <<568, 25181>>, w, 32, 0)
  IN  half(Bits(word, 32, 63)) \o half(word)

sendLegoPf(word) ==
  SendGeneric(<<158, 1026>>, <<158, 553>>, <<158, 263>>, <<158, 1026>>, word, 16, 0)

sendInax(word) ==
  SendGeneric(<<9000, 4500>>, <<560, 1675>>, <<560, 560>>, <<560, 40000>>, word, 24, 1)

sendSony(word, repeat) ==
  SendGeneric(<<2400, 600>>, <<1200, 600>>, <<600, 600>>, <<0, 10000>>, word, 20, repeat)

\* 26 bits of prefix, the data and a one make up 42 bits.
kAiwaRcT501PreData == {0, 1, 2, 3, 4, 5, 8, 12, 19, 20, 22, 23, 24}
sendAiwaRCT501(word) ==
  Object(38000, 50,
         sendNEC(Raised(kAiwaRcT501PreData, 16) \cup Raised(word, 1) \cup {0}, 42, 1))

sendPanasonic64(word) ==
  SendGeneric(<<3456, 1728>>, <<432, 1296>>, <<432, 432>>, <<432, 74736>>, word, 48, 0)

\* Address 0x4004, and the data as uint32_t.
sendPanasonic(word) == sendPanasonic64({34, 46} \cup (word \cap 0 .. 31))

SendCommand(p, word) ==
  CASE p = "NEC" -> Object(38000, 50, sendNEC(word, 32, 0))
    [] p = "RC5" -> Object(36000, 33, sendRC5(word))
    [] p = "RC6" -> Object(36000, 50, sendRC6(word))
    [] p = "JVC" -> Object(38000, 50, sendJVC(word))
    [] p = "SAMSUNG" -> Object(38000, 50, sendSamsung(word))
    [] p = "DENON" -> sendDenon(word)
    [] p = "SHERWOOD" -> sendSherwood(word)
    [] p = "RCMM" -> Object(36000, 33, sendRCMM(word))
    [] p = "SANYO_LC7461" -> Object(38000, 50, sendSanyoLC7461(word))
    [] p = "NIKAI" -> Object(38000, 50, sendNikai(word))
    [] p = "MAGIQUEST" -> Object(38000, 50, sendMagiQuest(word))
    [] p = "LASERTAG" -> Object(36000, 50, sendLasertag(word))
    [] p = "GICABLE" -> Object(39000, 50, sendGICable(word))
    [] p = "LUTRON" -> Object(38000, 40, sendLutron(word))
    [] p = "PIONEER" -> Object(38000, 40, sendPioneer(word))
    [] p = "SAMSUNG36" -> Object(38000, 40, sendSamsung36(word))
    [] p = "LEGOPF" -> Object(38000, 50, sendLegoPf(word))
    [] p = "INAX" -> Object(38000, 50, sendInax(word))
    [] p = "SONY38" -> Object(38000, 50, sendSony(word, 3))
    [] p = "SONY" -> Object(40000, 33, sendSony(word, 2))
    [] p = "AIWA" -> sendAiwaRCT501(word)
    [] p = "PANASONIC_64" -> Object(38000, 50, sendPanasonic64(word))
    [] p = "PANASONIC" -> Object(38000, 50, sendPanasonic(word))
    [] p = "MWM" -> Object(38000, 50, <<>>)    \* the call is commented out

\* Durations as they are, two to an item; a list of odd length is read one past
\* its end, where an earlier list may have left a value.
sendRaw(ds, beyond) ==
  LET at(i) == IF i <= Len(ds) THEN ds[i] ELSE beyond
  IN  IF ds = <<>> THEN <<>>
      ELSE Write([i \in 1 .. (Len(ds) + 1) \div 2 |-> Item(1, at(2 * i - 1), at(2 * i))])
SendRaw(ds, frequency, beyond) == Object(frequency, 50, sendRaw(ds, beyond))

----------------------------------------------------------------------------
(* The transmit task, one call of the driver per step.                     *)

NoJob == [kind |-> "none"]
Released == <<0, 0>>

VARIABLES job,      \* the command being sent, or the last one sent
          todo,     \* the calls still to be made for it
          channel,  \* the carrier of the installed transmit channel
          air       \* what the LED has sent of it: items and their carriers

vars == <<job, todo, channel, air>>

Init == job = NoJob /\ todo = <<>> /\ channel = Released /\ air = <<>>

Begin(j, calls) == todo = <<>> /\ job' = j /\ todo' = calls /\ air' = <<>> /\ UNCHANGED channel

SendCode ==
  \E p \in Protocols, c \in Codes, beyond \in {"modulo", "zero"} :
    Begin([kind |-> "code", protocol |-> p, code |-> c], SendCommand(p, Data(c, beyond)))

\* A learned line has frequency 38000; a RAW message brings its own, and its
\* durations do not pass through a file.
SendLearned ==
  \E ds \in Captures, beyond \in {0, 560} :
    LET read == Stored(ds)
    IN  /\ read # <<>>
        /\ Begin([kind |-> "learned", durations |-> ds, frequency |-> 38000],
                 SendRaw(read, 38000, beyond))
SendMessage ==
  \E ds \in Captures, f \in {36000, 40000}, beyond \in {0, 560} :
    Begin([kind |-> "message", durations |-> ds, frequency |-> f], SendRaw(ds, f, beyond))

Calls(op) == todo # <<>> /\ Head(todo).op = op /\ todo' = Tail(todo) /\ UNCHANGED job

\* rmt_config takes effect even if the channel is installed already.
InstallTx == /\ Calls("install")
             /\ channel' = Head(todo).carrier
             /\ UNCHANGED air
UninstallTx == /\ Calls("uninstall")
               /\ channel' = Released
               /\ UNCHANGED air

\* The transmitter stops at the first duration of 0, and a channel that is not
\* installed refuses the items.
Transmitted(items) ==
  LET ends == {i \in 1 .. Len(items) : items[i].d0 = 0 \/ items[i].d1 = 0}
      last == CHOOSE i \in ends : \A k \in ends : i <= k
  IN  IF ends = {} THEN items
      ELSE SubSeq(items, 1, IF items[last].d0 = 0 THEN last - 1 ELSE last)
Modulated(carrier, items) ==
  [i \in 1 .. Len(items) |->
     [first |-> items[i].first, d0 |-> items[i].d0, d1 |-> items[i].d1, carrier |-> carrier]]
WriteItems ==
  /\ Calls("write")
  /\ air' = IF channel = Released THEN air
            ELSE air \o Modulated(channel, Transmitted(Head(todo).items))
  /\ UNCHANGED channel

Next == SendCode \/ SendLearned \/ SendMessage \/ InstallTx \/ UninstallTx \/ WriteItems
Spec == Init /\ [][Next]_vars

----------------------------------------------------------------------------
(* What a receiver makes of it.  For each protocol that tells a one from a *)
(* zero: bits in a message, items before them, items in a message, copies  *)
(* of the message, items after the copies, how the bits are read, and the  *)
(* rest the source declares between two messages, 32760 where it declares  *)
(* more than one item can say.                                             *)

Receiver(bits, lead, size, copies, rest, reads, than, gap) ==
  [bits |-> bits, lead |-> lead, size |-> size, copies |-> copies, rest |-> rest,
   reads |-> reads, than |-> than, gap |-> gap]

Receivers ==
  [NEC |-> Receiver(32, 1, 34, 1, 0, "long space", 1000, 22400),
   JVC |-> Receiver(16, 1, 18, 1, 0, "long space", 1000, 10870),
   SAMSUNG |-> Receiver(32, 1, 34, 1, 0, "long space", 1000, 26880),
   DENON |-> Receiver(15, 0, 16, 2, 0, "long space", 1200, 32760),
   SHERWOOD |-> Receiver(32, 1, 34, 1, 2, "long space", 1000, 22400),
   RCMM |-> Receiver(24, 1, 26, 1, 0, "quarters", 0, 3360),
   SANYO_LC7461 |-> Receiver(42, 1, 44, 1, 0, "long space", 1000, 22400),
   NIKAI |-> Receiver(24, 1, 26, 1, 0, "short space", 1500, 8500),
   MAGIQUEST |-> Receiver(56, 0, 56, 1, 0, "long mark", 400, 32760),
   LASERTAG |-> Receiver(13, 0, 27, 1, 0, "space first", 0, 32760),
   GICABLE |-> Receiver(16, 1, 18, 1, 2, "long space", 3000, 6450),
   LUTRON |-> Receiver(34, 1, 35, 1, 0, "mark", 0, 32760),
   PIONEER |-> Receiver(64, 1, 68, 1, 0, "halves", 1000, 25180),
   SAMSUNG36 |-> Receiver(36, 1, 39, 1, 0, "blocks", 1000, 26880),
   LEGOPF |-> Receiver(16, 1, 18, 1, 0, "long space", 400, 1020),
   INAX |-> Receiver(24, 1, 26, 2, 0, "long space", 1000, 32760),
   SONY38 |-> Receiver(20, 1, 21, 4, 0, "long mark", 900, 10000),
   SONY |-> Receiver(20, 1, 21, 3, 0, "long mark", 900, 10000),
   AIWA |-> Receiver(42, 1, 44, 1, 2, "long space", 1000, 22400),
   PANASONIC_64 |-> Receiver(48, 1, 50, 1, 0, "long space", 800, 32760),
   PANASONIC |-> Receiver(48, 1, 50, 1, 0, "long space", 800, 32760)]

\* Whether the i-th bit of the message that starts at item s is a one.
ReadsOne(r, s, i) ==
  LET item(k) == air[s + r.lead + k]
  IN  CASE r.reads = "long space" -> item(i).d1 > r.than
        [] r.reads = "short space" -> item(i).d1 < r.than
        [] r.reads = "long mark" -> item(i).d0 > r.than
        [] r.reads = "mark" -> item(i).first = 0
        [] r.reads = "space first" -> item(2 * i - 1).first = 1
        [] r.reads = "halves" -> item(IF i > 32 THEN i + 2 ELSE i).d1 > r.than
        [] r.reads = "blocks" -> item(IF i > 16 THEN i + 1 ELSE i).d1 > r.than
        [] r.reads = "quarters" ->
             LET d == item(2 * ((i + 1) \div 2)).d1
             IN  IF i % 2 = 1 THEN d > 530 ELSE d \in 360 .. 530 \/ d > 690
Received(r, copy) == {r.bits - i : i \in {n \in 1 .. r.bits : ReadsOne(r, (copy - 1) * r.size, n)}}

Done == job # NoJob /\ todo = <<>>
Listens(p) == p \in DOMAIN Receivers

\* The code fits the protocol: no wider than its data, nor than the 32 bits the
\* shift of an int can place, and its sign does not show.
DataBits(p) == IF p = "AIWA" THEN 15 ELSE IF p = "PANASONIC" THEN 32 ELSE Receivers[p].bits
Fits(p, code) ==
  /\ code.digits <= 8
  /\ code.word \subseteq 0 .. DataBits(p) - 1
  /\ 31 \in code.word => DataBits(p) = 32

\* What every copy should carry: the code, with the prefix and the suffix of the
\* Aiwa, the address of the Panasonic, the inversion of the second Denon copy.
Meant(p, word, copy) ==
  CASE p = "AIWA" -> {b + 1 : b \in word} \cup {b + 16 : b \in kAiwaRcT501PreData} \cup {0}
    [] p = "PANASONIC" -> word \cup {34, 46}
    [] p = "DENON" -> IF copy = 1 THEN word
                      ELSE (word \ 0 .. 9) \cup (0 .. 9 \ word)
    [] OTHER -> word

\* A capture of whole pulses, only its last space being 0, that fits its line.
Whole(j) ==
  LET ds == j.durations
      n == Len(ds)
  IN  /\ n % 2 = 0
      /\ \A i \in 1 .. n : ds[i] \in UInt15 /\ (i # n => ds[i] # 0)
      /\ j.kind = "message" \/ n = 0 \/ Starts(ds)[n] + Length(ds[n]) < LineSize

----------------------------------------------------------------------------
(* Properties.                                                             *)

Carriers == {<<f, d>> : f \in {36000, 38000, 39000, 40000}, d \in {33, 40, 50}}
TypeOK ==
  /\ channel \in Carriers \cup {Released}
  /\ \A i \in 1 .. Len(air) :
       /\ air[i].first \in {0, 1}
       /\ air[i].d0 \in UInt15 \ {0}
       /\ air[i].d1 \in UInt15
       /\ air[i].carrier \in Carriers

\* A receiver of the protocol reads the stored code back from every copy of the
\* message, and receives nothing else; a capture comes out with the durations it
\* was stored with.  That needs a code that fits the protocol, a capture of whole
\* pulses whose line fits buffer_read.  (sendGeneric and the send functions,
\* ir_driver.c:204, logger_file.c:525.)
SentAsStored ==
  /\ Done /\ job.kind = "code" /\ Listens(job.protocol) /\ Fits(job.protocol, job.code) =>
       LET r == Receivers[job.protocol]
       IN  /\ Len(air) = r.copies * r.size + r.rest
           /\ \A copy \in 1 .. r.copies :
                Received(r, copy) = Meant(job.protocol, job.code.word, copy)
  /\ Done /\ job.kind \in {"learned", "message"} /\ Whole(job) =>
       FlattenSeq([i \in 1 .. Len(air) |-> <<air[i].d0, air[i].d1>>]) = job.durations

\* The carrier each protocol is sent on.
CarrierOf(j) ==
  IF j.kind # "code" THEN <<j.frequency, 50>>
  ELSE CASE j.protocol \in {"RC5", "RCMM"} -> <<36000, 33>>
         [] j.protocol \in {"RC6", "LASERTAG"} -> <<36000, 50>>
         [] j.protocol = "GICABLE" -> <<39000, 50>>
         [] j.protocol \in {"LUTRON", "PIONEER", "SAMSUNG36"} -> <<38000, 40>>
         [] j.protocol = "SONY" -> <<40000, 33>>
         [] OTHER -> <<38000, 50>>

\* Every pulse is sent on the protocol's own carrier, whichever object installed
\* the channel last, and the channel is free when the command has been sent: no
\* object that is destroyed takes the channel from one that still sends.
\* (IrBlasterBase::SendCommand, Ir_Send's constructor and destructor.)
OnCarrier ==
  /\ \A i \in 1 .. Len(air) : air[i].carrier = CarrierOf(job)
  /\ todo = <<>> => channel = Released
  /\ \A i \in 1 .. Len(todo) : todo[i].op = "write" =>
       \/ channel # Released
       \/ \E k \in 1 .. i : todo[k].op = "install"

\* The protocols whose send function declares a gap and does not send it: Sony and
\* MagiQuest pass a footer mark of 0, with which sendGeneric drops the gap, and the
\* lines that wait are commented out in sendRCMM and sendLutron.
Gapless == {"SONY", "SONY38", "MAGIQUEST", "RCMM", "LUTRON"}

\* After each copy of a message the LED is dark for the gap of the protocol, but for the
\* protocols above, of which nothing is said: a gap longer than the field of an item
\* is cut to its width, not wrapped.  (sendGeneric's footer, ir_basic_mask_space.)
GapsKept ==
  Done /\ job.kind = "code" /\ Listens(job.protocol) /\ job.protocol \notin Gapless =>
    LET r == Receivers[job.protocol]
    IN  \A copy \in 1 .. r.copies : air[copy * r.size].d1 >= r.gap

=============================================================================
