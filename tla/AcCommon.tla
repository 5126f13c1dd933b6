------------------------------ MODULE AcCommon ------------------------------
(***************************************************************************)
(* What the air conditioner classes share.  A remote is the record of the  *)
(* bit-fields its setters can change and of the members it keeps beside    *)
(* them; a setter is an operator from remotes to remotes, and what the     *)
(* firmware never calls is the set of remotes those setters lead to.       *)
(***************************************************************************)
EXTENDS Integers, FiniteSets

\* stdAc::opmode_t and stdAc::fanspeed_t, as setparam receives them.
kAuto == 0
kCool == 1
kHeat == 2
kDry == 3
kFan == 4
kMin == 1
kLow == 2
kMedium == 3
kHigh == 4
kMax == 5

Bit == {0, 1}
Byte == 0 .. 255
BitOf(on) == IF on THEN 1 ELSE 0
Truth(v) == BitOf(v # 0)    \* a byte passed where a bool is expected

\* std::max(low, std::min(v, high)), on bytes.
Clamp(v, low, high) == IF v < low THEN low ELSE IF v > high THEN high ELSE v

\* A switch is a function, put together from its cases with the operators of module TLC,
\* whose definitions are repeated here for the proofs; its entry for a key, or its default.
k :> v == [x \in {k} |-> v]
t @@ u == [x \in DOMAIN t \union DOMAIN u |-> IF x \in DOMAIN t THEN t[x] ELSE u[x]]
Lookup(table, key, default) == IF key \in DOMAIN table THEN table[key] ELSE default
OneOf(v, allowed, default) == IF v \in allowed THEN v ELSE default

\* irutils::uint8ToBcd and bcdToUint8; SETTIME keeps half hours.
uint8ToBcd(n) == IF n > 99 THEN 255 ELSE (n \div 10) * 16 + (n % 10)
bcdToUint8(b) == IF b > 153 THEN 255 ELSE (b \div 16) * 10 + (b % 16)
DayMinutes(mins) == IF mins >= 24 * 60 THEN 0 ELSE mins
HalfHours(mins) == LET m == DayMinutes(mins)
                   IN  [hours |-> uint8ToBcd(m \div 60), half |-> BitOf(m % 60 >= 30)]

\* reverseBits: the lowest 4, 5 or 8 bits of a number, the other way round.
reverseNibble(v) == (v % 2) * 8 + (v \div 2 % 2) * 4 + (v \div 4 % 2) * 2 + (v \div 8 % 2)
reverseFive(v) == reverseNibble(v % 16) * 2 + v \div 16
reverseByte(v) == reverseNibble(v % 16) * 16 + reverseNibble(v \div 16)

\* What send transmits of a state of n bytes: sections of the given lengths, one
\* after the other; and the checksum at byte at over the bytes from .. to.
Section(from, to) == [from |-> from, to |-> to]
Sum(from, to, at) == [from |-> from, to |-> to, at |-> at]

\* Times of day, in minutes after midnight, that options are tried with.
Minutes == {0, 605, 1439, 1440}

\* A remote with field f (and g) set to every value of a small set.
Each(s, f, values) == {[s EXCEPT ![f] = v] : v \in values}
Toggles(s, fields) == UNION {Each(s, f, Bit) : f \in fields}

=============================================================================
