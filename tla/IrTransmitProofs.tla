-------------------------- MODULE IrTransmitProofs --------------------------
(***************************************************************************)
(* What leaves the LED, for every stored code, every capture and every     *)
(* size of the line buffer.                                                *)
(*                                                                         *)
(* Messages are sequences of sequences (FlattenSeq), and a line's starts   *)
(* are a recursive function: the first part shows by induction over the    *)
(* natural numbers how the two are computed.  Track, the inductive         *)
(* invariant, says that at every step what was sent and what is left to    *)
(* do are together the calls the command asked for.  The rest is about     *)
(* those calls: the pulses each of them makes, and what the receiver of    *)
(* each protocol reads in them (the lemmas Hears_...).                     *)
(***************************************************************************)
EXTENDS IrTransmit, TLAPS, SequenceTheorems, WellFoundedInduction, FiniteSetTheorems

\* A set of naturals that is not empty has a least element.
LEMMA Least ==
  ASSUME NEW T, T \subseteq Nat, T # {}
  PROVE  \E n \in T : \A m \in T : n <= m
<1> DEFINE R == {p \in Nat \X Nat : p[1] < p[2]}
<1>1. R = OpToRel(<, Nat)
  BY DEF OpToRel
<1>2. IsWellFoundedOn(R, Nat)
  BY <1>1, NatLessThanWellFounded
<1>3. \A m, n \in Nat : <<m, n>> \in R <=> m < n
  OBVIOUS
<1> HIDE DEF R
<1>4. PICK n \in T : \A m \in T : <<m, n>> \notin R
  BY <1>2, WFMin
<1>5. \A m \in T : n \in Nat /\ m \in Nat /\ ~ (m < n)
  BY <1>3, <1>4
<1>6. \A m \in T : n <= m
  BY <1>5
<1> QED BY <1>6

\* Induction over the natural numbers, of a property given as a set.
LEMMA FromFirst ==
  ASSUME NEW T, T \subseteq Nat, 0 \in T, \A n \in T : n + 1 \in T
  PROVE  T = Nat
<1>1. SUFFICES ASSUME Nat \ T # {} PROVE FALSE
  OBVIOUS
<1>2. PICK n \in Nat \ T : \A m \in Nat \ T : n <= m
  BY <1>1, Least
<1>3. n # 0 /\ n - 1 \in Nat
  BY <1>2
<1>4. n - 1 \in T
  BY <1>2, <1>3
<1> QED BY <1>2, <1>3, <1>4

----------------------------------------------------------------------------
(* FlattenSeq.                                                             *)

FlatFcn(ss, g, n) == g = [i \in 1 .. n |-> IF i = 1 THEN ss[i] ELSE g[i - 1] \o ss[i]]
FlatTo(ss, g, n) ==
  /\ n > 0 => g[1] = ss[1]
  /\ \A i \in 2 .. n : g[i] = g[i - 1] \o ss[i]

\* The recursive definition has a solution of every length.
LEMMA FlatExists ==
  ASSUME NEW ss
  PROVE  \A n \in Nat : \E g : FlatFcn(ss, g, n)
<1> DEFINE T == {n \in Nat : \E g : FlatFcn(ss, g, n)}
<1>1. 0 \in T
  <2>1. FlatFcn(ss, [i \in 1 .. 0 |-> ss], 0)
    BY DEF FlatFcn
  <2> QED BY <2>1
<1>2. \A n \in T : n + 1 \in T
  <2>1. TAKE n \in T
  <2>2. PICK g : FlatFcn(ss, g, n)
    OBVIOUS
  <2>3. n \in Nat
    OBVIOUS
  <2> DEFINE h == [i \in 1 .. n + 1 |-> IF i = 1 THEN ss[i] ELSE g[i - 1] \o ss[i]]
  <2>4. \A i \in 1 .. n : g[i] = IF i = 1 THEN ss[i] ELSE g[i - 1] \o ss[i]
    BY <2>2 DEF FlatFcn
  <2>5. \A i \in 1 .. n : h[i] = g[i]
    <3>1. \A i \in 1 .. n : i \in 1 .. n + 1
      BY <2>3
    <3> QED BY <2>4, <3>1
  <2>6. \A i \in 1 .. n + 1 : i # 1 => i - 1 \in 1 .. n
    BY <2>3
  <2>7. h = [i \in 1 .. n + 1 |-> IF i = 1 THEN ss[i] ELSE h[i - 1] \o ss[i]]
    BY <2>5, <2>6
  <2>8. FlatFcn(ss, h, n + 1)
    BY <2>7 DEF FlatFcn
  <2> QED BY <2>3, <2>8
<1> HIDE DEF T
<1>3. T \subseteq Nat
  BY DEF T
<1>4. T = Nat
  BY <1>1, <1>2, <1>3, FromFirst
<1> QED BY <1>4 DEF T

LEMMA FlatSteps ==
  ASSUME NEW ss, NEW g, NEW n \in Nat, FlatFcn(ss, g, n)
  PROVE  FlatTo(ss, g, n)
<1>1. \A i \in 1 .. n : g[i] = IF i = 1 THEN ss[i] ELSE g[i - 1] \o ss[i]
  BY DEF FlatFcn
<1>2. n > 0 => 1 \in 1 .. n
  OBVIOUS
<1>3. \A i \in 2 .. n : i \in 1 .. n /\ i # 1
  OBVIOUS
<1> QED BY <1>1, <1>2, <1>3 DEF FlatTo

LEMMA FlatUnfolds ==
  ASSUME NEW ss, Len(ss) \in Nat \ {0}
  PROVE  \E g : FlatTo(ss, g, Len(ss)) /\ FlattenSeq(ss) = g[Len(ss)]
<1> DEFINE f == CHOOSE g : g = [i \in 1 .. Len(ss) |-> IF i = 1 THEN ss[i] ELSE g[i - 1] \o ss[i]]
<1>1. \E g : g = [i \in 1 .. Len(ss) |-> IF i = 1 THEN ss[i] ELSE g[i - 1] \o ss[i]]
  BY Zenon, FlatExists DEF FlatFcn
<1>2. f = [i \in 1 .. Len(ss) |-> IF i = 1 THEN ss[i] ELSE f[i - 1] \o ss[i]]
  BY Zenon, <1>1
<1>3. FlattenSeq(ss) = f[Len(ss)]
  BY DEF FlattenSeq
<1>4. FlatTo(ss, f, Len(ss))
  <2> HIDE DEF f
  <2>1. FlatFcn(ss, f, Len(ss))
    BY <1>2 DEF FlatFcn
  <2> QED BY <2>1, FlatSteps
<1> QED BY <1>3, <1>4

\* The solution for a longer sequence begins as the one for its beginning.
LEMMA FlatSame ==
  ASSUME NEW ss, NEW tt, NEW g, NEW h, NEW n \in Nat,
         FlatTo(ss, g, n), FlatTo(tt, h, n + 1), \A i \in 1 .. n : ss[i] = tt[i]
  PROVE  \A i \in 1 .. n : g[i] = h[i]
<1> DEFINE T == {j \in Nat : j \in 1 .. n => g[j] = h[j]}
<1>1. (n > 0 => g[1] = ss[1]) /\ \A i \in 2 .. n : g[i] = g[i - 1] \o ss[i]
  BY DEF FlatTo
<1>2. (n > 0 => h[1] = tt[1]) /\ \A i \in 2 .. n : h[i] = h[i - 1] \o tt[i]
  <2>1. (n + 1 > 0 => h[1] = tt[1]) /\ \A i \in 2 .. n + 1 : h[i] = h[i - 1] \o tt[i]
    BY DEF FlatTo
  <2>2. n + 1 > 0 /\ \A i \in 2 .. n : i \in 2 .. n + 1
    OBVIOUS
  <2> QED BY <2>1, <2>2
<1>3. 0 \in T
  OBVIOUS
<1>4. \A j \in T : j + 1 \in T
  <2>1. TAKE j \in T
  <2>2. j \in Nat /\ (j \in 1 .. n => g[j] = h[j])
    OBVIOUS
  <2>3. SUFFICES ASSUME j + 1 \in 1 .. n PROVE g[j + 1] = h[j + 1]
    BY <2>2
  <2>4. CASE j = 0
    <3>1. n > 0 /\ 1 \in 1 .. n /\ j + 1 = 1
      BY <2>3, <2>4
    <3> QED BY <1>1, <1>2, <3>1
  <2>5. CASE j # 0
    <3>1. j \in 1 .. n /\ j + 1 \in 2 .. n /\ (j + 1) - 1 = j
      BY <2>2, <2>3, <2>5
    <3> QED BY <1>1, <1>2, <2>2, <2>3, <3>1
  <2> QED BY <2>4, <2>5
<1> HIDE DEF T
<1>5. T \subseteq Nat
  BY DEF T
<1>6. T = Nat
  BY <1>3, <1>4, <1>5, FromFirst
<1> QED BY <1>6 DEF T

LEMMA FlattenEmpty == FlattenSeq(<< >>) = << >>
BY DEF FlattenSeq

LEMMA FlattenType ==
  ASSUME NEW S, NEW ss \in Seq(Seq(S))
  PROVE  FlattenSeq(ss) \in Seq(S)
<1>1. CASE Len(ss) = 0
  <2>1. ss = << >>
    BY <1>1, EmptySeq
  <2> QED BY <2>1, FlattenEmpty, EmptySeq
<1>2. CASE Len(ss) # 0
  <2> DEFINE n == Len(ss)
  <2>1. n \in Nat /\ n # 0
    BY <1>2, LenProperties
  <2>2. PICK g : FlatTo(ss, g, n) /\ FlattenSeq(ss) = g[n]
    BY <2>1, FlatUnfolds
  <2>3. \A i \in 1 .. n : ss[i] \in Seq(S)
    BY ElementOfSeq
  <2> HIDE DEF n
  <2>4. g[1] = ss[1] /\ \A i \in 2 .. n : g[i] = g[i - 1] \o ss[i]
    <3>1. n > 0
      BY <2>1
    <3>2. (n > 0 => g[1] = ss[1]) /\ \A i \in 2 .. n : g[i] = g[i - 1] \o ss[i]
      BY <2>1, <2>2 DEF FlatTo
    <3> QED BY <3>1, <3>2
  <2> DEFINE T == {j \in Nat : j + 1 \in 1 .. n => g[j + 1] \in Seq(S)}
  <2>5. 0 \in T
    <3>1. 1 \in 1 .. n
      BY <2>1
    <3> QED BY <2>3, <2>4, <3>1
  <2>6. \A j \in T : j + 1 \in T
    <3>1. TAKE j \in T
    <3>2. j \in Nat /\ (j + 1 \in 1 .. n => g[j + 1] \in Seq(S))
      OBVIOUS
    <3>3. SUFFICES ASSUME j + 1 + 1 \in 1 .. n PROVE g[j + 1 + 1] \in Seq(S)
      BY <3>2
    <3>4. j + 1 \in 1 .. n /\ j + 1 + 1 \in 2 .. n /\ (j + 1 + 1) - 1 = j + 1
      <4> HIDE DEF T
      <4> QED BY <2>1, <3>2, <3>3
    <3>5. g[j + 1 + 1] = g[j + 1] \o ss[j + 1 + 1]
      BY <2>4, <3>4
    <3> QED BY <2>3, <3>2, <3>3, <3>4, <3>5, ConcatProperties
  <2> HIDE DEF T
  <2>7. T = Nat
    <3>1. T \subseteq Nat
      BY DEF T
    <3> QED BY <2>5, <2>6, <3>1, FromFirst
  <2>8. n - 1 \in T /\ (n - 1) + 1 = n /\ n \in 1 .. n
    BY <2>1, <2>7
  <2>9. g[n] \in Seq(S)
    BY <2>8 DEF T
  <2> QED BY <2>2, <2>9
<1> QED BY <1>1, <1>2

LEMMA FlattenAppend ==
  ASSUME NEW S, NEW ss \in Seq(Seq(S)), NEW s \in Seq(S)
  PROVE  FlattenSeq(Append(ss, s)) = FlattenSeq(ss) \o s
<1> DEFINE n == Len(ss)
           tt == Append(ss, s)
<1>1. /\ n \in Nat /\ tt \in Seq(Seq(S)) /\ Len(tt) = n + 1
      /\ \A i \in 1 .. n : tt[i] = ss[i]
      /\ tt[n + 1] = s
  BY AppendProperties, LenProperties
<1> HIDE DEF tt
<1>2. PICK h : FlatTo(tt, h, n + 1) /\ FlattenSeq(tt) = h[n + 1]
  <2>1. Len(tt) \in Nat \ {0}
    BY <1>1
  <2> QED BY <1>1, <2>1, FlatUnfolds
<1>3. CASE n = 0
  <2>1. ss = << >>
    BY <1>3, EmptySeq
  <2>2. h[1] = tt[1]
    <3>1. n + 1 \in Nat /\ n + 1 > 0
      BY <1>1
    <3> QED BY <1>2, <3>1 DEF FlatTo
  <2>3. FlattenSeq(tt) = s
    BY <1>1, <1>2, <1>3, <2>2
  <2> QED BY <2>1, <2>3, FlattenEmpty, ConcatEmptySeq DEF tt
<1>4. CASE n # 0
  <2>1. PICK g : FlatTo(ss, g, n) /\ FlattenSeq(ss) = g[n]
    <3>1. n \in Nat \ {0}
      BY <1>1, <1>4
    <3> QED BY <3>1, FlatUnfolds
  <2> HIDE DEF n
  <2>2. \A i \in 1 .. n : g[i] = h[i]
    <3>1. n \in Nat /\ \A i \in 1 .. n : ss[i] = tt[i]
      BY <1>1
    <3>2. FlatTo(ss, g, n) /\ FlatTo(tt, h, n + 1)
      BY <1>2, <2>1
    <3> HIDE DEF FlatTo
    <3> QED BY <3>1, <3>2, FlatSame
  <2>3. g[n] = h[n]
    <3>1. n \in 1 .. n
      BY <1>1, <1>4
    <3> QED BY <2>2, <3>1
  <2>4. h[n + 1] = h[n] \o tt[n + 1]
    <3>1. n + 1 \in Nat /\ n + 1 \in 2 .. n + 1 /\ (n + 1) - 1 = n
      BY <1>1, <1>4
    <3>2. \A i \in 2 .. n + 1 : h[i] = h[i - 1] \o tt[i]
      BY <1>2, <3>1 DEF FlatTo
    <3>3. h[n + 1] = h[(n + 1) - 1] \o tt[n + 1]
      BY <3>1, <3>2
    <3> QED BY <3>1, <3>3
  <2> QED BY <1>1, <1>2, <2>1, <2>3, <2>4 DEF tt
<1> QED BY <1>3, <1>4

\* A sequence given as a function, one element longer.
LEMMA OneMore ==
  ASSUME NEW S, NEW n \in Nat, NEW e, \A i \in 1 .. n + 1 : e[i] \in S
  PROVE  /\ [i \in 1 .. n |-> e[i]] \in Seq(S)
         /\ [i \in 1 .. n + 1 |-> e[i]] = Append([i \in 1 .. n |-> e[i]], e[n + 1])
<1> DEFINE a == [i \in 1 .. n |-> e[i]]
           b == [i \in 1 .. n + 1 |-> e[i]]
<1>1. \A i \in 1 .. n : i \in 1 .. n + 1
  OBVIOUS
<1>2. a \in Seq(S) /\ Len(a) = n
  BY <1>1
<1>3. b \in Seq(S) /\ Len(b) = n + 1
  OBVIOUS
<1>4. e[n + 1] \in S /\ n + 1 \in 1 .. n + 1
  OBVIOUS
<1>5. /\ Append(a, e[n + 1]) \in Seq(S) /\ Len(Append(a, e[n + 1])) = n + 1
      /\ \A i \in 1 .. n : Append(a, e[n + 1])[i] = a[i]
      /\ Append(a, e[n + 1])[n + 1] = e[n + 1]
  <2> HIDE DEF a
  <2> QED BY <1>2, <1>4, AppendProperties
<1>6. \A i \in 1 .. n + 1 : i \in 1 .. n \/ i = n + 1
  OBVIOUS
<1>7. \A i \in 1 .. n + 1 : b[i] = e[i]
  OBVIOUS
<1>8. \A i \in 1 .. n : a[i] = e[i]
  OBVIOUS
<1> HIDE DEF a, b
<1>9. \A i \in 1 .. Len(b) : b[i] = Append(a, e[n + 1])[i]
  BY <1>3, <1>5, <1>6, <1>7, <1>8
<1>10. b = Append(a, e[n + 1])
  BY <1>3, <1>5, <1>9, SeqEqual
<1> QED BY <1>2, <1>10 DEF a, b

LEMMA FlattenOne ==
  ASSUME NEW S, NEW s \in Seq(S)
  PROVE  FlattenSeq(<<s>>) = s
<1>1. << >> \in Seq(Seq(S)) /\ << >> \in Seq(S)
  BY EmptySeq
<1>2. Append(<< >>, s) = <<s>>
  OBVIOUS
<1>3. FlattenSeq(Append(<< >>, s)) = FlattenSeq(<< >>) \o s
  BY <1>1, FlattenAppend
<1> QED BY <1>2, <1>3, FlattenEmpty, ConcatEmptySeq

\* One element each.
LEMMA FlattenSingles ==
  ASSUME NEW n \in Nat, NEW e
  PROVE  FlattenSeq([i \in 1 .. n |-> <<e[i]>>]) = [i \in 1 .. n |-> e[i]]
<1> DEFINE S == {e[i] : i \in 1 .. n}
<1>1. \A i \in 1 .. n : e[i] \in S
  OBVIOUS
<1> HIDE DEF S
<1> DEFINE T == {k \in Nat : k <= n => FlattenSeq([i \in 1 .. k |-> <<e[i]>>]) = [i \in 1 .. k |-> e[i]]}
<1>2. 0 \in T
  <2>1. [i \in 1 .. 0 |-> <<e[i]>>] = << >> /\ [i \in 1 .. 0 |-> e[i]] = << >>
    OBVIOUS
  <2> QED BY <2>1, FlattenEmpty
<1>3. \A k \in T : k + 1 \in T
  <2>1. TAKE k \in T
  <2>2. k \in Nat /\ (k <= n => FlattenSeq([i \in 1 .. k |-> <<e[i]>>]) = [i \in 1 .. k |-> e[i]])
    OBVIOUS
  <2> HIDE DEF T
  <2>3. SUFFICES ASSUME k + 1 <= n
                 PROVE  FlattenSeq([i \in 1 .. k + 1 |-> <<e[i]>>]) = [i \in 1 .. k + 1 |-> e[i]]
    BY <2>2 DEF T
  <2> DEFINE s == [i \in 1 .. n |-> <<e[i]>>]
             a == [i \in 1 .. k |-> s[i]]
             c == [i \in 1 .. k |-> e[i]]
  <2>4. \A i \in 1 .. k + 1 : i \in 1 .. n
    BY <2>2, <2>3
  <2>5. \A i \in 1 .. k + 1 : s[i] = <<e[i]>> /\ e[i] \in S /\ s[i] \in Seq(S)
    BY <1>1, <2>4
  <2>6. a = [i \in 1 .. k |-> <<e[i]>>]
    <3>1. \A i \in 1 .. k : s[i] = <<e[i]>>
      <4>1. \A i \in 1 .. k : i \in 1 .. k + 1
        BY <2>2
      <4> HIDE DEF s
      <4> QED BY <2>5, <4>1
    <3> HIDE DEF s
    <3> QED BY <3>1
  <2>7. [i \in 1 .. k + 1 |-> s[i]] = [i \in 1 .. k + 1 |-> <<e[i]>>]
    BY <2>2, <2>4
  <2> HIDE DEF s
  <2>8. a \in Seq(Seq(S)) /\ [i \in 1 .. k + 1 |-> s[i]] = Append(a, s[k + 1])
    BY <2>2, <2>5, OneMore
  <2>9. c \in Seq(S) /\ [i \in 1 .. k + 1 |-> e[i]] = Append(c, e[k + 1])
    BY <2>2, <2>5, OneMore
  <2>10. k + 1 \in 1 .. k + 1
    BY <2>2
  <2> HIDE DEF a, c
  <2>11. FlattenSeq(Append(a, s[k + 1])) = FlattenSeq(a) \o <<e[k + 1]>>
    BY <2>5, <2>8, <2>10, FlattenAppend
  <2>12. FlattenSeq(a) = c
    <3>1. k <= n
      BY <2>2, <2>3
    <3> QED BY <2>2, <2>6, <3>1 DEF c
  <2>13. Append(c, e[k + 1]) = c \o <<e[k + 1]>>
    BY <2>5, <2>9, <2>10, AppendIsConcat
  <2> QED BY <2>7, <2>8, <2>9, <2>11, <2>12, <2>13
<1> HIDE DEF T
<1>4. T = Nat
  <2>1. T \subseteq Nat
    BY DEF T
  <2> QED BY <1>2, <1>3, <2>1, FromFirst
<1>5. n \in T /\ n <= n
  BY <1>4
<1> QED BY <1>5 DEF T

LEMMA Associative ==
  \A S : \A s, t, u \in Seq(S) : (s \o t) \o u = s \o (t \o u)
BY ConcatAssociative

LEMMA FlattenConcatAppend ==
  ASSUME NEW S, NEW a \in Seq(Seq(S)), NEW d \in Seq(Seq(S)), NEW s \in Seq(S),
         FlattenSeq(a \o d) = FlattenSeq(a) \o FlattenSeq(d)
  PROVE  FlattenSeq(a \o Append(d, s)) = FlattenSeq(a) \o FlattenSeq(Append(d, s))
<1>1. Append(d, s) = d \o <<s>> /\ <<s>> \in Seq(Seq(S))
  BY AppendIsConcat
<1>2. a \o (d \o <<s>>) = (a \o d) \o <<s>> /\ a \o d \in Seq(Seq(S))
  BY <1>1, ConcatAssociative, ConcatProperties
<1>3. a \o Append(d, s) = Append(a \o d, s)
  BY <1>1, <1>2, AppendIsConcat
<1>4. FlattenSeq(a \o Append(d, s)) = FlattenSeq(a \o d) \o s
  BY <1>2, <1>3, FlattenAppend
<1>5. FlattenSeq(Append(d, s)) = FlattenSeq(d) \o s
  BY FlattenAppend
<1>6. FlattenSeq(a) \in Seq(S) /\ FlattenSeq(d) \in Seq(S)
  BY FlattenType
<1>7. (FlattenSeq(a) \o FlattenSeq(d)) \o s = FlattenSeq(a) \o (FlattenSeq(d) \o s)
  BY SMTT(30), <1>6, Associative
<1> QED BY <1>4, <1>5, <1>7

ConcatsAt(S, a, n) ==
  \A c \in Seq(Seq(S)) : Len(c) = n => FlattenSeq(a \o c) = FlattenSeq(a) \o FlattenSeq(c)

LEMMA ConcatsNext ==
  ASSUME NEW S, NEW a \in Seq(Seq(S)), NEW n \in Nat, ConcatsAt(S, a, n)
  PROVE  ConcatsAt(S, a, n + 1)
<1> SUFFICES ASSUME NEW c \in Seq(Seq(S)), Len(c) = n + 1
             PROVE  FlattenSeq(a \o c) = FlattenSeq(a) \o FlattenSeq(c)
  BY DEF ConcatsAt
<1>1. c # << >>
  OBVIOUS
<1>2. PICK d \in Seq(Seq(S)), s \in Seq(S) : c = Append(d, s)
  BY <1>1, SequenceEmptyOrAppend
<1>3. Len(d) = n
  <2>1. Len(c) = Len(d) + 1 /\ Len(d) \in Nat
    BY <1>2, AppendProperties, LenProperties
  <2> QED BY <2>1
<1>4. FlattenSeq(a \o d) = FlattenSeq(a) \o FlattenSeq(d)
  BY <1>3 DEF ConcatsAt
<1>5. FlattenSeq(a \o Append(d, s)) = FlattenSeq(a) \o FlattenSeq(Append(d, s))
  BY <1>4, FlattenConcatAppend
<1> QED BY <1>2, <1>5

LEMMA FlattenConcat ==
  ASSUME NEW S, NEW a \in Seq(Seq(S)), NEW b \in Seq(Seq(S))
  PROVE  FlattenSeq(a \o b) = FlattenSeq(a) \o FlattenSeq(b)
<1> DEFINE T == {n \in Nat : ConcatsAt(S, a, n)}
<1>1. ConcatsAt(S, a, 0)
  <2> SUFFICES ASSUME NEW c \in Seq(Seq(S)), Len(c) = 0
               PROVE  FlattenSeq(a \o c) = FlattenSeq(a) \o FlattenSeq(c)
    BY DEF ConcatsAt
  <2>1. c = << >>
    BY EmptySeq
  <2>2. a \o c = a
    BY <2>1, ConcatEmptySeq
  <2>3. FlattenSeq(a) \in Seq(S)
    BY FlattenType
  <2>4. FlattenSeq(a) \o << >> = FlattenSeq(a)
    BY <2>3, ConcatEmptySeq
  <2> QED BY <2>1, <2>2, <2>4, FlattenEmpty
<1>2. \A n \in T : n + 1 \in T
  BY ConcatsNext
<1>3. T = Nat
  <2>1. T \subseteq Nat /\ 0 \in T
    BY <1>1
  <2> HIDE DEF T
  <2> QED BY <1>2, <2>1, FromFirst
<1>4. ConcatsAt(S, a, Len(b))
  BY <1>3, LenProperties
<1> QED BY <1>4 DEF ConcatsAt

\* Copies.
LEMMA NoCopy == \A ops : Copies(0, ops) = << >>
<1>1. \A ops : [r \in 1 .. 0 |-> ops] = << >>
  OBVIOUS
<1> QED BY <1>1, FlattenEmpty DEF Copies

LEMMA OneMoreCopy ==
  ASSUME NEW S, NEW ops \in Seq(S), NEW n \in Nat
  PROVE  Copies(n + 1, ops) = Copies(n, ops) \o ops /\ Copies(n, ops) \in Seq(S)
<1> DEFINE e == [r \in 1 .. n + 1 |-> ops]
           a == [r \in 1 .. n |-> e[r]]
<1>1. \A r \in 1 .. n + 1 : e[r] = ops /\ e[r] \in Seq(S)
  OBVIOUS
<1>2. \A r \in 1 .. n : r \in 1 .. n + 1
  OBVIOUS
<1>3. a = [r \in 1 .. n |-> ops]
  BY <1>2
<1>4. [r \in 1 .. n + 1 |-> e[r]] = [r \in 1 .. n + 1 |-> ops]
  OBVIOUS
<1> HIDE DEF e
<1>5. a \in Seq(Seq(S)) /\ [r \in 1 .. n + 1 |-> e[r]] = Append(a, e[n + 1])
  BY <1>1, OneMore
<1>6. n + 1 \in 1 .. n + 1
  OBVIOUS
<1> HIDE DEF a
<1>7. FlattenSeq(Append(a, ops)) = FlattenSeq(a) \o ops /\ FlattenSeq(a) \in Seq(S)
  BY <1>5, FlattenAppend, FlattenType
<1> QED BY <1>1, <1>3, <1>4, <1>5, <1>6, <1>7 DEF Copies
----------------------------------------------------------------------------
(* The shape of what is asked of the driver: an install, writes of items   *)
(* that fit their fields, an uninstall.                                    *)

Items == [first : {0, 1}, d0 : UInt15, d1 : UInt15]
Writes == [op : {"write"}, items : Seq(Items)]
Shape == Nat \X Nat

LEMMA ItemType == \A first \in {0, 1}, d0, d1 \in Nat : Item(first, d0, d1) \in Items
<1>1. \A d \in Nat : d % 32768 \in UInt15
  BY DEF UInt15
<1> QED BY <1>1 DEF Item, Items

LEMMA TicksType == \A us \in Nat : Ticks(us) \in Nat /\ Capped(us) \in Nat
BY DEF Ticks, Capped

LEMMA WriteType == \A it \in Items : Write(<<it>>) \in Seq(Writes)
BY DEF Write, Writes

LEMMA PulseTypes ==
  \A m, s \in Nat : MarkSpace(m, s) \in Seq(Writes) /\ Mark(m) \in Seq(Writes) /\ Space(s) \in Seq(Writes)
<1> SUFFICES ASSUME NEW m \in Nat, NEW s \in Nat
             PROVE  MarkSpace(m, s) \in Seq(Writes) /\ Mark(m) \in Seq(Writes) /\ Space(s) \in Seq(Writes)
  OBVIOUS
<1>1. /\ Item(1, Ticks(m), Ticks(Capped(s))) \in Items
      /\ Item(0, Ticks(Capped(m)), Ticks(Capped(m))) \in Items
      /\ Item(1, Ticks(Capped(s)), Ticks(Capped(s))) \in Items
  BY TicksType, ItemType
<1> QED BY <1>1, WriteType DEF MarkSpace, Mark, Space

LEMMA ShapeType == \A shape \in Shape : MarkSpaceOf(shape) \in Seq(Writes) /\ Footer(shape) \in Seq(Writes)
<1> SUFFICES ASSUME NEW shape \in Shape
             PROVE  MarkSpaceOf(shape) \in Seq(Writes) /\ Footer(shape) \in Seq(Writes)
  OBVIOUS
<1>1. shape[1] \in Nat /\ shape[2] \in Nat /\ Capped(shape[2]) \in Nat
  BY TicksType DEF Shape
<1> QED BY <1>1, PulseTypes DEF MarkSpaceOf, Footer

LEMMA SendDataType ==
  ASSUME NEW one \in Shape, NEW zero \in Shape, NEW word, NEW n \in Nat
  PROVE  SendData(one, zero, word, n) \in Seq(Writes)
<1>1. \A i \in 1 .. n : MarkSpaceOf(IF n - i \in word THEN one ELSE zero) \in Seq(Writes)
  BY ShapeType
<1>2. [i \in 1 .. n |-> MarkSpaceOf(IF n - i \in word THEN one ELSE zero)] \in Seq(Seq(Writes))
  BY <1>1
<1> QED BY <1>2, FlattenType DEF SendData

LEMMA MessageType ==
  ASSUME NEW header \in Shape, NEW one \in Shape, NEW zero \in Shape, NEW footer \in Shape,
         NEW word, NEW n \in Nat
  PROVE  Message(header, one, zero, footer, word, n) \in Seq(Writes)
<1> DEFINE lead == IF header[1] # 0 /\ header[2] # 0 THEN MarkSpaceOf(header) ELSE << >>
<1>1. lead \in Seq(Writes)
  BY ShapeType, EmptySeq
<1>2. lead \o SendData(one, zero, word, n) \in Seq(Writes)
  BY <1>1, SendDataType, ConcatProperties
<1>3. (lead \o SendData(one, zero, word, n)) \o Footer(footer) \in Seq(Writes)
  BY <1>2, ShapeType, ConcatProperties
<1> QED BY <1>3 DEF Message

LEMMA CopiesType ==
  ASSUME NEW S, NEW ops \in Seq(S), NEW n \in Nat
  PROVE  Copies(n, ops) \in Seq(S)
BY OneMoreCopy

LEMMA GenericType ==
  ASSUME NEW header \in Shape, NEW one \in Shape, NEW zero \in Shape, NEW footer \in Shape,
         NEW word, NEW n \in Nat, NEW repeat \in Nat
  PROVE  SendGeneric(header, one, zero, footer, word, n, repeat) \in Seq(Writes)
<1>1. repeat + 1 \in Nat
  OBVIOUS
<1> QED BY <1>1, MessageType, CopiesType DEF SendGeneric

LEMMA TwoWrites == \A a, b \in Seq(Writes) : a \o b \in Seq(Writes)
BY ConcatProperties

LEMMA NECType ==
  ASSUME NEW word, NEW n \in Nat, NEW repeat \in {0, 1}
  PROVE  sendNEC(word, n, repeat) \in Seq(Writes)
<1>1. /\ <<8960, 4480>> \in Shape /\ <<560, 1680>> \in Shape /\ <<560, 560>> \in Shape
      /\ <<560, 22400>> \in Shape /\ <<8960, 2240>> \in Shape /\ None \in Shape
  BY DEF Shape, None
<1>2. SendGeneric(<<8960, 4480>>, <<560, 1680>>, <<560, 560>>, <<560, 22400>>, word, n, 0) \in Seq(Writes)
  BY <1>1, GenericType
<1>3. repeat # 0 => SendGeneric(<<8960, 2240>>, None, None, <<560, 22400>>, {}, 0, repeat - 1) \in Seq(Writes)
  BY <1>1, GenericType
<1>4. << >> \in Seq(Writes)
  OBVIOUS
<1> QED BY <1>2, <1>3, <1>4, TwoWrites DEF sendNEC

\* Loops over bits that write one or two items a round.
LEMMA LoopType ==
  ASSUME NEW S, NEW n \in Nat, NEW e, \A i \in 1 .. n : e[i] \in Seq(S)
  PROVE  FlattenSeq([i \in 1 .. n |-> e[i]]) \in Seq(S)
<1>1. [i \in 1 .. n |-> e[i]] \in Seq(Seq(S))
  OBVIOUS
<1> QED BY <1>1, FlattenType

LEMMA RC6Type == \A word : sendRC6(word) \in Seq(Writes)
<1> SUFFICES ASSUME NEW word PROVE sendRC6(word) \in Seq(Writes)
  OBVIOUS
<1> DEFINE e == [i \in 1 .. 20 |-> IF i = 4 THEN MarkSpace(888, 888) ELSE MarkSpace(444, 444)]
<1>1. \A i \in 1 .. 20 : e[i] \in Seq(Writes)
  BY PulseTypes
<1>2. [i \in 1 .. 20 |-> e[i]] = e
  OBVIOUS
<1>3. FlattenSeq(e) \in Seq(Writes)
  <2> HIDE DEF e
  <2> QED BY <1>1, <1>2, LoopType
<1>4. MarkSpace(2664, 888) \in Seq(Writes) /\ MarkSpace(444, 444) \in Seq(Writes)
  BY PulseTypes
<1>5. MarkSpace(0, 0) \in Seq(Writes)
  BY PulseTypes
<1> QED BY <1>3, <1>4, <1>5, TwoWrites DEF sendRC6

LEMMA RCMMType == \A word : sendRCMM(word) \in Seq(Writes)
<1> SUFFICES ASSUME NEW word PROVE sendRCMM(word) \in Seq(Writes)
  OBVIOUS
<1> DEFINE pair(i) == (IF 2 * i + 1 \in word THEN 2 ELSE 0) + (IF 2 * i \in word THEN 1 ELSE 0)
           e == [i \in 1 .. 12 |-> Mark(166) \o Space(kRcmmBitSpace[pair(12 - i) + 1])]
<1>1. \A k \in {0, 1, 2, 3} : kRcmmBitSpace[k + 1] \in Nat
  BY DEF kRcmmBitSpace
<1>2. \A i \in 1 .. 12 : pair(12 - i) \in {0, 1, 2, 3}
  OBVIOUS
<1>3. \A i \in 1 .. 12 : kRcmmBitSpace[pair(12 - i) + 1] \in Nat
  <2> HIDE DEF pair
  <2> QED BY <1>1, <1>2
<1>4. \A i \in 1 .. 12 : Mark(166) \o Space(kRcmmBitSpace[pair(12 - i) + 1]) \in Seq(Writes)
  <2> HIDE DEF pair
  <2> QED BY Zenon, <1>3, PulseTypes, TwoWrites
<1>5. FlattenSeq(e) \in Seq(Writes)
  <2>1. \A i \in 1 .. 12 : e[i] \in Seq(Writes)
    BY <1>4
  <2>2. [i \in 1 .. 12 |-> e[i]] = e
    OBVIOUS
  <2> HIDE DEF e
  <2> QED BY <2>1, <2>2, LoopType
<1>6. MarkSpace(416, 277) \in Seq(Writes) /\ Mark(166) \in Seq(Writes)
  BY PulseTypes
<1> QED BY <1>5, <1>6, TwoWrites DEF sendRCMM

LEMMA LasertagType == \A word : sendLasertag(word) \in Seq(Writes)
<1> SUFFICES ASSUME NEW word PROVE sendLasertag(word) \in Seq(Writes)
  OBVIOUS
<1> DEFINE e == [i \in 1 .. 13 |-> IF 13 - i \in word THEN Space(333) \o Mark(333)
                                   ELSE Mark(333) \o Space(333)]
<1>1. \A i \in 1 .. 13 : e[i] \in Seq(Writes)
  <2>1. Space(333) \in Seq(Writes) /\ Mark(333) \in Seq(Writes)
    BY PulseTypes
  <2>2. Space(333) \o Mark(333) \in Seq(Writes) /\ Mark(333) \o Space(333) \in Seq(Writes)
    BY <2>1, TwoWrites
  <2> QED BY <2>2
<1>2. FlattenSeq(e) \in Seq(Writes)
  <2>1. [i \in 1 .. 13 |-> e[i]] = e
    OBVIOUS
  <2> HIDE DEF e
  <2> QED BY <1>1, <2>1, LoopType
<1>3. Space(100000) \in Seq(Writes)
  BY PulseTypes
<1> QED BY <1>2, <1>3, TwoWrites DEF sendLasertag

LEMMA LutronType == \A word : sendLutron(word) \in Seq(Writes)
<1> SUFFICES ASSUME NEW word PROVE sendLutron(word) \in Seq(Writes)
  OBVIOUS
<1> DEFINE e == [i \in 1 .. 34 |-> IF 34 - i \in word THEN Mark(2288) ELSE Space(2288)]
<1>1. \A i \in 1 .. 34 : e[i] \in Seq(Writes)
  <2>1. Space(2288) \in Seq(Writes) /\ Mark(2288) \in Seq(Writes)
    BY PulseTypes
  <2> QED BY <2>1
<1>2. FlattenSeq(e) \in Seq(Writes)
  <2>1. [i \in 1 .. 34 |-> e[i]] = e
    OBVIOUS
  <2> HIDE DEF e
  <2> QED BY <1>1, <2>1, LoopType
<1>3. MarkSpace(2288, 0) \in Seq(Writes)
  BY PulseTypes
<1> QED BY <1>2, <1>3, TwoWrites DEF sendLutron

LEMMA SharpType == \A word : sendSharpRaw(word, 15) \in Seq(Writes)
<1>1. \A word : SendGeneric(None, <<260, 1820>>, <<260, 780>>, <<260, 43602>>, word, 15, 0) \in Seq(Writes)
  BY GenericType DEF None, Shape
<1> QED BY <1>1, TwoWrites DEF sendSharpRaw

LEMMA PioneerType == \A word : sendPioneer(word) \in Seq(Writes)
<1>1. \A word : SendGeneric(<<8506, 4191>>, <<568, 1542>>, <<568, 487>>, <<568, 25181>>, word, 32, 0)
                  \in Seq(Writes)
  BY GenericType DEF Shape
<1> QED BY <1>1, TwoWrites DEF sendPioneer

\* The protocols that are one message and those that are two.
LEMMA PlainTypes ==
  \A word : /\ sendSamsung(word) \in Seq(Writes) /\ sendNikai(word) \in Seq(Writes)
            /\ sendMagiQuest(word) \in Seq(Writes) /\ sendLegoPf(word) \in Seq(Writes)
            /\ sendInax(word) \in Seq(Writes) /\ sendPanasonic64(word) \in Seq(Writes)
            /\ sendSony(word, 2) \in Seq(Writes) /\ sendSony(word, 3) \in Seq(Writes)
<1> SUFFICES ASSUME NEW word
             PROVE  /\ sendSamsung(word) \in Seq(Writes) /\ sendNikai(word) \in Seq(Writes)
                    /\ sendMagiQuest(word) \in Seq(Writes) /\ sendLegoPf(word) \in Seq(Writes)
                    /\ sendInax(word) \in Seq(Writes) /\ sendPanasonic64(word) \in Seq(Writes)
                    /\ sendSony(word, 2) \in Seq(Writes) /\ sendSony(word, 3) \in Seq(Writes)
  OBVIOUS
<1>1. sendSamsung(word) \in Seq(Writes)
  BY GenericType DEF sendSamsung, Shape
<1>2. sendNikai(word) \in Seq(Writes)
  BY GenericType DEF sendNikai, Shape
<1>3. sendMagiQuest(word) \in Seq(Writes)
  BY GenericType DEF sendMagiQuest, Shape, None
<1>4. sendLegoPf(word) \in Seq(Writes)
  BY GenericType DEF sendLegoPf, Shape
<1>5. sendInax(word) \in Seq(Writes)
  BY GenericType DEF sendInax, Shape
<1>6. sendPanasonic64(word) \in Seq(Writes)
  BY GenericType DEF sendPanasonic64, Shape
<1>7. \A n \in {2, 3} : sendSony(word, n) \in Seq(Writes)
  BY GenericType DEF sendSony, Shape
<1> QED BY <1>1, <1>2, <1>3, <1>4, <1>5, <1>6, <1>7

LEMMA SplitTypes ==
  \A word : /\ sendJVC(word) \in Seq(Writes) /\ sendSamsung36(word) \in Seq(Writes)
            /\ sendGICable(word) \in Seq(Writes)
<1> SUFFICES ASSUME NEW word
             PROVE  /\ sendJVC(word) \in Seq(Writes) /\ sendSamsung36(word) \in Seq(Writes)
                    /\ sendGICable(word) \in Seq(Writes)
  OBVIOUS
<1>1. sendJVC(word) \in Seq(Writes)
  <2>1. MarkSpace(8400, 4200) \in Seq(Writes)
    BY PulseTypes
  <2>2. SendGeneric(None, <<525, 1725>>, <<525, 525>>, <<525, 10875>>, word, 16, 0) \in Seq(Writes)
    BY GenericType DEF None, Shape
  <2> QED BY <2>1, <2>2, TwoWrites DEF sendJVC
<1>2. sendSamsung36(word) \in Seq(Writes)
  <2>1. SendGeneric(<<4515, 4438>>, <<512, 1468>>, <<512, 490>>, <<512, 4438>>,
                    Bits(word, 20, 63), 16, 0) \in Seq(Writes)
    BY GenericType DEF Shape
  <2>2. SendGeneric(None, <<512, 1468>>, <<512, 490>>, <<512, 26880>>,
                    word \cap 0 .. 19, 20, 0) \in Seq(Writes)
    BY GenericType DEF None, Shape
  <2> QED BY <2>1, <2>2, TwoWrites DEF sendSamsung36
<1>3. sendGICable(word) \in Seq(Writes)
  <2>1. SendGeneric(<<9000, 4400>>, <<550, 4400>>, <<550, 2200>>, <<550, 6450>>, word, 16, 0) \in Seq(Writes)
    BY GenericType DEF Shape
  <2>2. SendGeneric(<<9000, 2200>>, None, None, <<550, 6450>>, {}, 0, 0) \in Seq(Writes)
    BY GenericType DEF None, Shape
  <2> QED BY <2>1, <2>2, TwoWrites DEF sendGICable
<1> QED BY <1>1, <1>2, <1>3

\* The carriers.
Unusual == {"RC5", "RCMM", "RC6", "LASERTAG", "GICABLE", "LUTRON", "PIONEER", "SAMSUNG36", "SONY"}

LEMMA UsualCarrier ==
  \A j : j.kind = "code" /\ j.protocol \notin Unusual => CarrierOf(j) = <<38000, 50>>
<1> SUFFICES ASSUME NEW j, j.kind = "code", j.protocol \notin Unusual
             PROVE  CarrierOf(j) = <<38000, 50>>
  OBVIOUS
<1>1. /\ j.protocol \notin {"RC5", "RCMM"} /\ j.protocol \notin {"RC6", "LASERTAG"}
      /\ j.protocol # "GICABLE" /\ j.protocol \notin {"LUTRON", "PIONEER", "SAMSUNG36"}
      /\ j.protocol # "SONY"
  BY DEF Unusual
<1> QED BY <1>1 DEF CarrierOf

LEMMA UnusualCarrier ==
  \A j : j.kind = "code" =>
    /\ j.protocol = "RC5" => CarrierOf(j) = <<36000, 33>>
    /\ j.protocol = "RCMM" => CarrierOf(j) = <<36000, 33>>
    /\ j.protocol = "RC6" => CarrierOf(j) = <<36000, 50>>
    /\ j.protocol = "LASERTAG" => CarrierOf(j) = <<36000, 50>>
    /\ j.protocol = "GICABLE" => CarrierOf(j) = <<39000, 50>>
    /\ j.protocol = "LUTRON" => CarrierOf(j) = <<38000, 40>>
    /\ j.protocol = "PIONEER" => CarrierOf(j) = <<38000, 40>>
    /\ j.protocol = "SAMSUNG36" => CarrierOf(j) = <<38000, 40>>
    /\ j.protocol = "SONY" => CarrierOf(j) = <<40000, 33>>
<1> SUFFICES ASSUME NEW j, j.kind = "code"
             PROVE  /\ j.protocol = "RC5" => CarrierOf(j) = <<36000, 33>>
                    /\ j.protocol = "RCMM" => CarrierOf(j) = <<36000, 33>>
                    /\ j.protocol = "RC6" => CarrierOf(j) = <<36000, 50>>
                    /\ j.protocol = "LASERTAG" => CarrierOf(j) = <<36000, 50>>
                    /\ j.protocol = "GICABLE" => CarrierOf(j) = <<39000, 50>>
                    /\ j.protocol = "LUTRON" => CarrierOf(j) = <<38000, 40>>
                    /\ j.protocol = "PIONEER" => CarrierOf(j) = <<38000, 40>>
                    /\ j.protocol = "SAMSUNG36" => CarrierOf(j) = <<38000, 40>>
                    /\ j.protocol = "SONY" => CarrierOf(j) = <<40000, 33>>
  OBVIOUS
<1>1. j.protocol \in {"RC5", "RCMM"} => CarrierOf(j) = <<36000, 33>>
  BY DEF CarrierOf
<1>2. j.protocol \in {"RC6", "LASERTAG"} => CarrierOf(j) = <<36000, 50>>
  BY DEF CarrierOf
<1>3. j.protocol = "GICABLE" => CarrierOf(j) = <<39000, 50>>
  BY DEF CarrierOf
<1>4. j.protocol \in {"LUTRON", "PIONEER", "SAMSUNG36"} => CarrierOf(j) = <<38000, 40>>
  BY DEF CarrierOf
<1>5. j.protocol = "SONY" => CarrierOf(j) = <<40000, 33>>
  BY DEF CarrierOf
<1> QED BY <1>1, <1>2, <1>3, <1>4, <1>5

\* The object that sends a code, and what it writes (IrBlasterBase::SendCommand).
\* The Sanyo's object has the one of the NEC inside.
Nested(p, f, d, ops) ==
  IF p = "SANYO_LC7461" THEN Object(f, d, Object(f, d, ops)) ELSE Object(f, d, ops)
Written(j, word, f, d, ops) ==
  /\ SendCommand(j.protocol, word) = Nested(j.protocol, f, d, ops)
  /\ CarrierOf(j) = <<f, d>>
  /\ ops \in Seq(Writes)

LEMMA Writes_NEC ==
  \A j, word : j.kind = "code" /\ j.protocol = "NEC" =>
    Written(j, word, 38000, 50, sendNEC(word, 32, 0))
<1> SUFFICES ASSUME NEW j, NEW word, j.kind = "code", j.protocol = "NEC"
             PROVE  Written(j, word, 38000, 50, sendNEC(word, 32, 0))
  OBVIOUS
<1>1. SendCommand("NEC", word) = Object(38000, 50, sendNEC(word, 32, 0))
  BY DEF SendCommand
<1>2. CarrierOf(j) = <<38000, 50>>
  BY UsualCarrier DEF Unusual
<1>3. sendNEC(word, 32, 0) \in Seq(Writes)
  BY NECType
<1> QED BY <1>1, <1>2, <1>3 DEF Written, Nested

LEMMA Writes_RC5 ==
  \A j, word : j.kind = "code" /\ j.protocol = "RC5" =>
    Written(j, word, 36000, 33, sendRC5(word))
<1> SUFFICES ASSUME NEW j, NEW word, j.kind = "code", j.protocol = "RC5"
             PROVE  Written(j, word, 36000, 33, sendRC5(word))
  OBVIOUS
<1>1. SendCommand("RC5", word) = Object(36000, 33, sendRC5(word))
  BY DEF SendCommand
<1>2. CarrierOf(j) = <<36000, 33>>
  BY UnusualCarrier
<1>3. sendRC5(word) \in Seq(Writes)
  BY EmptySeq DEF sendRC5
<1> QED BY <1>1, <1>2, <1>3 DEF Written, Nested

LEMMA Writes_RC6 ==
  \A j, word : j.kind = "code" /\ j.protocol = "RC6" =>
    Written(j, word, 36000, 50, sendRC6(word))
<1> SUFFICES ASSUME NEW j, NEW word, j.kind = "code", j.protocol = "RC6"
             PROVE  Written(j, word, 36000, 50, sendRC6(word))
  OBVIOUS
<1>1. SendCommand("RC6", word) = Object(36000, 50, sendRC6(word))
  BY DEF SendCommand
<1>2. CarrierOf(j) = <<36000, 50>>
  BY UnusualCarrier
<1>3. sendRC6(word) \in Seq(Writes)
  BY RC6Type
<1> QED BY <1>1, <1>2, <1>3 DEF Written, Nested

LEMMA Writes_JVC ==
  \A j, word : j.kind = "code" /\ j.protocol = "JVC" =>
    Written(j, word, 38000, 50, sendJVC(word))
<1> SUFFICES ASSUME NEW j, NEW word, j.kind = "code", j.protocol = "JVC"
             PROVE  Written(j, word, 38000, 50, sendJVC(word))
  OBVIOUS
<1>1. SendCommand("JVC", word) = Object(38000, 50, sendJVC(word))
  BY DEF SendCommand
<1>2. CarrierOf(j) = <<38000, 50>>
  BY UsualCarrier DEF Unusual
<1>3. sendJVC(word) \in Seq(Writes)
  BY SplitTypes
<1> QED BY <1>1, <1>2, <1>3 DEF Written, Nested

LEMMA Writes_SAMSUNG ==
  \A j, word : j.kind = "code" /\ j.protocol = "SAMSUNG" =>
    Written(j, word, 38000, 50, sendSamsung(word))
<1> SUFFICES ASSUME NEW j, NEW word, j.kind = "code", j.protocol = "SAMSUNG"
             PROVE  Written(j, word, 38000, 50, sendSamsung(word))
  OBVIOUS
<1>1. SendCommand("SAMSUNG", word) = Object(38000, 50, sendSamsung(word))
  BY DEF SendCommand
<1>2. CarrierOf(j) = <<38000, 50>>
  BY UsualCarrier DEF Unusual
<1>3. sendSamsung(word) \in Seq(Writes)
  BY PlainTypes
<1> QED BY <1>1, <1>2, <1>3 DEF Written, Nested

LEMMA Writes_DENON ==
  \A j, word : j.kind = "code" /\ j.protocol = "DENON" =>
    Written(j, word, 38000, 50, sendSharpRaw(word, 15))
<1> SUFFICES ASSUME NEW j, NEW word, j.kind = "code", j.protocol = "DENON"
             PROVE  Written(j, word, 38000, 50, sendSharpRaw(word, 15))
  OBVIOUS
<1>1. SendCommand("DENON", word) = Object(38000, 50, sendSharpRaw(word, 15))
  BY DEF SendCommand, sendDenon
<1>2. CarrierOf(j) = <<38000, 50>>
  BY UsualCarrier DEF Unusual
<1>3. sendSharpRaw(word, 15) \in Seq(Writes)
  BY SharpType
<1> QED BY <1>1, <1>2, <1>3 DEF Written, Nested

LEMMA Writes_SHERWOOD ==
  \A j, word : j.kind = "code" /\ j.protocol = "SHERWOOD" =>
    Written(j, word, 38000, 50, sendNEC(word, 32, 1))
<1> SUFFICES ASSUME NEW j, NEW word, j.kind = "code", j.protocol = "SHERWOOD"
             PROVE  Written(j, word, 38000, 50, sendNEC(word, 32, 1))
  OBVIOUS
<1>1. SendCommand("SHERWOOD", word) = Object(38000, 50, sendNEC(word, 32, 1))
  BY DEF SendCommand, sendSherwood
<1>2. CarrierOf(j) = <<38000, 50>>
  BY UsualCarrier DEF Unusual
<1>3. sendNEC(word, 32, 1) \in Seq(Writes)
  BY NECType
<1> QED BY <1>1, <1>2, <1>3 DEF Written, Nested

LEMMA Writes_RCMM ==
  \A j, word : j.kind = "code" /\ j.protocol = "RCMM" =>
    Written(j, word, 36000, 33, sendRCMM(word))
<1> SUFFICES ASSUME NEW j, NEW word, j.kind = "code", j.protocol = "RCMM"
             PROVE  Written(j, word, 36000, 33, sendRCMM(word))
  OBVIOUS
<1>1. SendCommand("RCMM", word) = Object(36000, 33, sendRCMM(word))
  BY DEF SendCommand
<1>2. CarrierOf(j) = <<36000, 33>>
  BY UnusualCarrier
<1>3. sendRCMM(word) \in Seq(Writes)
  BY RCMMType
<1> QED BY <1>1, <1>2, <1>3 DEF Written, Nested

LEMMA Writes_SANYO_LC7461 ==
  \A j, word : j.kind = "code" /\ j.protocol = "SANYO_LC7461" =>
    Written(j, word, 38000, 50, sendNEC(word, 42, 0))
<1> SUFFICES ASSUME NEW j, NEW word, j.kind = "code", j.protocol = "SANYO_LC7461"
             PROVE  Written(j, word, 38000, 50, sendNEC(word, 42, 0))
  OBVIOUS
<1>1. SendCommand("SANYO_LC7461", word) = Object(38000, 50, Object(38000, 50, sendNEC(word, 42, 0)))
  BY DEF SendCommand, sendSanyoLC7461
<1>2. CarrierOf(j) = <<38000, 50>>
  BY UsualCarrier DEF Unusual
<1>3. sendNEC(word, 42, 0) \in Seq(Writes)
  BY NECType
<1> QED BY <1>1, <1>2, <1>3 DEF Written, Nested

LEMMA Writes_NIKAI ==
  \A j, word : j.kind = "code" /\ j.protocol = "NIKAI" =>
    Written(j, word, 38000, 50, sendNikai(word))
<1> SUFFICES ASSUME NEW j, NEW word, j.kind = "code", j.protocol = "NIKAI"
             PROVE  Written(j, word, 38000, 50, sendNikai(word))
  OBVIOUS
<1>1. SendCommand("NIKAI", word) = Object(38000, 50, sendNikai(word))
  BY DEF SendCommand
<1>2. CarrierOf(j) = <<38000, 50>>
  BY UsualCarrier DEF Unusual
<1>3. sendNikai(word) \in Seq(Writes)
  BY PlainTypes
<1> QED BY <1>1, <1>2, <1>3 DEF Written, Nested

LEMMA Writes_MAGIQUEST ==
  \A j, word : j.kind = "code" /\ j.protocol = "MAGIQUEST" =>
    Written(j, word, 38000, 50, sendMagiQuest(word))
<1> SUFFICES ASSUME NEW j, NEW word, j.kind = "code", j.protocol = "MAGIQUEST"
             PROVE  Written(j, word, 38000, 50, sendMagiQuest(word))
  OBVIOUS
<1>1. SendCommand("MAGIQUEST", word) = Object(38000, 50, sendMagiQuest(word))
  BY DEF SendCommand
<1>2. CarrierOf(j) = <<38000, 50>>
  BY UsualCarrier DEF Unusual
<1>3. sendMagiQuest(word) \in Seq(Writes)
  BY PlainTypes
<1> QED BY <1>1, <1>2, <1>3 DEF Written, Nested

LEMMA Writes_LASERTAG ==
  \A j, word : j.kind = "code" /\ j.protocol = "LASERTAG" =>
    Written(j, word, 36000, 50, sendLasertag(word))
<1> SUFFICES ASSUME NEW j, NEW word, j.kind = "code", j.protocol = "LASERTAG"
             PROVE  Written(j, word, 36000, 50, sendLasertag(word))
  OBVIOUS
<1>1. SendCommand("LASERTAG", word) = Object(36000, 50, sendLasertag(word))
  BY DEF SendCommand
<1>2. CarrierOf(j) = <<36000, 50>>
  BY UnusualCarrier
<1>3. sendLasertag(word) \in Seq(Writes)
  BY LasertagType
<1> QED BY <1>1, <1>2, <1>3 DEF Written, Nested

LEMMA Writes_GICABLE ==
  \A j, word : j.kind = "code" /\ j.protocol = "GICABLE" =>
    Written(j, word, 39000, 50, sendGICable(word))
<1> SUFFICES ASSUME NEW j, NEW word, j.kind = "code", j.protocol = "GICABLE"
             PROVE  Written(j, word, 39000, 50, sendGICable(word))
  OBVIOUS
<1>1. SendCommand("GICABLE", word) = Object(39000, 50, sendGICable(word))
  BY DEF SendCommand
<1>2. CarrierOf(j) = <<39000, 50>>
  BY UnusualCarrier
<1>3. sendGICable(word) \in Seq(Writes)
  BY SplitTypes
<1> QED BY <1>1, <1>2, <1>3 DEF Written, Nested

LEMMA Writes_LUTRON ==
  \A j, word : j.kind = "code" /\ j.protocol = "LUTRON" =>
    Written(j, word, 38000, 40, sendLutron(word))
<1> SUFFICES ASSUME NEW j, NEW word, j.kind = "code", j.protocol = "LUTRON"
             PROVE  Written(j, word, 38000, 40, sendLutron(word))
  OBVIOUS
<1>1. SendCommand("LUTRON", word) = Object(38000, 40, sendLutron(word))
  BY DEF SendCommand
<1>2. CarrierOf(j) = <<38000, 40>>
  BY UnusualCarrier
<1>3. sendLutron(word) \in Seq(Writes)
  BY LutronType
<1> QED BY <1>1, <1>2, <1>3 DEF Written, Nested

LEMMA Writes_PIONEER ==
  \A j, word : j.kind = "code" /\ j.protocol = "PIONEER" =>
    Written(j, word, 38000, 40, sendPioneer(word))
<1> SUFFICES ASSUME NEW j, NEW word, j.kind = "code", j.protocol = "PIONEER"
             PROVE  Written(j, word, 38000, 40, sendPioneer(word))
  OBVIOUS
<1>1. SendCommand("PIONEER", word) = Object(38000, 40, sendPioneer(word))
  BY DEF SendCommand
<1>2. CarrierOf(j) = <<38000, 40>>
  BY UnusualCarrier
<1>3. sendPioneer(word) \in Seq(Writes)
  BY PioneerType
<1> QED BY <1>1, <1>2, <1>3 DEF Written, Nested

LEMMA Writes_SAMSUNG36 ==
  \A j, word : j.kind = "code" /\ j.protocol = "SAMSUNG36" =>
    Written(j, word, 38000, 40, sendSamsung36(word))
<1> SUFFICES ASSUME NEW j, NEW word, j.kind = "code", j.protocol = "SAMSUNG36"
             PROVE  Written(j, word, 38000, 40, sendSamsung36(word))
  OBVIOUS
<1>1. SendCommand("SAMSUNG36", word) = Object(38000, 40, sendSamsung36(word))
  BY DEF SendCommand
<1>2. CarrierOf(j) = <<38000, 40>>
  BY UnusualCarrier
<1>3. sendSamsung36(word) \in Seq(Writes)
  BY SplitTypes
<1> QED BY <1>1, <1>2, <1>3 DEF Written, Nested

LEMMA Writes_LEGOPF ==
  \A j, word : j.kind = "code" /\ j.protocol = "LEGOPF" =>
    Written(j, word, 38000, 50, sendLegoPf(word))
<1> SUFFICES ASSUME NEW j, NEW word, j.kind = "code", j.protocol = "LEGOPF"
             PROVE  Written(j, word, 38000, 50, sendLegoPf(word))
  OBVIOUS
<1>1. SendCommand("LEGOPF", word) = Object(38000, 50, sendLegoPf(word))
  BY DEF SendCommand
<1>2. CarrierOf(j) = <<38000, 50>>
  BY UsualCarrier DEF Unusual
<1>3. sendLegoPf(word) \in Seq(Writes)
  BY PlainTypes
<1> QED BY <1>1, <1>2, <1>3 DEF Written, Nested

LEMMA Writes_INAX ==
  \A j, word : j.kind = "code" /\ j.protocol = "INAX" =>
    Written(j, word, 38000, 50, sendInax(word))
<1> SUFFICES ASSUME NEW j, NEW word, j.kind = "code", j.protocol = "INAX"
             PROVE  Written(j, word, 38000, 50, sendInax(word))
  OBVIOUS
<1>1. SendCommand("INAX", word) = Object(38000, 50, sendInax(word))
  BY DEF SendCommand
<1>2. CarrierOf(j) = <<38000, 50>>
  BY UsualCarrier DEF Unusual
<1>3. sendInax(word) \in Seq(Writes)
  BY PlainTypes
<1> QED BY <1>1, <1>2, <1>3 DEF Written, Nested

LEMMA Writes_SONY38 ==
  \A j, word : j.kind = "code" /\ j.protocol = "SONY38" =>
    Written(j, word, 38000, 50, sendSony(word, 3))
<1> SUFFICES ASSUME NEW j, NEW word, j.kind = "code", j.protocol = "SONY38"
             PROVE  Written(j, word, 38000, 50, sendSony(word, 3))
  OBVIOUS
<1>1. SendCommand("SONY38", word) = Object(38000, 50, sendSony(word, 3))
  BY DEF SendCommand
<1>2. CarrierOf(j) = <<38000, 50>>
  BY UsualCarrier DEF Unusual
<1>3. sendSony(word, 3) \in Seq(Writes)
  BY PlainTypes
<1> QED BY <1>1, <1>2, <1>3 DEF Written, Nested

LEMMA Writes_SONY ==
  \A j, word : j.kind = "code" /\ j.protocol = "SONY" =>
    Written(j, word, 40000, 33, sendSony(word, 2))
<1> SUFFICES ASSUME NEW j, NEW word, j.kind = "code", j.protocol = "SONY"
             PROVE  Written(j, word, 40000, 33, sendSony(word, 2))
  OBVIOUS
<1>1. SendCommand("SONY", word) = Object(40000, 33, sendSony(word, 2))
  BY DEF SendCommand
<1>2. CarrierOf(j) = <<40000, 33>>
  BY UnusualCarrier
<1>3. sendSony(word, 2) \in Seq(Writes)
  BY PlainTypes
<1> QED BY <1>1, <1>2, <1>3 DEF Written, Nested

AiwaWord(word) == Raised(kAiwaRcT501PreData, 16) \cup Raised(word, 1) \cup {0}

LEMMA Writes_AIWA ==
  \A j, word : j.kind = "code" /\ j.protocol = "AIWA" =>
    Written(j, word, 38000, 50, sendNEC(AiwaWord(word), 42, 1))
<1> SUFFICES ASSUME NEW j, NEW word, j.kind = "code", j.protocol = "AIWA"
             PROVE  Written(j, word, 38000, 50, sendNEC(AiwaWord(word), 42, 1))
  OBVIOUS
<1>1. SendCommand("AIWA", word) = Object(38000, 50, sendNEC(AiwaWord(word), 42, 1))
  BY DEF SendCommand, sendAiwaRCT501, AiwaWord
<1>2. CarrierOf(j) = <<38000, 50>>
  BY UsualCarrier DEF Unusual
<1>3. sendNEC(AiwaWord(word), 42, 1) \in Seq(Writes)
  BY NECType
<1> QED BY <1>1, <1>2, <1>3 DEF Written, Nested

LEMMA Writes_PANASONIC_64 ==
  \A j, word : j.kind = "code" /\ j.protocol = "PANASONIC_64" =>
    Written(j, word, 38000, 50, sendPanasonic64(word))
<1> SUFFICES ASSUME NEW j, NEW word, j.kind = "code", j.protocol = "PANASONIC_64"
             PROVE  Written(j, word, 38000, 50, sendPanasonic64(word))
  OBVIOUS
<1>1. SendCommand("PANASONIC_64", word) = Object(38000, 50, sendPanasonic64(word))
  BY DEF SendCommand
<1>2. CarrierOf(j) = <<38000, 50>>
  BY UsualCarrier DEF Unusual
<1>3. sendPanasonic64(word) \in Seq(Writes)
  BY PlainTypes
<1> QED BY <1>1, <1>2, <1>3 DEF Written, Nested

LEMMA Writes_PANASONIC ==
  \A j, word : j.kind = "code" /\ j.protocol = "PANASONIC" =>
    Written(j, word, 38000, 50, sendPanasonic(word))
<1> SUFFICES ASSUME NEW j, NEW word, j.kind = "code", j.protocol = "PANASONIC"
             PROVE  Written(j, word, 38000, 50, sendPanasonic(word))
  OBVIOUS
<1>1. SendCommand("PANASONIC", word) = Object(38000, 50, sendPanasonic(word))
  BY DEF SendCommand
<1>2. CarrierOf(j) = <<38000, 50>>
  BY UsualCarrier DEF Unusual
<1>3. sendPanasonic(word) \in Seq(Writes)
  BY PlainTypes DEF sendPanasonic
<1> QED BY <1>1, <1>2, <1>3 DEF Written, Nested

LEMMA Writes_MWM ==
  \A j, word : j.kind = "code" /\ j.protocol = "MWM" =>
    Written(j, word, 38000, 50, <<>>)
<1> SUFFICES ASSUME NEW j, NEW word, j.kind = "code", j.protocol = "MWM"
             PROVE  Written(j, word, 38000, 50, <<>>)
  OBVIOUS
<1>1. SendCommand("MWM", word) = Object(38000, 50, <<>>)
  BY DEF SendCommand
<1>2. CarrierOf(j) = <<38000, 50>>
  BY UsualCarrier DEF Unusual
<1>3. <<>> \in Seq(Writes)
  BY EmptySeq
<1> QED BY <1>1, <1>2, <1>3 DEF Written, Nested

\* Whatever the protocol, a code is sent by one object on the protocol's carrier.
OneObject(j, word) == \E f, d, ops : Written(j, word, f, d, ops)

LEMMA CommandShape ==
  ASSUME NEW j, NEW word, j.kind = "code", j.protocol \in Protocols
  PROVE  OneObject(j, word)
<1>1. j.protocol = "NEC" => OneObject(j, word)
  BY Writes_NEC DEF OneObject
<1>2. j.protocol = "RC5" => OneObject(j, word)
  BY Writes_RC5 DEF OneObject
<1>3. j.protocol = "RC6" => OneObject(j, word)
  BY Writes_RC6 DEF OneObject
<1>4. j.protocol = "JVC" => OneObject(j, word)
  BY Writes_JVC DEF OneObject
<1>5. j.protocol = "SAMSUNG" => OneObject(j, word)
  BY Writes_SAMSUNG DEF OneObject
<1>6. j.protocol = "DENON" => OneObject(j, word)
  BY Writes_DENON DEF OneObject
<1>7. j.protocol = "SHERWOOD" => OneObject(j, word)
  BY Writes_SHERWOOD DEF OneObject
<1>8. j.protocol = "RCMM" => OneObject(j, word)
  BY Writes_RCMM DEF OneObject
<1>9. j.protocol = "SANYO_LC7461" => OneObject(j, word)
  BY Writes_SANYO_LC7461 DEF OneObject
<1>10. j.protocol = "NIKAI" => OneObject(j, word)
  BY Writes_NIKAI DEF OneObject
<1>11. j.protocol = "MAGIQUEST" => OneObject(j, word)
  BY Writes_MAGIQUEST DEF OneObject
<1>12. j.protocol = "LASERTAG" => OneObject(j, word)
  BY Writes_LASERTAG DEF OneObject
<1>13. j.protocol = "GICABLE" => OneObject(j, word)
  BY Writes_GICABLE DEF OneObject
<1>14. j.protocol = "LUTRON" => OneObject(j, word)
  BY Writes_LUTRON DEF OneObject
<1>15. j.protocol = "PIONEER" => OneObject(j, word)
  BY Writes_PIONEER DEF OneObject
<1>16. j.protocol = "SAMSUNG36" => OneObject(j, word)
  BY Writes_SAMSUNG36 DEF OneObject
<1>17. j.protocol = "LEGOPF" => OneObject(j, word)
  BY Writes_LEGOPF DEF OneObject
<1>18. j.protocol = "INAX" => OneObject(j, word)
  BY Writes_INAX DEF OneObject
<1>19. j.protocol = "SONY38" => OneObject(j, word)
  BY Writes_SONY38 DEF OneObject
<1>20. j.protocol = "SONY" => OneObject(j, word)
  BY Writes_SONY DEF OneObject
<1>21. j.protocol = "AIWA" => OneObject(j, word)
  BY Writes_AIWA DEF OneObject
<1>22. j.protocol = "PANASONIC_64" => OneObject(j, word)
  BY Writes_PANASONIC_64 DEF OneObject
<1>23. j.protocol = "PANASONIC" => OneObject(j, word)
  BY Writes_PANASONIC DEF OneObject
<1>24. j.protocol = "MWM" => OneObject(j, word)
  BY Writes_MWM DEF OneObject
<1> QED BY <1>1, <1>2, <1>3, <1>4, <1>5, <1>6, <1>7, <1>8, <1>9, <1>10, <1>11, <1>12, <1>13,
        <1>14, <1>15, <1>16, <1>17, <1>18, <1>19, <1>20, <1>21, <1>22, <1>23, <1>24 DEF Protocols

----------------------------------------------------------------------------
(* What has been sent of a list of writes.                                 *)

Shining == UInt15 \ {0}
Pulses == [first : {0, 1}, d0 : Shining, d1 : UInt15]
Airs == [first : {0, 1}, d0 : Shining, d1 : UInt15, carrier : Carriers]

LEMMA PulseOfItem == \A it \in Items : it.d0 # 0 => it \in Pulses
<1> SUFFICES ASSUME NEW it \in Items, it.d0 # 0 PROVE it \in Pulses
  OBVIOUS
<1>1. /\ it = [first |-> it.first, d0 |-> it.d0, d1 |-> it.d1]
      /\ it.first \in {0, 1} /\ it.d0 \in UInt15 /\ it.d1 \in UInt15
  BY DEF Items
<1>2. \A d \in UInt15 : d # 0 => d \in Shining
  BY DEF Shining
<1>3. it.d0 \in Shining
  BY <1>1, <1>2
<1> QED BY <1>1, <1>3 DEF Pulses

LEMMA AirOfPulse ==
  \A it \in Pulses, c \in Carriers :
    [first |-> it.first, d0 |-> it.d0, d1 |-> it.d1, carrier |-> c] \in Airs
<1> SUFFICES ASSUME NEW it \in Pulses, NEW c \in Carriers
             PROVE  [first |-> it.first, d0 |-> it.d0, d1 |-> it.d1, carrier |-> c] \in Airs
  OBVIOUS
<1>1. it.first \in {0, 1} /\ it.d0 \in Shining /\ it.d1 \in UInt15
  BY DEF Pulses
<1> QED BY <1>1 DEF Airs

\* Elements of a concatenation, and when a sequence is one.
LEMMA InConcat ==
  ASSUME NEW S, NEW s \in Seq(S), NEW t \in Seq(S)
  PROVE  /\ s \o t \in Seq(S) /\ Len(s \o t) = Len(s) + Len(t)
         /\ \A i \in 1 .. Len(s) : (s \o t)[i] = s[i]
         /\ \A i \in 1 .. Len(t) : (s \o t)[Len(s) + i] = t[i]
<1>1. Len(s) \in Nat /\ Len(t) \in Nat
  BY LenProperties
<1>2. /\ s \o t \in Seq(S) /\ Len(s \o t) = Len(s) + Len(t)
      /\ \A i \in 1 .. Len(s) + Len(t) : (s \o t)[i] = IF i <= Len(s) THEN s[i] ELSE t[i - Len(s)]
  BY ConcatProperties
<1>3. \A i \in 1 .. Len(s) : i \in 1 .. Len(s) + Len(t) /\ i <= Len(s)
  BY <1>1
<1>4. \A i \in 1 .. Len(t) : /\ Len(s) + i \in 1 .. Len(s) + Len(t) /\ ~ (Len(s) + i <= Len(s))
                            /\ (Len(s) + i) - Len(s) = i
  BY <1>1
<1> QED BY <1>2, <1>3, <1>4

LEMMA IsConcat ==
  ASSUME NEW S, NEW s \in Seq(S), NEW t \in Seq(S), NEW u \in Seq(S),
         Len(u) = Len(s) + Len(t),
         \A i \in 1 .. Len(s) : u[i] = s[i],
         \A i \in 1 .. Len(t) : u[Len(s) + i] = t[i]
  PROVE  u = s \o t
<1>1. Len(s) \in Nat /\ Len(t) \in Nat
  BY LenProperties
<1>2. \A i \in 1 .. Len(u) : i \in 1 .. Len(s) \/ (i - Len(s) \in 1 .. Len(t) /\ Len(s) + (i - Len(s)) = i)
  BY <1>1
<1>3. /\ s \o t \in Seq(S) /\ Len(s \o t) = Len(u)
      /\ \A i \in 1 .. Len(s) : (s \o t)[i] = u[i]
      /\ \A i \in 1 .. Len(t) : (s \o t)[Len(s) + i] = u[Len(s) + i]
  BY InConcat
<1>4. ASSUME NEW i \in 1 .. Len(u) PROVE u[i] = (s \o t)[i]
  <2>1. CASE i \in 1 .. Len(s)
    BY <1>3, <2>1
  <2>2. CASE i - Len(s) \in 1 .. Len(t) /\ Len(s) + (i - Len(s)) = i
    <3>1. (s \o t)[Len(s) + (i - Len(s))] = u[Len(s) + (i - Len(s))]
      BY <1>3, <2>2
    <3> QED BY <2>2, <3>1
  <2> QED BY <1>2, <2>1, <2>2
<1> QED BY <1>3, <1>4, SeqEqual

LEMMA TransmittedType ==
  ASSUME NEW items \in Seq(Items)
  PROVE  Transmitted(items) \in Seq(Pulses)
<1> DEFINE n == Len(items)
           ends == {i \in 1 .. Len(items) : items[i].d0 = 0 \/ items[i].d1 = 0}
           last == CHOOSE i \in ends : \A k \in ends : i <= k
<1>1. n \in Nat /\ \A i \in 1 .. n : items[i] \in Items
  BY LenProperties, ElementOfSeq
<1>2. CASE ends = {}
  <2>1. Transmitted(items) = items
    BY <1>2 DEF Transmitted
  <2>2. \A i \in 1 .. n : items[i] \in Pulses
    <3>1. \A i \in 1 .. n : items[i].d0 # 0
      BY <1>2
    <3> QED BY <1>1, <3>1, PulseOfItem
  <2>3. items = [i \in 1 .. n |-> items[i]]
    BY LenProperties
  <2> QED BY <1>1, <2>1, <2>2, <2>3
<1>3. CASE ends # {}
  <2>1. \E i \in ends : \A k \in ends : i <= k
    <3>1. ends \subseteq Nat
      BY <1>1
    <3> HIDE DEF ends
    <3> QED BY <1>3, <3>1, Least
  <2>2. last \in ends /\ \A k \in ends : last <= k
    BY <2>1
  <2> DEFINE m == IF items[last].d0 = 0 THEN last - 1 ELSE last
  <2>3. Transmitted(items) = SubSeq(items, 1, m)
    BY <1>3 DEF Transmitted
  <2> HIDE DEF last
  <2>4. last \in 1 .. n /\ m \in 0 .. n
    BY <1>1, <2>2
  <2>5. \A i \in 1 .. m : items[i] \in Pulses
    <3> SUFFICES ASSUME NEW i \in 1 .. m PROVE items[i] \in Pulses
      OBVIOUS
    <3>1. i \in 1 .. n /\ (i < last \/ (i = last /\ items[last].d0 # 0))
      BY <1>1, <2>4
    <3>2. i < last => i \notin ends
      BY <1>1, <2>2, <2>4
    <3>3. items[i].d0 # 0
      BY <3>1, <3>2
    <3> QED BY <1>1, <3>1, <3>3, PulseOfItem
  <2>6. SubSeq(items, 1, m) = [i \in 1 .. m |-> items[i]]
    BY <1>1, <2>4
  <2> HIDE DEF m
  <2> QED BY <2>3, <2>4, <2>5, <2>6
<1> QED BY <1>2, <1>3

LEMMA ModulatedType ==
  ASSUME NEW its \in Seq(Pulses), NEW c \in Carriers
  PROVE  /\ Modulated(c, its) \in Seq(Airs)
         /\ Len(Modulated(c, its)) = Len(its)
         /\ \A i \in 1 .. Len(its) :
              /\ Modulated(c, its)[i].first = its[i].first
              /\ Modulated(c, its)[i].d0 = its[i].d0
              /\ Modulated(c, its)[i].d1 = its[i].d1
              /\ Modulated(c, its)[i].carrier = c
<1>1. Len(its) \in Nat /\ \A i \in 1 .. Len(its) : its[i] \in Pulses
  BY LenProperties, ElementOfSeq
<1>2. \A i \in 1 .. Len(its) :
        [first |-> its[i].first, d0 |-> its[i].d0, d1 |-> its[i].d1, carrier |-> c] \in Airs
  BY <1>1, AirOfPulse
<1> QED BY <1>1, <1>2 DEF Modulated

LEMMA ModulatedConcat ==
  ASSUME NEW a \in Seq(Pulses), NEW b \in Seq(Pulses), NEW c \in Carriers
  PROVE  Modulated(c, a \o b) = Modulated(c, a) \o Modulated(c, b)
<1>1. a \o b \in Seq(Pulses) /\ Len(a \o b) = Len(a) + Len(b)
      /\ Len(a) \in Nat /\ Len(b) \in Nat
  BY ConcatProperties, LenProperties
<1>2. /\ Modulated(c, a) \in Seq(Airs) /\ Modulated(c, b) \in Seq(Airs)
      /\ Len(Modulated(c, a)) = Len(a) /\ Len(Modulated(c, b)) = Len(b)
      /\ Modulated(c, a \o b) \in Seq(Airs)
      /\ Len(Modulated(c, a \o b)) = Len(a) + Len(b)
  BY <1>1, ModulatedType
<1>3. \A i \in 1 .. Len(a) : Modulated(c, a \o b)[i] = Modulated(c, a)[i]
  <2>1. \A i \in 1 .. Len(a) : i \in 1 .. Len(a \o b) /\ (a \o b)[i] = a[i]
    BY <1>1, InConcat
  <2> QED BY <2>1 DEF Modulated
<1>4. \A i \in 1 .. Len(b) : Modulated(c, a \o b)[Len(a) + i] = Modulated(c, b)[i]
  <2>1. \A i \in 1 .. Len(b) : Len(a) + i \in 1 .. Len(a \o b) /\ (a \o b)[Len(a) + i] = b[i]
    BY <1>1, InConcat
  <2> QED BY <2>1 DEF Modulated
<1>5. /\ Len(Modulated(c, a \o b)) = Len(Modulated(c, a)) + Len(Modulated(c, b))
      /\ \A i \in 1 .. Len(Modulated(c, a)) : Modulated(c, a \o b)[i] = Modulated(c, a)[i]
      /\ \A i \in 1 .. Len(Modulated(c, b)) :
           Modulated(c, a \o b)[Len(Modulated(c, a)) + i] = Modulated(c, b)[i]
  BY <1>2, <1>3, <1>4
<1> QED BY <1>2, <1>5, IsConcat

\* What the LED sends of writes.
Sent(ops) == FlattenSeq([i \in 1 .. Len(ops) |-> Transmitted(ops[i].items)])

LEMMA EachSent ==
  ASSUME NEW ops \in Seq(Writes)
  PROVE  [i \in 1 .. Len(ops) |-> Transmitted(ops[i].items)] \in Seq(Seq(Pulses))
<1>1. Len(ops) \in Nat /\ \A i \in 1 .. Len(ops) : ops[i] \in Writes
  BY LenProperties, ElementOfSeq
<1>2. \A i \in 1 .. Len(ops) : Transmitted(ops[i].items) \in Seq(Pulses)
  BY <1>1, TransmittedType DEF Writes
<1> QED BY <1>1, <1>2

LEMMA SentType ==
  ASSUME NEW ops \in Seq(Writes)
  PROVE  Sent(ops) \in Seq(Pulses)
BY EachSent, FlattenType DEF Sent

LEMMA SentNone == Sent(<< >>) = << >>
<1>1. [i \in 1 .. Len(<< >>) |-> Transmitted(<< >>[i].items)] = << >>
  OBVIOUS
<1> QED BY <1>1, FlattenEmpty DEF Sent

LEMMA SentConcat ==
  ASSUME NEW a \in Seq(Writes), NEW b \in Seq(Writes)
  PROVE  Sent(a \o b) = Sent(a) \o Sent(b)
<1> DEFINE s(o) == [i \in 1 .. Len(o) |-> Transmitted(o[i].items)]
<1>1. a \o b \in Seq(Writes) /\ Len(a \o b) = Len(a) + Len(b)
      /\ Len(a) \in Nat /\ Len(b) \in Nat
  BY ConcatProperties, LenProperties
<1>2. s(a) \in Seq(Seq(Pulses)) /\ s(b) \in Seq(Seq(Pulses)) /\ s(a \o b) \in Seq(Seq(Pulses))
  BY <1>1, EachSent
<1>3. Len(s(a)) = Len(a) /\ Len(s(b)) = Len(b) /\ Len(s(a \o b)) = Len(a) + Len(b)
  BY <1>1
<1>4. \A i \in 1 .. Len(a) : s(a \o b)[i] = s(a)[i]
  <2>1. \A i \in 1 .. Len(a) : i \in 1 .. Len(a \o b) /\ (a \o b)[i] = a[i]
    BY <1>1, InConcat
  <2> QED BY <2>1
<1>5. \A i \in 1 .. Len(b) : s(a \o b)[Len(a) + i] = s(b)[i]
  <2>1. \A i \in 1 .. Len(b) : Len(a) + i \in 1 .. Len(a \o b) /\ (a \o b)[Len(a) + i] = b[i]
    BY <1>1, InConcat
  <2> QED BY <2>1
<1> HIDE DEF s
<1>6. s(a \o b) = s(a) \o s(b)
  <2>1. /\ Len(s(a \o b)) = Len(s(a)) + Len(s(b))
        /\ \A i \in 1 .. Len(s(a)) : s(a \o b)[i] = s(a)[i]
        /\ \A i \in 1 .. Len(s(b)) : s(a \o b)[Len(s(a)) + i] = s(b)[i]
    BY <1>3, <1>4, <1>5
  <2> QED BY <1>2, <2>1, IsConcat
<1>7. FlattenSeq(s(a) \o s(b)) = FlattenSeq(s(a)) \o FlattenSeq(s(b))
  BY <1>2, FlattenConcat
<1>8. Sent(a) = FlattenSeq(s(a)) /\ Sent(b) = FlattenSeq(s(b)) /\ Sent(a \o b) = FlattenSeq(s(a \o b))
  BY DEF Sent, s
<1> QED BY <1>6, <1>7, <1>8

LEMMA SentOne ==
  ASSUME NEW w \in Writes
  PROVE  Sent(<<w>>) = Transmitted(w.items)
<1>1. Transmitted(w.items) \in Seq(Pulses)
  BY TransmittedType DEF Writes
<1>2. [i \in 1 .. Len(<<w>>) |-> Transmitted(<<w>>[i].items)] = <<Transmitted(w.items)>>
  OBVIOUS
<1> QED BY <1>1, <1>2, FlattenOne DEF Sent

----------------------------------------------------------------------------
(* What fgets leaves of a learned line: a recursive function, whose        *)
(* solution exists for every length.                                       *)

StartFcn(ds, g, n) ==
  g = [i \in 1 .. n |-> IF i = 1 THEN HeaderSize ELSE g[i - 1] + Length(ds[i - 1]) + 1]

LEMMA StartExists ==
  ASSUME NEW ds
  PROVE  \A n \in Nat : \E g : StartFcn(ds, g, n)
<1> DEFINE T == {n \in Nat : \E g : StartFcn(ds, g, n)}
<1>1. 0 \in T
  <2>1. StartFcn(ds, [i \in 1 .. 0 |-> ds], 0)
    BY DEF StartFcn
  <2> QED BY <2>1
<1>2. \A n \in T : n + 1 \in T
  <2>1. TAKE n \in T
  <2>2. PICK g : StartFcn(ds, g, n)
    OBVIOUS
  <2>3. n \in Nat
    OBVIOUS
  <2> DEFINE h == [i \in 1 .. n + 1 |-> IF i = 1 THEN HeaderSize ELSE g[i - 1] + Length(ds[i - 1]) + 1]
  <2>4. \A i \in 1 .. n : g[i] = IF i = 1 THEN HeaderSize ELSE g[i - 1] + Length(ds[i - 1]) + 1
    BY <2>2 DEF StartFcn
  <2>5. \A i \in 1 .. n : h[i] = g[i]
    <3>1. \A i \in 1 .. n : i \in 1 .. n + 1
      BY <2>3
    <3> QED BY <2>4, <3>1
  <2>6. \A i \in 1 .. n + 1 : i # 1 => i - 1 \in 1 .. n
    BY <2>3
  <2>7. h = [i \in 1 .. n + 1 |-> IF i = 1 THEN HeaderSize ELSE h[i - 1] + Length(ds[i - 1]) + 1]
    BY <2>5, <2>6
  <2>8. StartFcn(ds, h, n + 1)
    BY <2>7 DEF StartFcn
  <2> QED BY <2>3, <2>8
<1> HIDE DEF T
<1>3. T \subseteq Nat
  BY DEF T
<1>4. T = Nat
  BY <1>1, <1>2, <1>3, FromFirst
<1> QED BY <1>4 DEF T

LEMMA StartSteps ==
  ASSUME NEW ds, Len(ds) \in Nat
  PROVE  \A i \in 1 .. Len(ds) :
           Starts(ds)[i] = IF i = 1 THEN HeaderSize ELSE Starts(ds)[i - 1] + Length(ds[i - 1]) + 1
<1> DEFINE f == CHOOSE g : g = [i \in 1 .. Len(ds) |->
                                  IF i = 1 THEN HeaderSize ELSE g[i - 1] + Length(ds[i - 1]) + 1]
<1>1. \E g : g = [i \in 1 .. Len(ds) |-> IF i = 1 THEN HeaderSize ELSE g[i - 1] + Length(ds[i - 1]) + 1]
  BY StartExists DEF StartFcn
<1>2. f = [i \in 1 .. Len(ds) |-> IF i = 1 THEN HeaderSize ELSE f[i - 1] + Length(ds[i - 1]) + 1]
  BY <1>1
<1>3. Starts(ds) = f
  BY DEF Starts
<1> HIDE DEF f
<1> QED BY <1>2, <1>3

LEMMA LengthType == \A d : Length(d) \in 1 .. 5
BY DEF Length

\* UInt15 start one after the other.
LEMMA StartsIncrease ==
  ASSUME NEW ds, Len(ds) \in Nat
  PROVE  /\ \A i \in 1 .. Len(ds) : Starts(ds)[i] \in Nat
         /\ \A i \in 1 .. Len(ds) : \A k \in 1 .. Len(ds) :
              i < k => Starts(ds)[i] + Length(ds[i]) < Starts(ds)[k]
<1> DEFINE n == Len(ds)
           st(i) == Starts(ds)[i]
           T == {k \in Nat : k + 1 \in 1 .. n =>
                   /\ st(k + 1) \in Nat
                   /\ \A i \in 1 .. k : st(i) \in Nat /\ st(i) + Length(ds[i]) < st(k + 1)}
<1>1. \A i \in 1 .. n : st(i) = IF i = 1 THEN HeaderSize ELSE st(i - 1) + Length(ds[i - 1]) + 1
  BY StartSteps
<1>2. HeaderSize \in Nat
  BY SizesAssumption
<1> HIDE DEF st
<1>3. 0 \in T
  <2>1. 0 + 1 \in 1 .. n => st(0 + 1) = HeaderSize
    BY <1>1
  <2>2. 1 .. 0 = {}
    OBVIOUS
  <2> QED BY <1>2, <2>1, <2>2
<1>4. \A k \in T : k + 1 \in T
  <2>1. TAKE k \in T
  <2>2. k \in Nat
    OBVIOUS
  <2>3. SUFFICES ASSUME k + 1 + 1 \in 1 .. n
                 PROVE  /\ st(k + 1 + 1) \in Nat
                        /\ \A i \in 1 .. k + 1 : st(i) \in Nat /\ st(i) + Length(ds[i]) < st(k + 1 + 1)
    BY <2>2
  <2>4. k + 1 \in 1 .. n /\ k + 1 + 1 # 1 /\ (k + 1 + 1) - 1 = k + 1
    BY <2>2, <2>3
  <2>5. /\ st(k + 1) \in Nat
        /\ \A i \in 1 .. k : st(i) \in Nat /\ st(i) + Length(ds[i]) < st(k + 1)
    BY <2>4
  <2>6. st(k + 1 + 1) = st(k + 1) + Length(ds[k + 1]) + 1
    BY <1>1, <2>3, <2>4
  <2>7. \A i \in 1 .. k + 1 : i \in 1 .. k \/ i = k + 1
    BY <2>2
  <2> HIDE DEF T
  <2>8. st(k + 1 + 1) \in Nat /\ st(k + 1) < st(k + 1 + 1) /\ st(k + 1) + Length(ds[k + 1]) < st(k + 1 + 1)
    BY <2>5, <2>6, LengthType
  <2>9. ASSUME NEW i \in 1 .. k + 1 PROVE st(i) \in Nat /\ st(i) + Length(ds[i]) < st(k + 1 + 1)
    <3>1. Length(ds[i]) \in Nat
      BY LengthType
    <3>2. CASE i \in 1 .. k
      BY <2>5, <2>8, <3>1, <3>2
    <3>3. CASE i = k + 1
      BY <2>5, <2>8, <3>3
    <3> QED BY <2>7, <3>2, <3>3
  <2> QED BY <2>8, <2>9
<1> HIDE DEF T
<1>5. T = Nat
  <2>1. T \subseteq Nat
    BY DEF T
  <2> QED BY <1>3, <1>4, <2>1, FromFirst
<1>6. ASSUME NEW k \in 1 .. n
      PROVE  st(k) \in Nat /\ \A i \in 1 .. n : i < k => st(i) + Length(ds[i]) < st(k)
  <2>1. k - 1 \in Nat /\ (k - 1) + 1 = k
    OBVIOUS
  <2>2. st(k) \in Nat /\ \A i \in 1 .. k - 1 : st(i) + Length(ds[i]) < st(k)
    <3>1. k - 1 \in T
      BY <1>5, <2>1
    <3>2. (k - 1) + 1 \in 1 .. n
      BY <2>1
    <3>3. /\ st((k - 1) + 1) \in Nat
          /\ \A i \in 1 .. k - 1 : st(i) + Length(ds[i]) < st((k - 1) + 1)
      BY <3>1, <3>2 DEF T
    <3> QED BY <2>1, <3>3
  <2>3. \A i \in 1 .. n : i < k => i \in 1 .. k - 1
    <3>1. n \in Nat
      OBVIOUS
    <3> HIDE DEF n
    <3> QED BY <3>1
  <2> QED BY <2>2, <2>3
<1> QED BY <1>6 DEF st

\* A set of positions that holds those before each of its own is 1 .. k.
LEMMA Prefix ==
  ASSUME NEW n \in Nat, NEW T, T \subseteq 1 .. n,
         \A k \in T : \A i \in 1 .. n : i < k => i \in T
  PROVE  \E k \in 0 .. n : T = 1 .. k
<1> DEFINE O == (1 .. n + 1) \ T
<1>1. n + 1 \in O /\ O \subseteq Nat
  OBVIOUS
<1>2. PICK m \in O : \A k \in O : m <= k
  <2> HIDE DEF O
  <2> QED BY <1>1, Least
<1>3. m \in 1 .. n + 1 /\ m \notin T /\ m - 1 \in 0 .. n
  BY <1>2
<1>4. \A i \in 1 .. m - 1 : i \in T
  <2>1. \A i \in 1 .. m - 1 : i \in 1 .. n + 1 /\ ~ (m <= i)
    BY <1>3
  <2> QED BY <1>2, <2>1
<1>5. \A i \in T : i \in 1 .. m - 1
  <2> SUFFICES ASSUME NEW i \in T, ~ (i \in 1 .. m - 1) PROVE FALSE
    OBVIOUS
  <2>1. i \in 1 .. n /\ (m < i \/ m = i)
    BY <1>3
  <2>2. m < i => m \in 1 .. n
    BY <1>3, <2>1
  <2> QED BY <1>3, <2>1, <2>2
<1>6. T = 1 .. m - 1
  BY <1>4, <1>5
<1> QED BY <1>3, <1>6

LEMMA StoredType ==
  ASSUME NEW ds \in Seq(Nat)
  PROVE  Stored(ds) \in Seq(Nat)
<1> DEFINE n == Len(ds)
           T == {k \in DOMAIN ds : Room(ds, k) > 0}
           d(i) == IF Room(ds, i) >= Length(ds[i]) THEN ds[i] ELSE Cut(ds[i], Length(ds[i]) - Room(ds, i))
<1>1. n \in Nat /\ DOMAIN ds = 1 .. n /\ \A i \in 1 .. n : ds[i] \in Nat
  BY LenProperties, ElementOfSeq
<1>2. \A i \in 1 .. n : Starts(ds)[i] \in Nat
  BY <1>1, StartsIncrease
<1> DEFINE st(i) == Starts(ds)[i]
<1>3. \A i \in 1 .. n : \A k \in 1 .. n : i < k => st(i) + Length(ds[i]) < st(k)
  BY <1>1, StartsIncrease
<1>4. \A i \in 1 .. n : Room(ds, i) \in Int
  BY <1>2, SizesAssumption DEF Room
<1>5. \A k \in T : \A i \in 1 .. n : i < k => i \in T
  <2> SUFFICES ASSUME NEW k \in T, NEW i \in 1 .. n, i < k PROVE Room(ds, i) > 0
    BY <1>1
  <2>1. k \in 1 .. n /\ Room(ds, k) > 0
    BY <1>1
  <2>2. Starts(ds)[i] + Length(ds[i]) < Starts(ds)[k] /\ Length(ds[i]) \in Nat
    BY <1>3, <2>1, LengthType
  <2>3. Starts(ds)[i] \in Nat /\ Starts(ds)[k] \in Nat
    BY <1>2, <2>1
  <2> QED BY SMTT(30), <2>1, <2>2, <2>3, SizesAssumption DEF Room
<1>6. T \subseteq 1 .. n
  BY <1>1
<1>7. ASSUME NEW i \in T PROVE d(i) \in Nat
  <2>1. i \in 1 .. n /\ ds[i] \in Nat /\ Room(ds, i) \in Int /\ Room(ds, i) > 0 /\ Length(ds[i]) \in 1 .. 5
    BY <1>1, <1>4, LengthType
  <2>2. CASE Room(ds, i) >= Length(ds[i])
    BY <2>1, <2>2
  <2>3. CASE ~ (Room(ds, i) >= Length(ds[i]))
    <3>1. Length(ds[i]) - Room(ds, i) \in {1, 2, 3, 4}
      BY <2>1, <2>3
    <3>2. \A x \in Nat : \A k \in {1, 2, 3, 4} : Cut(x, k) \in Nat
      BY SMTT(30) DEF Cut
    <3> HIDE DEF T
    <3> QED BY <2>1, <2>3, <3>1, <3>2
  <2> QED BY <2>2, <2>3
<1>8. Stored(ds) = [i \in T |-> d(i)]
  BY DEF Stored
<1> HIDE DEF T, d
<1>9. PICK k \in 0 .. n : T = 1 .. k
  BY <1>1, <1>5, <1>6, Prefix
<1>10. Stored(ds) = [i \in 1 .. k |-> d(i)] /\ \A i \in 1 .. k : d(i) \in Nat
  BY <1>7, <1>8, <1>9
<1> QED BY <1>1, <1>10

LEMMA RawType ==
  ASSUME NEW ds \in Seq(Nat), NEW beyond \in Nat
  PROVE  sendRaw(ds, beyond) \in Seq(Writes)
<1> DEFINE n == (Len(ds) + 1) \div 2
           at(i) == IF i <= Len(ds) THEN ds[i] ELSE beyond
           items == [i \in 1 .. n |-> Item(1, at(2 * i - 1), at(2 * i))]
<1>1. Len(ds) \in Nat /\ n \in Nat /\ \A i \in 1 .. Len(ds) : ds[i] \in Nat
  BY LenProperties, ElementOfSeq
<1>2. \A i \in Nat : i > 0 => at(i) \in Nat
  BY <1>1
<1>3. \A i \in 1 .. n : 2 * i - 1 \in Nat /\ 2 * i - 1 > 0 /\ 2 * i \in Nat /\ 2 * i > 0
  BY <1>1
<1>4. CASE ds = << >>
  BY <1>4, EmptySeq DEF sendRaw
<1>5. CASE ds # << >>
  <2>1. sendRaw(ds, beyond) = Write(items)
    BY <1>5 DEF sendRaw
  <2> HIDE DEF at
  <2>2. \A i \in 1 .. n : Item(1, at(2 * i - 1), at(2 * i)) \in Items
    BY <1>2, <1>3, ItemType
  <2> HIDE DEF n
  <2>3. items \in Seq(Items)
    BY <1>1, <2>2
  <2> HIDE DEF items
  <2>4. Write(items) \in Seq(Writes)
    BY <2>3 DEF Write, Writes
  <2> QED BY <2>1, <2>4
<1> QED BY <1>4, <1>5

----------------------------------------------------------------------------
(* The transmit task.                                                      *)

ValidJob(j) ==
  \/ j.kind = "code" /\ j.protocol \in Protocols /\ j.code \in Codes
  \/ j.kind = "learned" /\ j.durations \in Captures /\ j.frequency = 38000
  \/ j.kind = "message" /\ j.durations \in Captures /\ j.frequency \in {36000, 40000}

\* What a job may write; its calls around the writes.
Asked(j, ops) ==
  \/ /\ j.kind = "code"
     /\ \E beyond \in {"modulo", "zero"} :
          SendCommand(j.protocol, Data(j.code, beyond))
            = Nested(j.protocol, CarrierOf(j)[1], CarrierOf(j)[2], ops)
  \/ /\ j.kind = "learned"
     /\ \E beyond \in {0, 560} : ops = sendRaw(Stored(j.durations), beyond)
  \/ /\ j.kind = "message"
     /\ \E beyond \in {0, 560} : ops = sendRaw(j.durations, beyond)

Free == {Uninstall, Uninstall \o Uninstall}

\* The calls td are still to be made for the writes ops on the carrier c.
Opening(c, ops, td, ch, ar) ==
  /\ \/ \E down \in Free : td = Install(c) \o (ops \o down)
     \/ td = Install(c) \o (Install(c) \o (ops \o (Uninstall \o Uninstall)))
  /\ ch \in {Released, c}
  /\ ar = << >>
Sending(c, ops, td, ch, ar) ==
  \E a, b \in Seq(Writes), down \in Free :
    ops = a \o b /\ td = b \o down /\ ch = c /\ ar = Modulated(c, Sent(a))
Closing(c, ops, td, ch, ar) ==
  td \in {<< >>, Uninstall} /\ ch = Released /\ ar = Modulated(c, Sent(ops))
Progress(c, ops, td, ch, ar) ==
  Opening(c, ops, td, ch, ar) \/ Sending(c, ops, td, ch, ar) \/ Closing(c, ops, td, ch, ar)

\* The inductive invariant: the LED has sent what the calls made so far write.
Track ==
  \/ job = NoJob /\ todo = << >> /\ channel = Released /\ air = << >>
  \/ /\ ValidJob(job)
     /\ \E ops \in Seq(Writes) :
          Asked(job, ops) /\ Progress(CarrierOf(job), ops, todo, channel, air)

Operations ==
  [op : {"install"}, carrier : Carriers] \cup Writes \cup {[op |-> "uninstall"]}

LEMMA OperationTypes ==
  /\ \A c \in Carriers : Install(c) \in Seq(Operations)
  /\ Uninstall \in Seq(Operations)
  /\ \A ops \in Seq(Writes) : ops \in Seq(Operations)
<1>1. ASSUME NEW c \in Carriers PROVE Install(c) \in Seq(Operations)
  <2>1. [op |-> "install", carrier |-> c] \in [op : {"install"}, carrier : Carriers]
    OBVIOUS
  <2>2. [op |-> "install", carrier |-> c] \in Operations
    BY <2>1 DEF Operations
  <2> QED BY <2>2 DEF Install
<1>2. Uninstall \in Seq(Operations)
  <2>1. [op |-> "uninstall"] \in Operations
    BY DEF Operations
  <2> QED BY <2>1 DEF Uninstall
<1>3. ASSUME NEW ops \in Seq(Writes) PROVE ops \in Seq(Operations)
  <2>1. Len(ops) \in Nat /\ ops = [i \in 1 .. Len(ops) |-> ops[i]]
    BY LenProperties
  <2>2. \A i \in 1 .. Len(ops) : ops[i] \in Operations
    BY ElementOfSeq DEF Operations
  <2> QED BY <2>1, <2>2
<1> QED BY <1>1, <1>2, <1>3

LEMMA ValidCarrier ==
  ASSUME NEW j, ValidJob(j)
  PROVE  CarrierOf(j) \in Carriers /\ CarrierOf(j) = <<CarrierOf(j)[1], CarrierOf(j)[2]>>
<1> DEFINE ok(c) == c \in Carriers /\ c = <<c[1], c[2]>>
<1>1. \A f \in {36000, 38000, 39000, 40000}, d \in {33, 40, 50} : ok(<<f, d>>)
  BY DEF Carriers
<1>2. CASE j.kind = "code"
  <2>1. CASE j.protocol \notin Unusual
    <3>1. CarrierOf(j) = <<38000, 50>>
      BY <1>2, <2>1, UsualCarrier
    <3> HIDE DEF ok
    <3>2. ok(CarrierOf(j))
      BY <1>1, <3>1
    <3> QED BY <3>2 DEF ok
  <2>2. CASE j.protocol \in Unusual
    <3>1. CarrierOf(j) \in {<<36000, 33>>, <<36000, 50>>, <<39000, 50>>, <<38000, 40>>, <<40000, 33>>}
      BY <1>2, <2>2, UnusualCarrier DEF Unusual
    <3> HIDE DEF ok
    <3>2. ok(CarrierOf(j))
      BY <1>1, <3>1
    <3> QED BY <3>2 DEF ok
  <2> QED BY <2>1, <2>2
<1>3. CASE j.kind # "code"
  <2>1. CarrierOf(j) = <<j.frequency, 50>>
    BY <1>3 DEF CarrierOf
  <2>2. j.frequency \in {36000, 38000, 40000}
    BY <1>3 DEF ValidJob
  <2> HIDE DEF ok
  <2>3. ok(CarrierOf(j))
    BY <1>1, <2>1, <2>2
  <2> QED BY <2>3 DEF ok
<1> QED BY <1>2, <1>3

\* An object opens the channel before its writes, whatever is around it.
LEMMA ObjectOpens ==
  ASSUME NEW c \in Carriers, c = <<c[1], c[2]>>, NEW ops \in Seq(Writes), NEW p
  PROVE  \A ch \in {Released, c} : Opening(c, ops, Nested(p, c[1], c[2], ops), ch, << >>)
<1> DEFINE I == Install(c)
           U == Uninstall
<1>1. I \in Seq(Operations) /\ U \in Seq(Operations) /\ ops \in Seq(Operations)
  BY OperationTypes
<1>2. \A o : Object(c[1], c[2], o) = (I \o o) \o U
  BY DEF Object
<1> HIDE DEF I, U
<1>3. /\ ops \o U \in Seq(Operations) /\ I \o ops \in Seq(Operations)
      /\ (I \o ops) \o U \in Seq(Operations) /\ I \o (ops \o U) \in Seq(Operations)
      /\ U \o U \in Seq(Operations)
      /\ ops \o (U \o U) \in Seq(Operations)
  BY <1>1, ConcatProperties
<1>4. (I \o ops) \o U = I \o (ops \o U)
  BY SMTT(30), <1>1, Associative
<1>5. (ops \o U) \o U = ops \o (U \o U)
  BY SMTT(30), <1>1, Associative
<1>6. (I \o (ops \o U)) \o U = I \o ((ops \o U) \o U)
  <2> DEFINE v == ops \o U
  <2>1. v \in Seq(Operations)
    BY <1>3
  <2> HIDE DEF v
  <2>2. (I \o v) \o U = I \o (v \o U)
    BY <1>1, <2>1, Associative
  <2> QED BY <2>2 DEF v
<1>7. (I \o (I \o (ops \o U))) \o U = I \o ((I \o (ops \o U)) \o U)
  <2> DEFINE v == I \o (ops \o U)
  <2>1. v \in Seq(Operations)
    BY <1>3
  <2> HIDE DEF v
  <2>2. (I \o v) \o U = I \o (v \o U)
    BY <1>1, <2>1, Associative
  <2> QED BY <2>2 DEF v
<1>8. Object(c[1], c[2], ops) = I \o (ops \o U)
  BY <1>2, <1>4
<1>9. Object(c[1], c[2], Object(c[1], c[2], ops)) = I \o (I \o (ops \o (U \o U)))
  BY <1>2, <1>4, <1>5, <1>6, <1>7
<1> QED BY <1>8, <1>9 DEF Opening, Nested, Free, I, U

LEMMA FirstCall ==
  ASSUME NEW x \in Operations, NEW s \in Seq(Operations)
  PROVE  <<x>> \o s # << >> /\ Head(<<x>> \o s) = x /\ Tail(<<x>> \o s) = s
<1>1. <<x>> \in Seq(Operations) /\ Len(<<x>>) = 1
  OBVIOUS
<1>2. /\ <<x>> \o s \in Seq(Operations) /\ Len(<<x>> \o s) = 1 + Len(s)
      /\ \A i \in 1 .. 1 + Len(s) : (<<x>> \o s)[i] = IF i <= 1 THEN <<x>>[i] ELSE s[i - 1]
  BY <1>1, ConcatProperties
<1> DEFINE u == <<x>> \o s
<1> HIDE DEF u
<1>3. u \in Seq(Operations) /\ Len(u) = 1 + Len(s) /\ Len(s) \in Nat
      /\ \A i \in 1 .. 1 + Len(s) : u[i] = IF i <= 1 THEN x ELSE s[i - 1]
  BY <1>2, LenProperties DEF u
<1>4. u # << >>
  BY <1>3, EmptySeq
<1>5. u[1] = x /\ \A i \in 1 .. Len(s) : u[i + 1] = s[i]
  BY <1>3
<1>6. Head(u) = u[1] /\ Tail(u) \in Seq(Operations) /\ Len(Tail(u)) = Len(s)
      /\ \A i \in 1 .. Len(Tail(u)) : Tail(u)[i] = u[i + 1]
  BY <1>3, <1>4, HeadTailProperties
<1>7. Tail(u) = s
  BY <1>3, <1>5, <1>6, SeqEqual
<1> QED BY <1>4, <1>5, <1>6, <1>7 DEF u

LEMMA HeadTailConcat ==
  ASSUME NEW S, NEW b \in Seq(S), b # << >>
  PROVE  Head(b) \in S /\ Tail(b) \in Seq(S) /\ b = <<Head(b)>> \o Tail(b)
<1>1. /\ Head(b) \in S /\ Tail(b) \in Seq(S) /\ Len(Tail(b)) = Len(b) - 1
      /\ \A i \in 1 .. Len(Tail(b)) : Tail(b)[i] = b[i + 1]
  BY HeadTailProperties
<1>2. Head(b) = b[1] /\ Len(b) \in Nat
  BY LenProperties
<1> DEFINE x == <<Head(b)>>
           t == Tail(b)
<1>3. x \in Seq(S) /\ Len(x) = 1 /\ x[1] = b[1]
  BY <1>1, <1>2
<1> HIDE DEF x, t
<1>4. t \in Seq(S) /\ Len(b) = Len(x) + Len(t)
  BY <1>1, <1>2, <1>3, LenProperties DEF t
<1>5. \A i \in 1 .. Len(x) : b[i] = x[i]
  BY <1>3
<1>6. \A i \in 1 .. Len(t) : b[Len(x) + i] = t[i]
  BY <1>1, <1>3 DEF t
<1>7. b = x \o t
  BY <1>3, <1>4, <1>5, <1>6, IsConcat
<1> QED BY <1>1, <1>7 DEF x, t

LEMMA FirstWrite ==
  ASSUME NEW b \in Seq(Writes), b # << >>, NEW down \in Free
  PROVE  /\ b \o down # << >> /\ Head(b \o down) = Head(b) /\ Tail(b \o down) = Tail(b) \o down
         /\ Head(b) \in Writes /\ Tail(b) \in Seq(Writes) /\ b = <<Head(b)>> \o Tail(b)
<1>1. Head(b) \in Writes /\ Tail(b) \in Seq(Writes) /\ b = <<Head(b)>> \o Tail(b)
  BY HeadTailConcat
<1>2. Head(b) \in Operations /\ <<Head(b)>> \in Seq(Operations) /\ Tail(b) \in Seq(Operations)
  BY <1>1, OperationTypes DEF Operations
<1>3. down \in Seq(Operations)
  BY OperationTypes, ConcatProperties DEF Free
<1>4. b \o down = <<Head(b)>> \o (Tail(b) \o down)
  BY <1>1, <1>2, <1>3, Associative
<1>5. Tail(b) \o down \in Seq(Operations)
  BY <1>2, <1>3, ConcatProperties
<1> QED BY <1>1, <1>2, <1>4, <1>5, FirstCall

LEMMA FirstFree ==
  /\ Uninstall # << >> /\ Head(Uninstall).op = "uninstall" /\ Tail(Uninstall) = << >>
  /\ \A down \in Free : /\ down # << >> /\ Head(down).op = "uninstall" /\ Tail(down) \in {<< >>, Uninstall}
                        /\ \A b \in Seq(Writes) : b = << >> => b \o down = down
<1>1. [op |-> "uninstall"] \in Operations /\ << >> \in Seq(Operations) /\ Uninstall \in Seq(Operations)
  BY OperationTypes, EmptySeq DEF Operations
<1>2. Uninstall # << >> /\ Head(Uninstall).op = "uninstall" /\ Tail(Uninstall) = << >>
  BY DEF Uninstall
<1>3. /\ Uninstall \o Uninstall # << >> /\ Head(Uninstall \o Uninstall).op = "uninstall"
      /\ Tail(Uninstall \o Uninstall) = Uninstall
  <2> DEFINE x == [op |-> "uninstall"]
             v == Uninstall
  <2>1. x \in Operations /\ v \in Seq(Operations) /\ Uninstall = <<x>> /\ x.op = "uninstall"
    BY <1>1 DEF Uninstall
  <2> HIDE DEF x, v
  <2>2. <<x>> \o v # << >> /\ Head(<<x>> \o v) = x /\ Tail(<<x>> \o v) = v
    BY <2>1, FirstCall
  <2> QED BY <2>1, <2>2 DEF v
<1>4. \A down \in Free : down \in Seq(Operations)
  BY <1>1, ConcatProperties DEF Free
<1>5. \A down \in Free : << >> \o down = down
  BY <1>4, ConcatEmptySeq
<1> QED BY <1>2, <1>3, <1>5 DEF Free

LEMMA OpeningStep ==
  ASSUME NEW c \in Carriers, NEW ops \in Seq(Writes), NEW td, NEW ch, NEW ar,
         Opening(c, ops, td, ch, ar)
  PROVE  /\ td # << >> /\ Head(td) = [op |-> "install", carrier |-> c]
         /\ Opening(c, ops, Tail(td), c, ar) \/ Sending(c, ops, Tail(td), c, ar)
<1> DEFINE x == [op |-> "install", carrier |-> c]
<1>1. x \in Operations
  <2>1. x \in [op : {"install"}, carrier : Carriers]
    OBVIOUS
  <2> QED BY <2>1 DEF Operations
<1>2. Install(c) = <<x>>
  BY DEF Install
<1>3. /\ Install(c) \in Seq(Operations) /\ ops \in Seq(Operations)
      /\ Uninstall \o Uninstall \in Seq(Operations)
      /\ \A down \in Free : down \in Seq(Operations)
  BY OperationTypes, ConcatProperties DEF Free
<1>4. \A down \in Free : ops \o down \in Seq(Operations)
  BY <1>3, ConcatProperties
<1> HIDE DEF x
<1>5. CASE \E down \in Free : td = Install(c) \o (ops \o down)
  <2>1. PICK down \in Free : td = Install(c) \o (ops \o down)
    BY <1>5
  <2>2. td # << >> /\ Head(td) = x /\ Tail(td) = ops \o down
    <3> DEFINE v == ops \o down
    <3>1. v \in Seq(Operations) /\ td = <<x>> \o v
      BY <1>2, <1>4, <2>1
    <3> HIDE DEF v
    <3>2. td # << >> /\ Head(td) = x /\ Tail(td) = v
      BY <1>1, <3>1, FirstCall
    <3> QED BY <3>2 DEF v
  <2>3. << >> \in Seq(Writes) /\ ops = << >> \o ops
    BY ConcatEmptySeq, EmptySeq
  <2>4. Modulated(c, Sent(<< >>)) = << >>
    <3>1. Modulated(c, << >>) = << >>
      BY DEF Modulated
    <3> QED BY <3>1, SentNone
  <2>5. Sending(c, ops, Tail(td), c, ar)
    <3>1. ar = << >>
      BY DEF Opening
    <3> QED BY <2>2, <2>3, <2>4, <3>1 DEF Sending
  <2> QED BY <2>2, <2>5 DEF x
<1>6. CASE td = Install(c) \o (Install(c) \o (ops \o (Uninstall \o Uninstall)))
  <2> DEFINE v == Install(c) \o (ops \o (Uninstall \o Uninstall))
  <2>1. v \in Seq(Operations)
    BY <1>3, <1>4, ConcatProperties DEF Free
  <2>2. td = <<x>> \o v
    BY <1>2, <1>6
  <2>3. Uninstall \o Uninstall \in Free /\ ar = << >>
    BY DEF Free, Opening
  <2>4. Opening(c, ops, v, c, ar)
    BY <2>3 DEF Opening
  <2> HIDE DEF v
  <2>5. td # << >> /\ Head(td) = x /\ Tail(td) = v
    BY <1>1, <2>1, <2>2, FirstCall
  <2> QED BY <2>4, <2>5 DEF x
<1> QED BY <1>5, <1>6 DEF Opening

LEMMA WritesAssociative == \A x, y, z \in Seq(Writes) : (x \o y) \o z = x \o (y \o z)
BY ConcatAssociative

LEMMA SendingStep ==
  ASSUME NEW c \in Carriers, NEW ops \in Seq(Writes), NEW td, NEW ch, NEW ar,
         Sending(c, ops, td, ch, ar)
  PROVE  /\ td # << >> /\ ch = c
         /\ \/ /\ Head(td).op = "write"
               /\ Sending(c, ops, Tail(td), c, ar \o Modulated(c, Transmitted(Head(td).items)))
            \/ /\ Head(td).op = "uninstall"
               /\ Closing(c, ops, Tail(td), Released, ar)
<1>1. PICK a \in Seq(Writes), b \in Seq(Writes), down \in Free :
        ops = a \o b /\ td = b \o down /\ ch = c /\ ar = Modulated(c, Sent(a))
  BY DEF Sending
<1>2. CASE b = << >>
  <2>1. td = down
    BY <1>1, <1>2, FirstFree
  <2>2. ops = a
    BY <1>1, <1>2, ConcatEmptySeq
  <2>3. td # << >> /\ Head(td).op = "uninstall" /\ Tail(td) \in {<< >>, Uninstall}
    BY <2>1, FirstFree
  <2> QED BY <1>1, <2>2, <2>3 DEF Closing
<1>3. CASE b # << >>
  <2> DEFINE w == Head(b)
             t == Tail(b)
  <2>1. /\ td # << >> /\ Head(td) = w /\ Tail(td) = t \o down
        /\ w \in Writes /\ t \in Seq(Writes) /\ b = <<w>> \o t
    BY <1>1, <1>3, FirstWrite
  <2> HIDE DEF w, t
  <2>2. <<w>> \in Seq(Writes) /\ w.op = "write" /\ w.items \in Seq(Items)
    BY <2>1 DEF Writes
  <2>3. a \o <<w>> \in Seq(Writes) /\ ops = (a \o <<w>>) \o t
    <3> DEFINE v == <<w>>
    <3>1. v \in Seq(Writes) /\ ops = a \o (v \o t)
      BY <1>1, <2>1, <2>2
    <3> HIDE DEF v
    <3>2. (a \o v) \o t = a \o (v \o t)
      <4>1. a \in Seq(Writes) /\ v \in Seq(Writes) /\ t \in Seq(Writes)
        BY <2>1, <3>1
      <4> QED BY <4>1, WritesAssociative
    <3>3. a \o v \in Seq(Writes)
      BY <3>1, ConcatProperties
    <3> QED BY <3>1, <3>2, <3>3 DEF v
  <2>4. Sent(a \o <<w>>) = Sent(a) \o Transmitted(w.items)
    BY Zenon, <2>1, <2>2, SentConcat, SentOne
  <2>5. Modulated(c, Sent(a \o <<w>>)) = ar \o Modulated(c, Transmitted(w.items))
    <3>1. Sent(a) \in Seq(Pulses) /\ Transmitted(w.items) \in Seq(Pulses)
      BY <2>2, SentType, TransmittedType
    <3>2. Modulated(c, Sent(a) \o Transmitted(w.items))
            = Modulated(c, Sent(a)) \o Modulated(c, Transmitted(w.items))
      BY <3>1, ModulatedConcat
    <3> QED BY <1>1, <2>4, <3>2
  <2>6. Sending(c, ops, Tail(td), c, ar \o Modulated(c, Transmitted(Head(td).items)))
    BY <2>1, <2>3, <2>5 DEF Sending
  <2> QED BY <1>1, <2>1, <2>2, <2>6
<1> QED BY <1>2, <1>3

LEMMA ClosingStep ==
  ASSUME NEW c, NEW ops, NEW td, NEW ch, NEW ar, Closing(c, ops, td, ch, ar), td # << >>
  PROVE  Head(td).op = "uninstall" /\ Closing(c, ops, Tail(td), Released, ar)
<1>1. td = Uninstall /\ Tail(td) = << >>
  BY FirstFree DEF Closing
<1> QED BY <1>1, FirstFree DEF Closing

LEMMA IdleIsClosed ==
  ASSUME NEW c \in Carriers, NEW ops \in Seq(Writes), NEW td, NEW ch, NEW ar,
         Progress(c, ops, td, ch, ar), td = << >>
  PROVE  Closing(c, ops, td, ch, ar)
BY OpeningStep, SendingStep DEF Progress

LEMMA ReleasedIsNoCarrier == Released \notin Carriers
BY DEF Released, Carriers

----------------------------------------------------------------------------
(* The steps.                                                              *)

LEMMA InitTrack == Init => Track
BY DEF Init, Track

LEMMA BeginTrack ==
  ASSUME Track, NEW j, ValidJob(j), NEW ops \in Seq(Writes), Asked(j, ops), NEW calls,
         Opening(CarrierOf(j), ops, calls, Released, << >>), Begin(j, calls)
  PROVE  Track'
<1>1. todo = << >> /\ job' = j /\ todo' = calls /\ air' = << >> /\ channel' = channel
  BY DEF Begin
<1>2. channel = Released
  <2>1. CASE job = NoJob /\ todo = << >> /\ channel = Released /\ air = << >>
    BY <2>1
  <2>2. CASE /\ ValidJob(job)
             /\ \E o \in Seq(Writes) : Asked(job, o) /\ Progress(CarrierOf(job), o, todo, channel, air)
    <3>1. PICK o \in Seq(Writes) : Progress(CarrierOf(job), o, todo, channel, air)
      BY <2>2
    <3>2. CarrierOf(job) \in Carriers
      BY <2>2, ValidCarrier
    <3>3. Closing(CarrierOf(job), o, todo, channel, air)
      BY <1>1, <3>1, <3>2, IdleIsClosed
    <3> QED BY <3>3 DEF Closing
  <2> QED BY <2>1, <2>2 DEF Track
<1>3. Progress(CarrierOf(job'), ops, todo', channel', air')
  BY <1>1, <1>2 DEF Progress
<1>4. ValidJob(job') /\ Asked(job', ops)
  BY <1>1
<1> QED BY <1>3, <1>4 DEF Track

LEMMA CodeTrack == Track /\ SendCode => Track'
<1> SUFFICES ASSUME Track, SendCode PROVE Track'
  OBVIOUS
<1>1. PICK p \in Protocols, k \in Codes, beyond \in {"modulo", "zero"} :
        Begin([kind |-> "code", protocol |-> p, code |-> k], SendCommand(p, Data(k, beyond)))
  BY DEF SendCode
<1> DEFINE j == [kind |-> "code", protocol |-> p, code |-> k]
           word == Data(k, beyond)
<1>2. j.kind = "code" /\ j.protocol = p /\ j.code = k
  OBVIOUS
<1> HIDE DEF j
<1>3. ValidJob(j)
  BY <1>2 DEF ValidJob
<1>4. Data(j.code, beyond) = word
  BY <1>2
<1> HIDE DEF word
<1>5. OneObject(j, word)
  BY <1>2, CommandShape
<1>6. PICK f, d, ops : Written(j, word, f, d, ops)
  BY <1>5 DEF OneObject
<1>7. /\ SendCommand(p, word) = Nested(p, f, d, ops)
      /\ CarrierOf(j) = <<f, d>> /\ ops \in Seq(Writes)
  BY <1>2, <1>6 DEF Written
<1>8. /\ CarrierOf(j) \in Carriers /\ CarrierOf(j) = <<CarrierOf(j)[1], CarrierOf(j)[2]>>
      /\ CarrierOf(j)[1] = f /\ CarrierOf(j)[2] = d
  BY <1>3, <1>7, ValidCarrier
<1>9. SendCommand(p, word) = Nested(p, CarrierOf(j)[1], CarrierOf(j)[2], ops)
  BY <1>7, <1>8
<1>10. Opening(CarrierOf(j), ops, SendCommand(p, word), Released, << >>)
  <2> DEFINE c == CarrierOf(j)
  <2>1. c \in Carriers /\ c = <<c[1], c[2]>> /\ SendCommand(p, word) = Nested(p, c[1], c[2], ops)
    BY <1>8, <1>9
  <2> HIDE DEF c
  <2>2. Opening(c, ops, Nested(p, c[1], c[2], ops), Released, << >>)
    BY <1>7, <2>1, ObjectOpens
  <2> QED BY <2>1, <2>2 DEF c
<1>11. Asked(j, ops)
  BY <1>2, <1>4, <1>9 DEF Asked
<1>12. Begin(j, SendCommand(p, word))
  BY <1>1 DEF j, word
<1> QED BY <1>3, <1>7, <1>10, <1>11, <1>12, BeginTrack

LEMMA RawTrack ==
  ASSUME Track, NEW j, ValidJob(j), j.kind # "code", NEW ds \in Seq(Nat), NEW beyond \in {0, 560},
         Asked(j, sendRaw(ds, beyond)), Begin(j, SendRaw(ds, j.frequency, beyond))
  PROVE  Track'
<1> DEFINE c == CarrierOf(j)
           ops == sendRaw(ds, beyond)
<1>1. ops \in Seq(Writes)
  BY RawType
<1>2. c \in Carriers /\ c = <<c[1], c[2]>> /\ c = <<j.frequency, 50>>
  BY ValidCarrier DEF CarrierOf
<1> HIDE DEF ops
<1>3. SendRaw(ds, j.frequency, beyond) = Nested("NEC", j.frequency, 50, ops)
  BY DEF SendRaw, Nested, ops
<1> HIDE DEF c
<1>4. c[1] = j.frequency /\ c[2] = 50
  BY <1>2
<1>5. Opening(c, ops, Nested("NEC", c[1], c[2], ops), Released, << >>)
  BY SMTT(30), <1>1, <1>2, ObjectOpens
<1>6. Opening(c, ops, SendRaw(ds, j.frequency, beyond), Released, << >>)
  BY <1>3, <1>4, <1>5
<1> QED BY <1>1, <1>6, BeginTrack DEF c, ops

LEMMA CaptureType == \A ds \in Captures : ds \in Seq(Nat)
<1> SUFFICES ASSUME NEW ds \in Captures PROVE ds \in Seq(Nat)
  OBVIOUS
<1>1. ds \in Seq(UInt16)
  BY CapturesAssumption
<1>2. Len(ds) \in Nat /\ ds = [i \in 1 .. Len(ds) |-> ds[i]] /\ \A i \in 1 .. Len(ds) : ds[i] \in UInt16
  BY <1>1, LenProperties, ElementOfSeq
<1>3. \A d \in UInt16 : d \in Nat
  BY DEF UInt16
<1>4. \A i \in 1 .. Len(ds) : ds[i] \in Nat
  BY <1>2, <1>3
<1> QED BY <1>2, <1>4

LEMMA LearnedTrack == Track /\ SendLearned => Track'
<1> SUFFICES ASSUME Track, SendLearned PROVE Track'
  OBVIOUS
<1>1. PICK ds \in Captures, beyond \in {0, 560} :
        Begin([kind |-> "learned", durations |-> ds, frequency |-> 38000],
              SendRaw(Stored(ds), 38000, beyond))
  BY DEF SendLearned
<1> DEFINE j == [kind |-> "learned", durations |-> ds, frequency |-> 38000]
<1>2. j.kind = "learned" /\ j.durations = ds /\ j.frequency = 38000
  OBVIOUS
<1>3. Begin(j, SendRaw(Stored(ds), j.frequency, beyond))
  BY <1>1
<1> HIDE DEF j
<1>4. ValidJob(j) /\ j.kind # "code"
  BY <1>2 DEF ValidJob
<1>5. Asked(j, sendRaw(Stored(ds), beyond))
  BY <1>2 DEF Asked
<1>6. Stored(ds) \in Seq(Nat)
  BY CaptureType, StoredType
<1> QED BY <1>3, <1>4, <1>5, <1>6, RawTrack

LEMMA MessageTrack == Track /\ SendMessage => Track'
<1> SUFFICES ASSUME Track, SendMessage PROVE Track'
  OBVIOUS
<1>1. PICK ds \in Captures, f \in {36000, 40000}, beyond \in {0, 560} :
        Begin([kind |-> "message", durations |-> ds, frequency |-> f], SendRaw(ds, f, beyond))
  BY DEF SendMessage
<1> DEFINE j == [kind |-> "message", durations |-> ds, frequency |-> f]
<1>2. j.kind = "message" /\ j.durations = ds /\ j.frequency = f
  OBVIOUS
<1>3. Begin(j, SendRaw(ds, j.frequency, beyond))
  BY <1>1
<1> HIDE DEF j
<1>4. ValidJob(j) /\ j.kind # "code"
  BY <1>2 DEF ValidJob
<1>5. Asked(j, sendRaw(ds, beyond))
  BY <1>2 DEF Asked
<1>6. ds \in Seq(Nat)
  BY CaptureType
<1> QED BY <1>3, <1>4, <1>5, <1>6, RawTrack

LEMMA DriverTrack ==
  Track /\ (InstallTx \/ UninstallTx \/ WriteItems) => Track'
<1> SUFFICES ASSUME Track, InstallTx \/ UninstallTx \/ WriteItems PROVE Track'
  OBVIOUS
<1>1. todo # << >> /\ todo' = Tail(todo) /\ job' = job
  BY DEF InstallTx, UninstallTx, WriteItems, Calls
<1>2. /\ ValidJob(job)
      /\ \E o \in Seq(Writes) : Asked(job, o) /\ Progress(CarrierOf(job), o, todo, channel, air)
  BY <1>1 DEF Track
<1>3. PICK ops \in Seq(Writes) : Asked(job, ops) /\ Progress(CarrierOf(job), ops, todo, channel, air)
  BY <1>2
<1> DEFINE c == CarrierOf(job)
<1>4. c \in Carriers /\ c # Released
  BY <1>2, ValidCarrier, ReleasedIsNoCarrier
<1>5. SUFFICES Progress(c, ops, todo', channel', air')
  BY <1>1, <1>2, <1>3 DEF Track
<1> HIDE DEF c
<1>6. Progress(c, ops, todo, channel, air)
  BY <1>3 DEF c
<1>7. CASE Opening(c, ops, todo, channel, air)
  <2>1. /\ Head(todo) = [op |-> "install", carrier |-> c]
        /\ Opening(c, ops, Tail(todo), c, air) \/ Sending(c, ops, Tail(todo), c, air)
    BY <1>4, <1>7, OpeningStep
  <2>2. Head(todo).op = "install" /\ Head(todo).carrier = c
    BY <2>1
  <2>3. channel' = c /\ air' = air
    BY <2>2 DEF InstallTx, UninstallTx, WriteItems, Calls
  <2> QED BY <1>1, <2>1, <2>3 DEF Progress
<1>8. CASE Sending(c, ops, todo, channel, air)
  <2>1. /\ channel = c
        /\ \/ /\ Head(todo).op = "write"
              /\ Sending(c, ops, Tail(todo), c, air \o Modulated(c, Transmitted(Head(todo).items)))
           \/ /\ Head(todo).op = "uninstall"
              /\ Closing(c, ops, Tail(todo), Released, air)
    BY <1>4, <1>8, SendingStep
  <2>2. CASE Head(todo).op = "write"
    <3>1. channel' = channel /\ air' = air \o Modulated(channel, Transmitted(Head(todo).items))
      BY <1>4, <2>1, <2>2 DEF InstallTx, UninstallTx, WriteItems, Calls
    <3> QED BY <1>1, <2>1, <2>2, <3>1 DEF Progress
  <2>3. CASE Head(todo).op = "uninstall"
    <3>1. channel' = Released /\ air' = air
      BY <2>3 DEF InstallTx, UninstallTx, WriteItems, Calls
    <3> QED BY <1>1, <2>1, <2>3, <3>1 DEF Progress
  <2> QED BY <2>1, <2>2, <2>3
<1>9. CASE Closing(c, ops, todo, channel, air)
  <2>1. Head(todo).op = "uninstall" /\ Closing(c, ops, Tail(todo), Released, air)
    BY <1>1, <1>9, ClosingStep
  <2>2. channel' = Released /\ air' = air
    BY <2>1 DEF InstallTx, UninstallTx, WriteItems, Calls
  <2> QED BY <1>1, <2>1, <2>2 DEF Progress
<1> QED BY <1>6, <1>7, <1>8, <1>9 DEF Progress

\* In every state the LED has sent what the calls made so far write, and the
\* channel is the job's own (IrBlasterBase::SendCommand, ir_driver.c:204).
THEOREM Tracked == Spec => []Track
<1>1. Track /\ [Next]_vars => Track'
  <2> SUFFICES ASSUME Track, [Next]_vars PROVE Track'
    OBVIOUS
  <2>1. CASE SendCode
    BY <2>1, CodeTrack
  <2>2. CASE SendLearned
    BY <2>2, LearnedTrack
  <2>3. CASE SendMessage
    BY <2>3, MessageTrack
  <2>4. CASE InstallTx \/ UninstallTx \/ WriteItems
    BY <2>4, DriverTrack
  <2>5. CASE UNCHANGED vars
    BY <2>5 DEF vars, Track
  <2> QED BY <2>1, <2>2, <2>3, <2>4, <2>5 DEF Next
<1> QED BY InitTrack, <1>1, PTL DEF Spec

\* What Track says of the pulses in the air.
LEMMA TrackedAir ==
  ASSUME Track
  PROVE  /\ air \in Seq(Airs)
         /\ \A i \in 1 .. Len(air) : air[i].carrier = CarrierOf(job)
         /\ channel \in Carriers \cup {Released}
<1>1. CASE job = NoJob /\ todo = << >> /\ channel = Released /\ air = << >>
  BY <1>1, EmptySeq
<1>2. CASE /\ ValidJob(job)
           /\ \E o \in Seq(Writes) : Asked(job, o) /\ Progress(CarrierOf(job), o, todo, channel, air)
  <2>1. PICK o \in Seq(Writes) : Progress(CarrierOf(job), o, todo, channel, air)
    BY <1>2
  <2>2. CarrierOf(job) \in Carriers
    BY <1>2, ValidCarrier
  <2>3. channel \in Carriers \cup {Released}
    BY <2>1, <2>2 DEF Progress, Opening, Sending, Closing
  <2>4. air = << >> \/ \E s \in Seq(Pulses) : air = Modulated(CarrierOf(job), s)
    BY <2>1, SentType DEF Progress, Opening, Sending, Closing
  <2>5. CASE air = << >>
    BY <2>3, <2>5, EmptySeq
  <2>6. CASE \E s \in Seq(Pulses) : air = Modulated(CarrierOf(job), s)
    BY <2>2, <2>3, <2>6, ModulatedType
  <2> QED BY <2>4, <2>5, <2>6
<1> QED BY <1>1, <1>2 DEF Track

\* Every value of the state has its type: no pulse in the air is longer than its
\* 15-bit field, and none has a mark of 0 (ir_basic_mask_space, rmt_write_items).
THEOREM Typed == Spec => []TypeOK
<1>1. Track => TypeOK
  <2> SUFFICES ASSUME Track PROVE TypeOK
    OBVIOUS
  <2>1. channel \in Carriers \cup {Released} /\ \A i \in 1 .. Len(air) : air[i] \in Airs
    BY TrackedAir, ElementOfSeq
  <2>2. \A x \in Airs : x.first \in {0, 1} /\ x.d0 \in Shining /\ x.d1 \in UInt15 /\ x.carrier \in Carriers
    BY DEF Airs
  <2>3. \A i \in 1 .. Len(air) : /\ air[i].first \in {0, 1} /\ air[i].d0 \in Shining
                                 /\ air[i].d1 \in UInt15 /\ air[i].carrier \in Carriers
    BY <2>1, <2>2
  <2> QED BY <2>1, <2>3 DEF TypeOK, Shining
<1> QED BY <1>1, Tracked, PTL

\* Every pulse is on the protocol's carrier and the channel is free in the end,
\* for every protocol and whichever objects nest (IrBlasterBase::SendCommand,
\* Ir_Send's constructor and destructor).
THEOREM CarrierKept == Spec => []OnCarrier
<1>1. Track => OnCarrier
  <2> SUFFICES ASSUME Track PROVE OnCarrier
    OBVIOUS
  <2>1. \A i \in 1 .. Len(air) : air[i].carrier = CarrierOf(job)
    BY TrackedAir
  <2>2. CASE job = NoJob /\ todo = << >> /\ channel = Released /\ air = << >>
    BY <2>1, <2>2 DEF OnCarrier
  <2>3. CASE /\ ValidJob(job)
             /\ \E o \in Seq(Writes) : Asked(job, o) /\ Progress(CarrierOf(job), o, todo, channel, air)
    <3>1. PICK o \in Seq(Writes) : Progress(CarrierOf(job), o, todo, channel, air)
      BY <2>3
    <3> DEFINE c == CarrierOf(job)
    <3>2. c \in Carriers /\ c # Released
      BY <2>3, ValidCarrier, ReleasedIsNoCarrier
    <3> HIDE DEF c
    <3>3. Progress(c, o, todo, channel, air)
      BY <3>1 DEF c
    <3>4. todo = << >> => channel = Released
      BY <3>2, <3>3, IdleIsClosed DEF Closing
    <3>5. ASSUME NEW i \in 1 .. Len(todo), todo[i].op = "write"
          PROVE  channel # Released \/ \E k \in 1 .. i : todo[k].op = "install"
      <4>1. CASE Opening(c, o, todo, channel, air)
        <5>1. todo[1].op = "install"
          BY <3>2, <4>1, OpeningStep
        <5> QED BY <5>1
      <4>2. CASE Sending(c, o, todo, channel, air)
        BY <3>2, <4>2, SendingStep
      <4>3. CASE Closing(c, o, todo, channel, air)
        <5>1. todo = << >> \/ todo = Uninstall
          BY <4>3 DEF Closing
        <5>2. todo # << >>
          BY <3>5
        <5>3. todo[i].op = "uninstall"
          BY <3>5, <5>1, <5>2 DEF Uninstall
        <5> QED BY <3>5, <5>3
      <4> QED BY <3>3, <4>1, <4>2, <4>3 DEF Progress
    <3> QED BY <2>1, <3>4, <3>5 DEF OnCarrier
  <2> QED BY <2>2, <2>3 DEF Track
<1> QED BY <1>1, Tracked, PTL

----------------------------------------------------------------------------
(* Captures.                                                               *)

\* Two elements each.
PairsAt(S, e, m) ==
  LET flat == FlattenSeq([i \in 1 .. m |-> e[i]])
  IN  /\ flat \in Seq(S) /\ Len(flat) = 2 * m
      /\ \A i \in 1 .. m : flat[2 * i - 1] = e[i][1] /\ flat[2 * i] = e[i][2]

LEMMA PairAfter ==
  ASSUME NEW S, NEW flat \in Seq(S), NEW x \in Seq(S), NEW k \in Nat, Len(flat) = k, Len(x) = 2
  PROVE  /\ flat \o x \in Seq(S) /\ Len(flat \o x) = k + 2
         /\ \A i \in 1 .. k : (flat \o x)[i] = flat[i]
         /\ (flat \o x)[k + 1] = x[1] /\ (flat \o x)[k + 2] = x[2]
<1>1. /\ flat \o x \in Seq(S) /\ Len(flat \o x) = Len(flat) + Len(x)
      /\ \A i \in 1 .. Len(flat) + Len(x) : (flat \o x)[i] = IF i <= Len(flat) THEN flat[i] ELSE x[i - Len(flat)]
  BY ConcatProperties
<1>2. /\ \A i \in 1 .. k : i \in 1 .. k + 2 /\ i <= k
      /\ k + 1 \in 1 .. k + 2 /\ ~ (k + 1 <= k) /\ (k + 1) - k = 1
      /\ k + 2 \in 1 .. k + 2 /\ ~ (k + 2 <= k) /\ (k + 2) - k = 2
  OBVIOUS
<1> QED BY <1>1, <1>2

LEMMA PairsNext ==
  ASSUME NEW S, NEW m \in Nat, NEW e, \A i \in 1 .. m + 1 : e[i] \in Seq(S) /\ Len(e[i]) = 2,
         PairsAt(S, e, m)
  PROVE  PairsAt(S, e, m + 1)
<1> DEFINE a == [i \in 1 .. m |-> e[i]]
           flat == FlattenSeq(a)
           x == e[m + 1]
<1>1. a \in Seq(Seq(S)) /\ [i \in 1 .. m + 1 |-> e[i]] = Append(a, x)
  BY OneMore
<1>2. x \in Seq(S) /\ Len(x) = 2
  OBVIOUS
<1>3. FlattenSeq([i \in 1 .. m + 1 |-> e[i]]) = flat \o x
  <2> HIDE DEF a, x
  <2> QED BY <1>1, <1>2, FlattenAppend
<1>4. flat \in Seq(S) /\ Len(flat) = 2 * m
      /\ \A i \in 1 .. m : flat[2 * i - 1] = e[i][1] /\ flat[2 * i] = e[i][2]
  BY DEF PairsAt
<1> HIDE DEF a, flat
<1> DEFINE long == flat \o x
<1>5. /\ long \in Seq(S) /\ Len(long) = 2 * m + 2
      /\ \A i \in 1 .. 2 * m : long[i] = flat[i]
      /\ long[2 * m + 1] = x[1] /\ long[2 * m + 2] = x[2]
  <2> HIDE DEF x
  <2> QED BY <1>2, <1>4, PairAfter
<1> HIDE DEF long
<1>6. ASSUME NEW i \in 1 .. m + 1 PROVE long[2 * i - 1] = e[i][1] /\ long[2 * i] = e[i][2]
  <2>1. CASE i \in 1 .. m
    <3>1. 2 * i - 1 \in 1 .. 2 * m /\ 2 * i \in 1 .. 2 * m
      BY <2>1
    <3> QED BY <1>4, <1>5, <2>1, <3>1
  <2>2. CASE i = m + 1
    <3>1. 2 * i - 1 = 2 * m + 1 /\ 2 * i = 2 * m + 2
      BY <2>2
    <3> QED BY <1>5, <2>2, <3>1
  <2> QED BY <2>1, <2>2
<1>7. Len(long) = 2 * (m + 1)
  BY <1>5
<1> QED BY <1>3, <1>5, <1>6, <1>7 DEF PairsAt, long

LEMMA FlattenPairs ==
  ASSUME NEW S, NEW n \in Nat, NEW e, \A i \in 1 .. n : e[i] \in Seq(S) /\ Len(e[i]) = 2
  PROVE  PairsAt(S, e, n)
<1> DEFINE T == {m \in Nat : m <= n => PairsAt(S, e, m)}
<1>1. 0 \in T
  <2>1. [i \in 1 .. 0 |-> e[i]] = << >>
    OBVIOUS
  <2>2. << >> \in Seq(S) /\ Len(<< >>) = 2 * 0 /\ 1 .. 0 = {}
    OBVIOUS
  <2>3. PairsAt(S, e, 0)
    BY <2>1, <2>2, FlattenEmpty DEF PairsAt
  <2> QED BY <2>3
<1>2. \A m \in T : m + 1 \in T
  <2>1. TAKE m \in T
  <2>2. m \in Nat /\ (m <= n => PairsAt(S, e, m))
    OBVIOUS
  <2>3. SUFFICES ASSUME m + 1 <= n PROVE PairsAt(S, e, m + 1)
    BY <2>2
  <2>4. m <= n /\ \A i \in 1 .. m + 1 : i \in 1 .. n
    BY <2>2, <2>3
  <2>5. \A i \in 1 .. m + 1 : e[i] \in Seq(S) /\ Len(e[i]) = 2
    BY <2>4
  <2> HIDE DEF T
  <2> QED BY <2>2, <2>4, <2>5, PairsNext
<1> HIDE DEF T
<1>3. T = Nat
  <2>1. T \subseteq Nat
    BY DEF T
  <2> QED BY <1>1, <1>2, <2>1, FromFirst
<1>4. n \in T /\ n <= n
  BY <1>3
<1> QED BY <1>4 DEF T

\* A line that fits is read back as it was written.
LEMMA WholeStored ==
  ASSUME NEW ds \in Seq(Nat),
         Len(ds) = 0 \/ Starts(ds)[Len(ds)] + Length(ds[Len(ds)]) < LineSize
  PROVE  Stored(ds) = ds
<1> DEFINE n == Len(ds)
           st(i) == Starts(ds)[i]
<1>1. n \in Nat /\ DOMAIN ds = 1 .. n /\ ds = [i \in 1 .. n |-> ds[i]]
  BY LenProperties
<1>2. /\ \A i \in 1 .. n : st(i) \in Nat
      /\ \A i \in 1 .. n : \A k \in 1 .. n : i < k => st(i) + Length(ds[i]) < st(k)
  BY <1>1, StartsIncrease
<1>3. \A d : Length(d) \in Nat /\ Length(d) > 0
  BY LengthType
<1>4. ASSUME NEW i \in 1 .. n PROVE Room(ds, i) > 0 /\ Room(ds, i) >= Length(ds[i])
  <2>1. n \in 1 .. n /\ st(n) + Length(ds[n]) < LineSize
    BY <1>1
  <2> HIDE DEF st
  <2> DEFINE l(k) == Length(ds[k])
  <2>2. l(i) \in Nat /\ l(i) > 0 /\ l(n) \in Nat /\ st(i) \in Nat /\ st(n) \in Nat
    BY <1>2, <1>3, <2>1
  <2>3. i = n \/ st(i) + l(i) < st(n)
    BY <1>1, <1>2, <2>1
  <2> HIDE DEF l, n
  <2>4. st(i) + l(i) < LineSize
    BY <2>1, <2>2, <2>3, SizesAssumption DEF l
  <2>5. LineSize - 1 - st(i) > 0 /\ LineSize - 1 - st(i) >= l(i)
    BY <2>2, <2>4, SizesAssumption
  <2> QED BY <2>5 DEF Room, l, st
<1> HIDE DEF st
<1>5. {k \in DOMAIN ds : Room(ds, k) > 0} = 1 .. n
  BY <1>1, <1>4
<1> QED BY <1>1, <1>4, <1>5 DEF Stored

\* Durations of whole pulses, of which only the last may be 0.
WholePulses(ds) ==
  Len(ds) % 2 = 0 /\ \A i \in 1 .. Len(ds) : ds[i] \in UInt15 /\ (i # Len(ds) => ds[i] # 0)

LEMMA WholeSent ==
  ASSUME NEW ds \in Seq(Nat), WholePulses(ds), NEW beyond
  PROVE  Sent(sendRaw(ds, beyond))
           = [i \in 1 .. Len(ds) \div 2 |-> [first |-> 1, d0 |-> ds[2 * i - 1], d1 |-> ds[2 * i]]]
<1> DEFINE n == Len(ds)
           m == Len(ds) \div 2
           it(i) == [first |-> 1, d0 |-> ds[2 * i - 1], d1 |-> ds[2 * i]]
           items == [i \in 1 .. m |-> it(i)]
<1>1. /\ n \in Nat /\ m \in Nat /\ n = 2 * m /\ (n + 1) \div 2 = m
      /\ \A i \in 1 .. m : 2 * i - 1 \in 1 .. n /\ 2 * i - 1 # n /\ 2 * i \in 1 .. n /\ (2 * i = n => i = m)
  <2>1. n \in Nat /\ n % 2 = 0
    BY LenProperties DEF WholePulses
  <2> HIDE DEF n
  <2>2. n = 2 * (n \div 2) /\ (n + 1) \div 2 = n \div 2 /\ n \div 2 \in Nat
    BY <2>1
  <2> QED BY <2>1, <2>2 DEF n
<1>2. \A i \in 1 .. m : /\ ds[2 * i - 1] \in UInt15 /\ ds[2 * i - 1] # 0
                        /\ ds[2 * i] \in UInt15 /\ (i # m => ds[2 * i] # 0)
  BY <1>1 DEF WholePulses
<1>3. CASE ds = << >>
  <2>1. items = << >>
    BY <1>1, <1>3
  <2>2. sendRaw(ds, beyond) = << >>
    BY <1>3 DEF sendRaw
  <2> QED BY <2>1, <2>2, SentNone
<1>4. CASE ds # << >>
  <2>1. \A d \in UInt15 : d % 32768 = d
    <3>1. \A d \in UInt15 : d \in Nat /\ d < 32768
      BY DEF UInt15
    <3>2. \A d \in Nat : d < 32768 => d % 32768 = d
      OBVIOUS
    <3> QED BY <3>1, <3>2
  <2>2. sendRaw(ds, beyond) = Write(items)
    <3> DEFINE at(i) == IF i <= n THEN ds[i] ELSE beyond
    <3>1. sendRaw(ds, beyond) = Write([i \in 1 .. m |-> Item(1, at(2 * i - 1), at(2 * i))])
      BY <1>1, <1>4 DEF sendRaw
    <3>2. \A i \in 1 .. m : at(2 * i - 1) = ds[2 * i - 1] /\ at(2 * i) = ds[2 * i]
      BY <1>1
    <3> HIDE DEF at, m
    <3>3. ASSUME NEW i \in 1 .. m PROVE Item(1, at(2 * i - 1), at(2 * i)) = it(i)
      <4>1. /\ at(2 * i - 1) = ds[2 * i - 1] /\ ds[2 * i - 1] % 32768 = ds[2 * i - 1]
            /\ at(2 * i) = ds[2 * i] /\ ds[2 * i] % 32768 = ds[2 * i]
        BY <1>2, <2>1, <3>2
      <4> QED BY <4>1 DEF Item
    <3> HIDE DEF it
    <3> QED BY <3>1, <3>3
  <2>3. \A i \in 1 .. m : it(i) \in Items /\ it(i).d0 # 0 /\ (i # m => it(i).d1 # 0)
    BY <1>2 DEF Items
  <2> HIDE DEF it
  <2>4. items \in Seq(Items) /\ Len(items) = m /\ \A i \in 1 .. m : items[i] = it(i)
    BY <1>1, <2>3
  <2> HIDE DEF items
  <2>5. Transmitted(items) = items
    <3> DEFINE ends == {i \in 1 .. Len(items) : items[i].d0 = 0 \/ items[i].d1 = 0}
               last == CHOOSE i \in ends : \A k \in ends : i <= k
    <3>1. \A i \in ends : i = m /\ m \in 1 .. m /\ items[i].d0 # 0
      BY <1>1, <2>3, <2>4
    <3>2. CASE ends = {}
      BY <3>2 DEF Transmitted
    <3>3. CASE ends # {}
      <4>1. ends = {m}
        BY <3>1, <3>3
      <4>2. last = m
        <5> HIDE DEF ends
        <5> QED BY <1>1, <4>1
      <4>3. Transmitted(items) = SubSeq(items, 1, IF items[last].d0 = 0 THEN last - 1 ELSE last)
        BY <3>3 DEF Transmitted
      <4>4. items[m].d0 # 0
        <5>1. m \in ends
          <6> HIDE DEF ends
          <6> QED BY <4>1
        <5> QED BY <3>1, <5>1
      <4>5. Transmitted(items) = SubSeq(items, 1, m)
        <5> HIDE DEF last
        <5> QED BY <4>2, <4>3, <4>4
      <4>6. SubSeq(items, 1, m) = items
        BY <1>1, <2>4
      <4> QED BY <4>5, <4>6
    <3> QED BY <3>2, <3>3
  <2> DEFINE w == [op |-> "write", items |-> items]
  <2>6. w \in Writes /\ w.items = items /\ Write(items) = <<w>>
    BY <2>4 DEF Writes, Write
  <2> HIDE DEF w
  <2>7. Sent(<<w>>) = items
    BY <2>5, <2>6, SentOne
  <2> QED BY <2>2, <2>6, <2>7 DEF items, it
<1> QED BY <1>3, <1>4

\* A job that is done: the LED has sent all it asked for.
LEMMA DoneSent ==
  ASSUME Track, Done
  PROVE  \E ops \in Seq(Writes) :
           /\ ValidJob(job) /\ Asked(job, ops)
           /\ Len(air) = Len(Sent(ops)) /\ Sent(ops) \in Seq(Pulses)
           /\ \A i \in 1 .. Len(air) : /\ air[i].first = Sent(ops)[i].first
                                       /\ air[i].d0 = Sent(ops)[i].d0 /\ air[i].d1 = Sent(ops)[i].d1
<1>1. PICK ops \in Seq(Writes) :
        ValidJob(job) /\ Asked(job, ops) /\ Progress(CarrierOf(job), ops, todo, channel, air)
  BY DEF Track, Done
<1> DEFINE c == CarrierOf(job)
<1>2. c \in Carriers
  BY <1>1, ValidCarrier
<1> HIDE DEF c
<1>3. air = Modulated(c, Sent(ops))
  <2>1. Progress(c, ops, todo, channel, air) /\ todo = << >>
    BY <1>1 DEF c, Done
  <2>2. Closing(c, ops, todo, channel, air)
    BY <1>2, <2>1, IdleIsClosed
  <2> QED BY <2>2 DEF Closing
<1> DEFINE s == Sent(ops)
<1>4. s \in Seq(Pulses)
  BY SentType
<1> HIDE DEF s
<1>5. /\ Len(Modulated(c, s)) = Len(s)
      /\ \A i \in 1 .. Len(s) : /\ Modulated(c, s)[i].first = s[i].first
                                /\ Modulated(c, s)[i].d0 = s[i].d0 /\ Modulated(c, s)[i].d1 = s[i].d1
  BY <1>2, <1>4, ModulatedType
<1>6. air = Modulated(c, s)
  BY <1>3 DEF s
<1>7. /\ Len(air) = Len(s)
      /\ \A i \in 1 .. Len(air) : /\ air[i].first = s[i].first
                                  /\ air[i].d0 = s[i].d0 /\ air[i].d1 = s[i].d1
  BY <1>5, <1>6
<1> QED BY <1>1, <1>4, <1>7 DEF s

LEMMA CaptureSent ==
  ASSUME Track, Done, job.kind \in {"learned", "message"}, Whole(job)
  PROVE  FlattenSeq([i \in 1 .. Len(air) |-> <<air[i].d0, air[i].d1>>]) = job.durations
<1> DEFINE ds == job.durations
           m == Len(ds) \div 2
<1>1. PICK ops \in Seq(Writes) :
        /\ ValidJob(job) /\ Asked(job, ops)
        /\ Len(air) = Len(Sent(ops))
        /\ \A i \in 1 .. Len(air) : /\ air[i].first = Sent(ops)[i].first
                                    /\ air[i].d0 = Sent(ops)[i].d0 /\ air[i].d1 = Sent(ops)[i].d1
  BY DoneSent
<1>2. job.kind # "code"
  OBVIOUS
<1>3. ds \in Seq(Nat)
  BY <1>1, <1>2, CaptureType DEF ValidJob
<1>4. WholePulses(ds) /\ (job.kind = "learned" => Stored(ds) = ds)
  <2>1. Len(ds) % 2 = 0 /\ \A i \in 1 .. Len(ds) : ds[i] \in UInt15 /\ (i # Len(ds) => ds[i] # 0)
    BY DEF Whole
  <2>2. job.kind = "message" \/ Len(ds) = 0 \/ Starts(ds)[Len(ds)] + Length(ds[Len(ds)]) < LineSize
    BY DEF Whole
  <2> HIDE DEF ds
  <2>3. job.kind = "learned" => Stored(ds) = ds
    BY <1>3, <2>2, WholeStored
  <2> QED BY <2>1, <2>3 DEF WholePulses
<1>5. \E beyond : ops = sendRaw(ds, beyond)
  BY <1>1, <1>2, <1>4 DEF Asked
<1>6. Sent(ops) = [i \in 1 .. m |-> [first |-> 1, d0 |-> ds[2 * i - 1], d1 |-> ds[2 * i]]]
  <2>1. PICK beyond : ops = sendRaw(ds, beyond)
    BY <1>5
  <2> HIDE DEF ds
  <2>2. Sent(sendRaw(ds, beyond)) = [i \in 1 .. m |-> [first |-> 1, d0 |-> ds[2 * i - 1], d1 |-> ds[2 * i]]]
    BY <1>3, <1>4, WholeSent
  <2> QED BY <2>1, <2>2
<1>7. m \in Nat /\ Len(ds) = 2 * m /\ \A i \in 1 .. m : ds[2 * i - 1] \in Nat /\ ds[2 * i] \in Nat
  <2> DEFINE n == Len(ds)
  <2>1. n \in Nat /\ n % 2 = 0 /\ \A i \in 1 .. n : ds[i] \in Nat
    BY <1>3, <1>4, LenProperties, ElementOfSeq DEF WholePulses
  <2> HIDE DEF n
  <2>2. n = 2 * (n \div 2) /\ n \div 2 \in Nat
    BY <2>1
  <2>3. \A i \in 1 .. n \div 2 : 2 * i - 1 \in 1 .. n /\ 2 * i \in 1 .. n
    BY <2>1, <2>2
  <2> QED BY <2>1, <2>2, <2>3 DEF n
<1> HIDE DEF m, ds
<1>8. Len(air) = m /\ \A i \in 1 .. m : air[i].d0 = ds[2 * i - 1] /\ air[i].d1 = ds[2 * i]
  <2>1. Len(Sent(ops)) = m /\ \A i \in 1 .. m : Sent(ops)[i].d0 = ds[2 * i - 1] /\ Sent(ops)[i].d1 = ds[2 * i]
    BY <1>6, <1>7
  <2> QED BY <1>1, <2>1
<1> DEFINE e == [i \in 1 .. m |-> <<air[i].d0, air[i].d1>>]
<1>9. \A i \in 1 .. m : e[i] \in Seq(Nat) /\ Len(e[i]) = 2 /\ e[i][1] = ds[2 * i - 1] /\ e[i][2] = ds[2 * i]
  BY SMTT(30), <1>7, <1>8
<1>10. e = [i \in 1 .. m |-> e[i]] /\ [i \in 1 .. Len(air) |-> <<air[i].d0, air[i].d1>>] = e
  BY <1>8
<1> HIDE DEF e
<1> DEFINE flat == FlattenSeq(e)
<1>11. /\ flat \in Seq(Nat) /\ Len(flat) = 2 * m
       /\ \A i \in 1 .. m : flat[2 * i - 1] = e[i][1] /\ flat[2 * i] = e[i][2]
  <2>1. PairsAt(Nat, e, m)
    BY <1>7, <1>9, FlattenPairs
  <2> QED BY <1>10, <2>1 DEF PairsAt
<1> HIDE DEF flat
<1>12. ASSUME NEW k \in 1 .. 2 * m PROVE flat[k] = ds[k]
  <2>1. (k + 1) \div 2 \in 1 .. m /\ (k = 2 * ((k + 1) \div 2) - 1 \/ k = 2 * ((k + 1) \div 2))
    BY <1>7
  <2> QED BY <1>9, <1>11, <2>1
<1>13. flat = ds
  BY <1>3, <1>7, <1>11, <1>12, SeqEqual
<1> QED BY <1>10, <1>13 DEF flat, ds

----------------------------------------------------------------------------
(* Codes: from the digits to the word, and from the calls to the pulses.   *)

Upper == 32 .. 63

\* A code of up to 8 digits is the word, with its sign in the upper half.
LEMMA DataWord ==
  ASSUME NEW code \in Codes, code.digits <= 8, NEW beyond
  PROVE  /\ code.word \subseteq 0 .. 31
         /\ Data(code, beyond) = IF 31 \in code.word THEN code.word \cup Upper ELSE code.word
<1> DEFINE B(i) == {b \in code.word : b \div 8 = i}
           last == (code.digits - 1) \div 2
<1>1. code.digits \in 1 .. 8 /\ code.word \subseteq 0 .. 4 * code.digits - 1
  BY CodesAssumption
<1>2. code.word \subseteq 0 .. 31
  BY <1>1
<1>3. \A b \in code.word : b \div 8 \in 0 .. last
  <2>1. \A d \in 1 .. 8 : \A b \in 0 .. 4 * d - 1 : b \div 8 \in 0 .. (d - 1) \div 2
    OBVIOUS
  <2> QED BY <1>1, <2>1
<1>4. \A i : Shifted(B(i), beyond) = B(i)
  BY <1>2 DEF Shifted
<1>5. \A x : x \in Data(code, beyond) <=> \E i \in 0 .. last : x \in Extended(Shifted(B(i), beyond))
  BY DEF Data
<1> HIDE DEF last
<1>6. \A i : Extended(B(i)) = IF 31 \in B(i) THEN B(i) \cup Upper ELSE B(i)
  BY DEF Extended, Upper
<1>7. \A x : x \in Data(code, beyond) <=> \E i \in 0 .. last : x \in Extended(B(i))
  BY Zenon, <1>4, <1>5
<1>8. ASSUME NEW x
      PROVE  x \in Data(code, beyond) <=> x \in code.word \/ (31 \in code.word /\ x \in Upper)
  <2>1. x \in Data(code, beyond) => x \in code.word \/ (31 \in code.word /\ x \in Upper)
    <3> SUFFICES ASSUME x \in Data(code, beyond) PROVE x \in code.word \/ (31 \in code.word /\ x \in Upper)
      OBVIOUS
    <3>1. PICK i \in 0 .. last : x \in Extended(B(i))
      BY <1>7
    <3>2. B(i) \subseteq code.word
      OBVIOUS
    <3>3. x \in IF 31 \in B(i) THEN B(i) \cup Upper ELSE B(i)
      BY <1>6, <3>1
    <3> HIDE DEF B
    <3> QED BY <3>2, <3>3
  <2>2. x \in code.word => x \in B(x \div 8) /\ x \div 8 \in 0 .. last
    BY <1>3
  <2>3. 31 \in code.word => 31 \in B(31 \div 8) /\ 31 \div 8 \in 0 .. last
    BY <1>3
  <2> QED BY <1>6, <1>7, <2>1, <2>2, <2>3
<1> QED BY <1>2, <1>8

LEMMA FitsData ==
  ASSUME NEW code \in Codes, NEW p, Fits(p, code), NEW beyond
  PROVE  /\ code.word \subseteq 0 .. 31 /\ code.word \subseteq 0 .. DataBits(p) - 1
         /\ \A b \in 0 .. 31 : b \in Data(code, beyond) <=> b \in code.word
         /\ DataBits(p) # 32 => Data(code, beyond) = code.word
<1>1. /\ code.digits <= 8 /\ code.word \subseteq 0 .. DataBits(p) - 1
      /\ 31 \in code.word => DataBits(p) = 32
  BY DEF Fits
<1>2. /\ code.word \subseteq 0 .. 31
      /\ Data(code, beyond) = IF 31 \in code.word THEN code.word \cup Upper ELSE code.word
  BY <1>1, DataWord
<1>3. \A b \in 0 .. 31 : b \notin Upper
  BY DEF Upper
<1> QED BY <1>1, <1>2, <1>3

----------------------------------------------------------------------------
(* The pulses of one call.                                                 *)

Pulse(m, s) == [first |-> 1, d0 |-> Ticks(m), d1 |-> Ticks(Capped(s))]
Lit(m) == m \in Nat /\ 10 <= m /\ m <= 32767

LEMMA TicksBounds ==
  /\ \A m : Lit(m) => Ticks(m) \in UInt15 /\ Ticks(m) # 0 /\ Ticks(m) % 32768 = Ticks(m)
  /\ \A s \in Nat : Ticks(Capped(s)) \in UInt15 /\ Ticks(Capped(s)) % 32768 = Ticks(Capped(s))
<1>1. \A m \in Nat : m <= 32767 => /\ Ticks(m) \in Nat /\ Ticks(m) <= 32767 /\ Ticks(m) % 32768 = Ticks(m)
                                   /\ 10 <= m => Ticks(m) # 0
  BY DEF Ticks
<1>2. \A x \in Nat : x <= 32767 => x \in UInt15
  BY DEF UInt15
<1>3. \A s \in Nat : Capped(s) \in Nat /\ Capped(s) <= 32767
  BY DEF Capped
<1> QED BY <1>1, <1>2, <1>3 DEF Lit

LEMMA SentItem ==
  ASSUME NEW it \in Items
  PROVE  Sent(Write(<<it>>)) = IF it.d0 = 0 THEN << >> ELSE <<it>>
<1> DEFINE w == [op |-> "write", items |-> <<it>>]
<1>1. w \in Writes /\ w.items = <<it>> /\ Write(<<it>>) = <<w>>
  BY DEF Writes, Write
<1> HIDE DEF w
<1>2. Sent(<<w>>) = Transmitted(<<it>>)
  BY <1>1, SentOne
<1> DEFINE ends == {i \in 1 .. Len(<<it>>) : <<it>>[i].d0 = 0 \/ <<it>>[i].d1 = 0}
           last == CHOOSE i \in ends : \A k \in ends : i <= k
<1>3. CASE it.d0 # 0 /\ it.d1 # 0
  <2>1. ends = {}
    BY <1>3
  <2>2. Transmitted(<<it>>) = <<it>>
    BY <2>1 DEF Transmitted
  <2> QED BY <1>1, <1>2, <1>3, <2>2
<1>4. CASE it.d0 = 0 \/ it.d1 = 0
  <2>1. ends = {1}
    BY <1>4
  <2>2. last = 1
    <3> HIDE DEF ends
    <3> QED BY <2>1
  <2>3. Transmitted(<<it>>) = SubSeq(<<it>>, 1, IF <<it>>[last].d0 = 0 THEN last - 1 ELSE last)
    BY <2>1 DEF Transmitted
  <2> HIDE DEF last
  <2>4. Transmitted(<<it>>) = SubSeq(<<it>>, 1, IF it.d0 = 0 THEN 0 ELSE 1)
    BY <2>2, <2>3
  <2>5. SubSeq(<<it>>, 1, 0) = << >> /\ SubSeq(<<it>>, 1, 1) = <<it>>
    <3>1. \A s, m : m \in {0, 1} => SubSeq(s, 1, m) = [i \in 1 .. m |-> s[i]]
      OBVIOUS
    <3>2. [i \in 1 .. 0 |-> <<it>>[i]] = << >> /\ [i \in 1 .. 1 |-> <<it>>[i]] = <<it>>
      OBVIOUS
    <3> QED BY <3>1, <3>2
  <2> QED BY <1>1, <1>2, <2>4, <2>5
<1> QED BY <1>3, <1>4

LEMMA PulseType ==
  ASSUME NEW m, Lit(m), NEW s \in Nat
  PROVE  Pulse(m, s) \in Items /\ Pulse(m, s).d0 # 0 /\ Pulse(m, s) \in Pulses
<1>1. Pulse(m, s) \in Items /\ Pulse(m, s).d0 # 0
  BY TicksBounds DEF Pulse, Items
<1> QED BY <1>1, PulseOfItem

LEMMA SentMarkSpace ==
  ASSUME NEW m, Lit(m), NEW s \in Nat
  PROVE  Sent(MarkSpace(m, s)) = <<Pulse(m, s)>>
<1>1. Item(1, Ticks(m), Ticks(Capped(s))) = Pulse(m, s)
  BY TicksBounds DEF Item, Pulse
<1> QED BY <1>1, PulseType, SentItem DEF MarkSpace

Half(first, d) == [first |-> first, d0 |-> Ticks(Capped(d)), d1 |-> Ticks(Capped(d))]
LEMMA SentHalf ==
  ASSUME NEW d \in Nat, 10 <= d
  PROVE  /\ Sent(Mark(d)) = <<Half(0, d)>> /\ Half(0, d) \in Pulses
         /\ Sent(Space(d)) = <<Half(1, d)>> /\ Half(1, d) \in Pulses
<1>1. Lit(Capped(d))
  BY DEF Lit, Capped
<1>2. /\ Ticks(Capped(d)) \in UInt15 /\ Ticks(Capped(d)) # 0
      /\ Ticks(Capped(d)) % 32768 = Ticks(Capped(d))
  BY <1>1, TicksBounds
<1>3. \A first \in {0, 1} : /\ Item(first, Ticks(Capped(d)), Ticks(Capped(d))) = Half(first, d)
                            /\ Half(first, d) \in Items /\ Half(first, d).d0 # 0
  BY <1>2 DEF Item, Half, Items
<1> QED BY <1>3, SentItem, PulseOfItem DEF Mark, Space

\* A loop sends what its rounds send.
LEMMA SentLoop ==
  ASSUME NEW n \in Nat, NEW e, \A i \in 1 .. n : e[i] \in Seq(Writes)
  PROVE  Sent(FlattenSeq([i \in 1 .. n |-> e[i]])) = FlattenSeq([i \in 1 .. n |-> Sent(e[i])])
<1> DEFINE same(k) == Sent(FlattenSeq([i \in 1 .. k |-> e[i]])) = FlattenSeq([i \in 1 .. k |-> Sent(e[i])])
           T == {k \in Nat : k <= n => same(k)}
<1>1. 0 \in T
  <2>1. [i \in 1 .. 0 |-> e[i]] = << >> /\ [i \in 1 .. 0 |-> Sent(e[i])] = << >>
    OBVIOUS
  <2> QED BY <2>1, FlattenEmpty, SentNone
<1>2. \A k \in T : k + 1 \in T
  <2>1. TAKE k \in T
  <2>2. k \in Nat /\ (k <= n => same(k))
    OBVIOUS
  <2>3. SUFFICES ASSUME k + 1 <= n PROVE same(k + 1)
    BY <2>2
  <2> HIDE DEF T
  <2>4. same(k) /\ k + 1 \in 1 .. k + 1 /\ \A i \in 1 .. k + 1 : i \in 1 .. n
    BY <2>2, <2>3
  <2> DEFINE a == [i \in 1 .. k |-> e[i]]
             f == [i \in 1 .. n |-> Sent(e[i])]
             b == [i \in 1 .. k |-> f[i]]
  <2>5. \A i \in 1 .. k + 1 : e[i] \in Seq(Writes) /\ f[i] = Sent(e[i]) /\ f[i] \in Seq(Pulses)
    BY <2>4, SentType
  <2>6. /\ b = [i \in 1 .. k |-> Sent(e[i])]
        /\ [i \in 1 .. k + 1 |-> f[i]] = [i \in 1 .. k + 1 |-> Sent(e[i])]
    <3>1. \A i \in 1 .. k : i \in 1 .. k + 1
      BY <2>2
    <3> HIDE DEF f
    <3> QED BY <2>5, <3>1
  <2> HIDE DEF f
  <2>7. a \in Seq(Seq(Writes)) /\ [i \in 1 .. k + 1 |-> e[i]] = Append(a, e[k + 1])
    BY <2>2, <2>5, OneMore
  <2>8. b \in Seq(Seq(Pulses)) /\ [i \in 1 .. k + 1 |-> f[i]] = Append(b, f[k + 1])
    BY <2>2, <2>5, OneMore
  <2>9. Sent(FlattenSeq(a)) = FlattenSeq(b)
    BY <2>4, <2>6
  <2> HIDE DEF a, b, same
  <2>10. FlattenSeq(Append(a, e[k + 1])) = FlattenSeq(a) \o e[k + 1] /\ FlattenSeq(a) \in Seq(Writes)
    BY <2>4, <2>5, <2>7, FlattenAppend, FlattenType
  <2>11. Sent(FlattenSeq(a) \o e[k + 1]) = Sent(FlattenSeq(a)) \o Sent(e[k + 1])
    BY <2>4, <2>5, <2>10, SentConcat
  <2>12. FlattenSeq(Append(b, f[k + 1])) = FlattenSeq(b) \o f[k + 1]
    BY <2>4, <2>5, <2>8, FlattenAppend
  <2>13. Sent(FlattenSeq([i \in 1 .. k + 1 |-> e[i]])) = FlattenSeq([i \in 1 .. k + 1 |-> Sent(e[i])])
    BY <2>4, <2>5, <2>6, <2>7, <2>8, <2>9, <2>10, <2>11, <2>12
  <2> QED BY <2>13 DEF same
<1> HIDE DEF T
<1>3. T = Nat
  <2>1. T \subseteq Nat
    BY DEF T
  <2> QED BY <1>1, <1>2, <2>1, FromFirst
<1>4. n \in T /\ n <= n
  BY <1>3
<1> QED BY <1>4 DEF T

PulseOf(shape) == Pulse(shape[1], shape[2])
Lights(shape) == shape \in Shape /\ Lit(shape[1])
Bit(one, zero, word, n, i) == PulseOf(IF n - i \in word THEN one ELSE zero)

\* What two pieces send, one after the other.
Sends(ops, n) == ops \in Seq(Writes) /\ Len(Sent(ops)) = n
LEMMA SendsBoth ==
  ASSUME NEW a, NEW b, NEW k \in Nat, NEW l \in Nat, Sends(a, k), Sends(b, l)
  PROVE  /\ Sends(a \o b, k + l)
         /\ \A i \in 1 .. k : Sent(a \o b)[i] = Sent(a)[i]
         /\ \A i \in 1 .. l : Sent(a \o b)[k + i] = Sent(b)[i]
<1>1. a \in Seq(Writes) /\ b \in Seq(Writes) /\ Len(Sent(a)) = k /\ Len(Sent(b)) = l
  BY DEF Sends
<1>2. Sent(a \o b) = Sent(a) \o Sent(b) /\ Sent(a) \in Seq(Pulses) /\ Sent(b) \in Seq(Pulses)
  BY <1>1, SentConcat, SentType
<1>3. a \o b \in Seq(Writes)
  BY <1>1, TwoWrites
<1>4. /\ Len(Sent(a) \o Sent(b)) = Len(Sent(a)) + Len(Sent(b))
      /\ \A i \in 1 .. Len(Sent(a)) : (Sent(a) \o Sent(b))[i] = Sent(a)[i]
      /\ \A i \in 1 .. Len(Sent(b)) : (Sent(a) \o Sent(b))[Len(Sent(a)) + i] = Sent(b)[i]
  BY <1>2, InConcat
<1> QED BY <1>1, <1>2, <1>3, <1>4 DEF Sends

LEMMA LightPulse ==
  \A shape : Lights(shape) => PulseOf(shape) \in Pulses /\ Sent(MarkSpaceOf(shape)) = <<PulseOf(shape)>>
                              /\ shape \in Shape
<1> SUFFICES ASSUME NEW shape, Lights(shape)
             PROVE  /\ PulseOf(shape) \in Pulses /\ Sent(MarkSpaceOf(shape)) = <<PulseOf(shape)>>
                    /\ shape \in Shape
  OBVIOUS
<1>1. Lit(shape[1]) /\ shape[2] \in Nat /\ shape \in Shape
  BY DEF Lights, Shape
<1> QED BY <1>1, PulseType, SentMarkSpace DEF PulseOf, MarkSpaceOf

LEMMA SentData ==
  ASSUME NEW one, NEW zero, NEW word, NEW n \in Nat, Lights(one), Lights(zero)
  PROVE  /\ Sent(SendData(one, zero, word, n)) = [i \in 1 .. n |-> Bit(one, zero, word, n, i)]
         /\ \A i \in 1 .. n : Bit(one, zero, word, n, i) \in Pulses
<1> DEFINE e == [i \in 1 .. n |-> MarkSpaceOf(IF n - i \in word THEN one ELSE zero)]
           b == [i \in 1 .. n |-> Bit(one, zero, word, n, i)]
<1>1. \A i \in 1 .. n : e[i] \in Seq(Writes) /\ Sent(e[i]) = <<b[i]>> /\ b[i] \in Pulses
  BY LightPulse, ShapeType DEF Bit
<1>2. SendData(one, zero, word, n) = FlattenSeq([i \in 1 .. n |-> e[i]])
  BY DEF SendData
<1>3. [i \in 1 .. n |-> b[i]] = b /\ \A i \in 1 .. n : b[i] = Bit(one, zero, word, n, i)
  OBVIOUS
<1> HIDE DEF e, b
<1>4. Sent(FlattenSeq([i \in 1 .. n |-> e[i]])) = FlattenSeq([i \in 1 .. n |-> Sent(e[i])])
  BY <1>1, SentLoop
<1>5. [i \in 1 .. n |-> Sent(e[i])] = [i \in 1 .. n |-> <<b[i]>>]
  BY <1>1
<1>6. FlattenSeq([i \in 1 .. n |-> <<b[i]>>]) = [i \in 1 .. n |-> b[i]]
  BY FlattenSingles
<1> QED BY <1>1, <1>2, <1>3, <1>4, <1>5, <1>6 DEF b

LEMMA SentNoData == \A one, zero, word : SendData(one, zero, word, 0) = << >>
<1> SUFFICES ASSUME NEW one, NEW zero, NEW word PROVE SendData(one, zero, word, 0) = << >>
  OBVIOUS
<1>1. [i \in 1 .. 0 |-> MarkSpaceOf(IF 0 - i \in word THEN one ELSE zero)] = << >>
  OBVIOUS
<1> QED BY <1>1, FlattenEmpty DEF SendData

LEMMA SentFooter ==
  ASSUME NEW footer
  PROVE  /\ footer[1] = 0 => Sent(Footer(footer)) = << >>
         /\ Lights(footer) => /\ Sent(Footer(footer)) = <<PulseOf(footer)>>
                              /\ PulseOf(footer) \in Pulses
<1>1. ASSUME footer[1] = 0 PROVE Sent(Footer(footer)) = << >>
  <2>1. Item(1, Ticks(0), Ticks(Capped(0))) \in Items /\ Item(1, Ticks(0), Ticks(Capped(0))).d0 = 0
    <3>1. Ticks(0) = 0 /\ Capped(0) = 0
      BY DEF Ticks, Capped
    <3>2. Item(1, 0, 0) \in Items /\ Item(1, 0, 0).d0 = 0
      BY ItemType DEF Item
    <3> QED BY <3>1, <3>2
  <2>2. Footer(footer) = MarkSpace(0, 0)
    BY <1>1 DEF Footer
  <2> QED BY <2>1, <2>2, SentItem DEF MarkSpace
<1>2. ASSUME Lights(footer)
      PROVE  Sent(Footer(footer)) = <<PulseOf(footer)>> /\ PulseOf(footer) \in Pulses
  <2>1. Lit(footer[1]) /\ footer[2] \in Nat /\ footer[1] # 0
    BY <1>2 DEF Lights, Shape, Lit
  <2>2. Capped(footer[2]) \in Nat /\ Capped(Capped(footer[2])) = Capped(footer[2])
    BY <2>1 DEF Capped
  <2>3. Footer(footer) = MarkSpace(footer[1], Capped(footer[2]))
    BY <2>1 DEF Footer
  <2>4. Pulse(footer[1], Capped(footer[2])) = PulseOf(footer)
    BY <2>2 DEF Pulse, PulseOf
  <2> QED BY <1>2, <2>1, <2>2, <2>3, <2>4, SentMarkSpace, LightPulse
<1> QED BY <1>1, <1>2

\* A message: its header, its data, its footer.
LEMMA MessagePulses ==
  ASSUME NEW header, NEW one, NEW zero, NEW footer, NEW word, NEW n \in Nat,
         header = None \/ (Lights(header) /\ header[2] # 0), Lights(one), Lights(zero),
         footer \in Shape, footer[1] = 0 \/ Lights(footer)
  PROVE  LET ops == Message(header, one, zero, footer, word, n)
             lead == IF header = None THEN 0 ELSE 1
             foot == IF footer[1] = 0 THEN 0 ELSE 1
         IN  /\ Sends(ops, (lead + n) + foot)
             /\ \A i \in 1 .. n : Sent(ops)[lead + i] = Bit(one, zero, word, n, i)
             /\ foot = 1 => Sent(ops)[(lead + n) + 1] = PulseOf(footer)
<1> DEFINE a == IF header[1] # 0 /\ header[2] # 0 THEN MarkSpaceOf(header) ELSE << >>
           d == SendData(one, zero, word, n)
           f == Footer(footer)
           lead == IF header = None THEN 0 ELSE 1
           foot == IF footer[1] = 0 THEN 0 ELSE 1
<1>1. Sends(a, lead)
  <2>1. CASE header = None
    <3>1. header[1] = 0
      BY <2>1 DEF None
    <3>2. a = << >> /\ lead = 0
      BY <2>1, <3>1
    <3> HIDE DEF a
    <3> QED BY <3>2, SentNone, EmptySeq DEF Sends
  <2>2. CASE header # None
    <3>1. Lights(header) /\ header[2] # 0 /\ header[1] # 0
      BY <2>2 DEF Lights, Lit
    <3>2. a = MarkSpaceOf(header) /\ lead = 1
      BY <2>2, <3>1
    <3>3. MarkSpaceOf(header) \in Seq(Writes) /\ Sent(MarkSpaceOf(header)) = <<PulseOf(header)>>
      BY <3>1, LightPulse, ShapeType
    <3> HIDE DEF a
    <3> QED BY <3>2, <3>3 DEF Sends
  <2> QED BY <2>1, <2>2
<1>2. Sends(d, n) /\ \A i \in 1 .. n : Sent(d)[i] = Bit(one, zero, word, n, i)
  <2>1. d \in Seq(Writes)
    BY LightPulse, SendDataType
  <2>2. Sent(d) = [i \in 1 .. n |-> Bit(one, zero, word, n, i)]
    BY SentData
  <2> HIDE DEF d
  <2> QED BY <2>1, <2>2 DEF Sends
<1>3. Sends(f, foot) /\ (foot = 1 => Sent(f)[1] = PulseOf(footer))
  <2>1. f \in Seq(Writes)
    BY ShapeType
  <2>2. footer[1] = 0 => Sent(f) = << >>
    BY SentFooter
  <2>3. footer[1] # 0 => Sent(f) = <<PulseOf(footer)>>
    BY SentFooter
  <2> HIDE DEF f
  <2> QED BY <2>1, <2>2, <2>3 DEF Sends
<1>4. Message(header, one, zero, footer, word, n) = (a \o d) \o f
  BY DEF Message
<1>5. lead \in {0, 1} /\ foot \in {0, 1}
  OBVIOUS
<1> HIDE DEF a, d, f, lead, foot
<1>6. /\ Sends(a \o d, lead + n) /\ \A i \in 1 .. n : Sent(a \o d)[lead + i] = Sent(d)[i]
  BY <1>1, <1>2, <1>5, SendsBoth
<1> DEFINE k == lead + n
           ad == a \o d
<1>7. Sends(ad, k) /\ k \in Nat /\ \A i \in 1 .. n : lead + i \in 1 .. k
  BY <1>5, <1>6
<1> HIDE DEF k, ad
<1>8. /\ Sends(ad \o f, k + foot)
      /\ \A i \in 1 .. k : Sent(ad \o f)[i] = Sent(ad)[i]
      /\ \A i \in 1 .. foot : Sent(ad \o f)[k + i] = Sent(f)[i]
  BY <1>3, <1>5, <1>7, SendsBoth
<1>9. \A i \in 1 .. n : Sent(ad \o f)[lead + i] = Bit(one, zero, word, n, i)
  BY <1>2, <1>6, <1>7, <1>8 DEF ad
<1>10. foot = 1 => Sent(ad \o f)[k + 1] = PulseOf(footer)
  BY <1>3, <1>8
<1> QED BY <1>4, <1>8, <1>9, <1>10 DEF lead, foot, k, ad

\* Copies of a message.
LEMMA FewCopies ==
  \A ops \in Seq(Writes) :
    /\ Copies(1, ops) = ops /\ Copies(2, ops) = ops \o ops
    /\ Copies(3, ops) = (ops \o ops) \o ops /\ Copies(4, ops) = ((ops \o ops) \o ops) \o ops
<1> SUFFICES ASSUME NEW ops \in Seq(Writes)
             PROVE  /\ Copies(1, ops) = ops /\ Copies(2, ops) = ops \o ops
                    /\ Copies(3, ops) = (ops \o ops) \o ops
                    /\ Copies(4, ops) = ((ops \o ops) \o ops) \o ops
  OBVIOUS
<1>1. \A n \in Nat : Copies(n + 1, ops) = Copies(n, ops) \o ops
  BY OneMoreCopy
<1>2. /\ Copies(0 + 1, ops) = Copies(0, ops) \o ops /\ Copies(1 + 1, ops) = Copies(1, ops) \o ops
      /\ Copies(2 + 1, ops) = Copies(2, ops) \o ops /\ Copies(3 + 1, ops) = Copies(3, ops) \o ops
  <2>1. 0 \in Nat /\ 1 \in Nat /\ 2 \in Nat /\ 3 \in Nat
    OBVIOUS
  <2> QED BY <1>1, <2>1
<1>3. Copies(0, ops) = << >> /\ << >> \o ops = ops
  BY NoCopy, ConcatEmptySeq
<1>4. 0 + 1 = 1 /\ 1 + 1 = 2 /\ 2 + 1 = 3 /\ 3 + 1 = 4
  OBVIOUS
<1> QED BY <1>2, <1>3, <1>4

LEMMA OnceIsMessage ==
  ASSUME NEW header \in Shape, NEW one \in Shape, NEW zero \in Shape, NEW footer \in Shape,
         NEW word, NEW n \in Nat
  PROVE  SendGeneric(header, one, zero, footer, word, n, 0) = Message(header, one, zero, footer, word, n)
<1>1. Message(header, one, zero, footer, word, n) \in Seq(Writes)
  BY MessageType
<1>2. 0 + 1 = 1
  OBVIOUS
<1> QED BY <1>1, <1>2, FewCopies DEF SendGeneric

\* A repeat frame: a header, no data and a footer.
LEMMA RepeatPulses ==
  ASSUME NEW header, NEW footer, Lights(header), header[2] # 0, Lights(footer)
  PROVE  Sends(SendGeneric(header, None, None, footer, {}, 0, 0), 2)
<1> DEFINE a == MarkSpaceOf(header)
           f == Footer(footer)
<1>1. None \in Shape /\ header \in Shape /\ footer \in Shape /\ header[1] # 0
  BY DEF None, Shape, Lights, Lit
<1>2. SendGeneric(header, None, None, footer, {}, 0, 0) = Message(header, None, None, footer, {}, 0)
  BY <1>1, OnceIsMessage
<1>3. Message(header, None, None, footer, {}, 0) = (a \o << >>) \o f
  BY <1>1, SentNoData DEF Message
<1>4. /\ a \in Seq(Writes) /\ f \in Seq(Writes) /\ a \o << >> = a
      /\ Sent(a) = <<PulseOf(header)>> /\ Sent(f) = <<PulseOf(footer)>>
      /\ PulseOf(header) \in Pulses /\ PulseOf(footer) \in Pulses
  BY <1>1, ShapeType, LightPulse, SentFooter, ConcatEmptySeq
<1> HIDE DEF a, f
<1>5. Sends(a, 1) /\ Sends(f, 1)
  BY <1>4 DEF Sends
<1>6. Sends(a \o f, 1 + 1)
  BY <1>5, SendsBoth
<1>7. 1 + 1 = 2
  OBVIOUS
<1>8. SendGeneric(header, None, None, footer, {}, 0, 0) = a \o f
  BY <1>2, <1>3, <1>4
<1> QED BY <1>6, <1>7, <1>8

----------------------------------------------------------------------------
(* From the calls to what the receiver reads.                              *)

Same(x, y) == x.first = y.first /\ x.d0 = y.d0 /\ x.d1 = y.d1
\* Items k + 1 .. k + n of the air are what ops sends.
At(k, ops, n) == Sends(ops, n) /\ \A i \in 1 .. n : Same(air[k + i], Sent(ops)[i])

LEMMA AtBoth ==
  ASSUME NEW k \in Nat, NEW a, NEW b, NEW m \in Nat, NEW l \in Nat, NEW n,
         Sends(a, m), Sends(b, l), At(k, a \o b, n)
  PROVE  n = m + l /\ At(k, a, m) /\ At(k + m, b, l)
<1>1. /\ Sends(a \o b, m + l)
      /\ \A i \in 1 .. m : Sent(a \o b)[i] = Sent(a)[i]
      /\ \A i \in 1 .. l : Sent(a \o b)[m + i] = Sent(b)[i]
  BY SendsBoth
<1>2. n = m + l
  BY <1>1 DEF At, Sends
<1>3. \A i \in 1 .. m : i \in 1 .. n
  BY <1>2
<1>4. \A i \in 1 .. l : m + i \in 1 .. n /\ k + (m + i) = (k + m) + i
  BY <1>2
<1>5. \A i \in 1 .. n : Same(air[k + i], Sent(a \o b)[i])
  BY DEF At
<1>6. At(k, a, m)
  BY <1>1, <1>3, <1>5 DEF At
<1>7. ASSUME NEW i \in 1 .. l PROVE Same(air[(k + m) + i], Sent(b)[i])
  BY <1>1, <1>4, <1>5
<1> QED BY <1>2, <1>6, <1>7 DEF At

\* The one object of a code, whatever is around it.
LEMMA CancelLeft ==
  ASSUME NEW S, NEW i \in Seq(S), NEW x \in Seq(S), NEW y \in Seq(S), i \o x = i \o y
  PROVE  x = y
<1>1. /\ Len(i \o x) = Len(i) + Len(x) /\ Len(i \o y) = Len(i) + Len(y)
      /\ \A k \in 1 .. Len(x) : (i \o x)[Len(i) + k] = x[k]
      /\ \A k \in 1 .. Len(y) : (i \o y)[Len(i) + k] = y[k]
  BY InConcat
<1>2. Len(i) \in Nat /\ Len(x) \in Nat /\ Len(y) \in Nat
  BY LenProperties
<1>3. Len(x) = Len(y) /\ \A k \in 1 .. Len(x) : x[k] = y[k]
  BY <1>1, <1>2
<1> QED BY <1>3, SeqEqual

LEMMA CancelRight ==
  ASSUME NEW S, NEW u \in Seq(S), NEW x \in Seq(S), NEW y \in Seq(S), x \o u = y \o u
  PROVE  x = y
<1>1. /\ Len(x \o u) = Len(x) + Len(u) /\ Len(y \o u) = Len(y) + Len(u)
      /\ \A k \in 1 .. Len(x) : (x \o u)[k] = x[k]
      /\ \A k \in 1 .. Len(y) : (y \o u)[k] = y[k]
  BY InConcat
<1>2. Len(u) \in Nat /\ Len(x) \in Nat /\ Len(y) \in Nat
  BY LenProperties
<1>3. Len(x) = Len(y) /\ \A k \in 1 .. Len(x) : x[k] = y[k]
  BY <1>1, <1>2
<1> QED BY <1>3, SeqEqual

LEMMA ObjectSame ==
  ASSUME NEW f, NEW d, <<f, d>> \in Carriers, NEW x \in Seq(Operations), NEW y \in Seq(Operations),
         Object(f, d, x) = Object(f, d, y)
  PROVE  x = y
<1> DEFINE i == Install(<<f, d>>)
           u == Uninstall
<1>1. i \in Seq(Operations) /\ u \in Seq(Operations)
  BY OperationTypes
<1>2. (i \o x) \o u = (i \o y) \o u
  BY DEF Object
<1> HIDE DEF i, u
<1>3. i \o x \in Seq(Operations) /\ i \o y \in Seq(Operations)
  BY <1>1, ConcatProperties
<1>4. i \o x = i \o y
  BY <1>1, <1>2, <1>3, CancelRight
<1> QED BY <1>1, <1>4, CancelLeft

LEMMA ObjectType ==
  ASSUME NEW f, NEW d, <<f, d>> \in Carriers, NEW x \in Seq(Operations)
  PROVE  Object(f, d, x) \in Seq(Operations)
<1> DEFINE i == Install(<<f, d>>)
           u == Uninstall
<1>1. i \in Seq(Operations) /\ u \in Seq(Operations)
  BY OperationTypes
<1>2. Object(f, d, x) = (i \o x) \o u
  BY DEF Object
<1> HIDE DEF i, u
<1>3. i \o x \in Seq(Operations)
  BY <1>1, ConcatProperties
<1> QED BY <1>1, <1>2, <1>3, ConcatProperties

LEMMA NestedSame ==
  ASSUME NEW p, NEW f, NEW d, <<f, d>> \in Carriers, NEW x \in Seq(Writes), NEW y \in Seq(Writes),
         Nested(p, f, d, x) = Nested(p, f, d, y)
  PROVE  x = y
<1>1. x \in Seq(Operations) /\ y \in Seq(Operations)
  BY OperationTypes
<1>2. Object(f, d, x) \in Seq(Operations) /\ Object(f, d, y) \in Seq(Operations)
  BY <1>1, ObjectType
<1>3. Object(f, d, x) = Object(f, d, y)
  BY <1>2, ObjectSame DEF Nested
<1> QED BY <1>1, <1>3, ObjectSame

\* A code that is done: the air is what its object wrote.
SentCode(word) ==
  \A f, d, ops : Written(job, word, f, d, ops) => At(0, ops, Len(air))

LEMMA DoneCode ==
  ASSUME Track, Done, job.kind = "code"
  PROVE  /\ job.protocol \in Protocols /\ job.code \in Codes /\ Len(air) \in Nat
         /\ \E beyond : SentCode(Data(job.code, beyond))
<1>1. PICK ops \in Seq(Writes) :
           /\ ValidJob(job) /\ Asked(job, ops)
           /\ Len(air) = Len(Sent(ops)) /\ Sent(ops) \in Seq(Pulses)
           /\ \A i \in 1 .. Len(air) : /\ air[i].first = Sent(ops)[i].first
                                       /\ air[i].d0 = Sent(ops)[i].d0 /\ air[i].d1 = Sent(ops)[i].d1
  BY DoneSent
<1>2. job.protocol \in Protocols /\ job.code \in Codes
  BY <1>1 DEF ValidJob
<1>3. Len(air) \in Nat
  BY <1>1, LenProperties
<1>4. PICK beyond : SendCommand(job.protocol, Data(job.code, beyond))
                      = Nested(job.protocol, CarrierOf(job)[1], CarrierOf(job)[2], ops)
  BY <1>1 DEF Asked
<1>5. ASSUME NEW f, NEW d, NEW x, Written(job, Data(job.code, beyond), f, d, x)
      PROVE  At(0, x, Len(air))
  <2>1. CarrierOf(job) = <<f, d>> /\ x \in Seq(Writes) /\ CarrierOf(job) \in Carriers
    BY <1>1, <1>5, ValidCarrier DEF Written
  <2>2. CarrierOf(job)[1] = f /\ CarrierOf(job)[2] = d /\ <<f, d>> \in Carriers
    BY <2>1
  <2>3. Nested(job.protocol, f, d, x) = Nested(job.protocol, f, d, ops)
    BY <1>4, <1>5, <2>2 DEF Written
  <2>4. x = ops
    BY <2>1, <2>2, <2>3, NestedSame
  <2>5. \A i \in 1 .. Len(air) : 0 + i = i
    BY <1>3
  <2> QED BY <1>1, <2>4, <2>5 DEF At, Sends, Same
<1> QED BY <1>2, <1>3, <1>5 DEF SentCode

----------------------------------------------------------------------------
(* Reading.                                                                *)

LEMMA ReadsLongSpace ==
  \A r, s, i : r.reads = "long space" =>
    (ReadsOne(r, s, i) <=> air[s + r.lead + i].d1 > r.than)
<1> SUFFICES ASSUME NEW r, NEW s, NEW i, r.reads = "long space"
             PROVE  ReadsOne(r, s, i) <=> air[s + r.lead + i].d1 > r.than
  OBVIOUS
<1> QED BY Zenon DEF ReadsOne

LEMMA ReadsShortSpace ==
  \A r, s, i : r.reads = "short space" =>
    (ReadsOne(r, s, i) <=> air[s + r.lead + i].d1 < r.than)
<1> SUFFICES ASSUME NEW r, NEW s, NEW i, r.reads = "short space"
             PROVE  ReadsOne(r, s, i) <=> air[s + r.lead + i].d1 < r.than
  OBVIOUS
<1> QED BY Zenon DEF ReadsOne

LEMMA ReadsLongMark ==
  \A r, s, i : r.reads = "long mark" =>
    (ReadsOne(r, s, i) <=> air[s + r.lead + i].d0 > r.than)
<1> SUFFICES ASSUME NEW r, NEW s, NEW i, r.reads = "long mark"
             PROVE  ReadsOne(r, s, i) <=> air[s + r.lead + i].d0 > r.than
  OBVIOUS
<1> QED BY Zenon DEF ReadsOne

LEMMA ReadsAMark ==
  \A r, s, i : r.reads = "mark" =>
    (ReadsOne(r, s, i) <=> air[s + r.lead + i].first = 0)
BY DEF ReadsOne

LEMMA ReadsSpaceFirst ==
  \A r, s, i : r.reads = "space first" =>
    (ReadsOne(r, s, i) <=> air[s + r.lead + (2 * i - 1)].first = 1)
<1> SUFFICES ASSUME NEW r, NEW s, NEW i, r.reads = "space first"
             PROVE  ReadsOne(r, s, i) <=> air[s + r.lead + (2 * i - 1)].first = 1
  OBVIOUS
<1> QED BY Zenon DEF ReadsOne

LEMMA ReadsHalves ==
  \A r, s, i : r.reads = "halves" =>
    (ReadsOne(r, s, i) <=> air[s + r.lead + (IF i > 32 THEN i + 2 ELSE i)].d1 > r.than)
BY DEF ReadsOne

LEMMA ReadsBlocks ==
  \A r, s, i : r.reads = "blocks" =>
    (ReadsOne(r, s, i) <=> air[s + r.lead + (IF i > 16 THEN i + 1 ELSE i)].d1 > r.than)
BY DEF ReadsOne

LEMMA ReadsQuarters ==
  \A r, s, i : r.reads = "quarters" =>
    (ReadsOne(r, s, i) <=> LET d == air[s + r.lead + 2 * ((i + 1) \div 2)].d1
                             IN  IF i % 2 = 1 THEN d > 530 ELSE d \in 360 .. 530 \/ d > 690)
BY DEF ReadsOne

\* The received word, from its bits.
LEMMA ReceivedIs ==
  ASSUME NEW r, NEW n \in Nat, r.bits = n, NEW copy, NEW w, w \subseteq 0 .. n - 1,
         \A i \in 1 .. n : ReadsOne(r, (copy - 1) * r.size, i) <=> n - i \in w
  PROVE  Received(r, copy) = w
<1>1. Received(r, copy) = {n - i : i \in {k \in 1 .. n : n - k \in w}}
  BY DEF Received
<1>2. ASSUME NEW b \in w PROVE b \in Received(r, copy)
  <2>1. n - b \in 1 .. n /\ n - (n - b) = b
    OBVIOUS
  <2> QED BY <1>1, <2>1
<1>3. ASSUME NEW b \in Received(r, copy) PROVE b \in w
  BY <1>1
<1> QED BY <1>2, <1>3

\* A message in the air.
Carries(k, one, zero, word, n) ==
  \A i \in 1 .. n : Same(air[k + i], Bit(one, zero, word, n, i))

LEMMA MessageAt ==
  ASSUME NEW header, NEW one, NEW zero, NEW footer, NEW word, NEW n \in Nat,
         header = None \/ (Lights(header) /\ header[2] # 0), Lights(one), Lights(zero),
         footer \in Shape, footer[1] = 0 \/ Lights(footer), NEW k \in Nat, NEW m,
         At(k, Message(header, one, zero, footer, word, n), m)
  PROVE  LET lead == IF header = None THEN 0 ELSE 1
             foot == IF footer[1] = 0 THEN 0 ELSE 1
         IN  /\ m = (lead + n) + foot
             /\ Carries(k + lead, one, zero, word, n)
             /\ foot = 1 => Same(air[k + m], PulseOf(footer))
<1> DEFINE ops == Message(header, one, zero, footer, word, n)
           lead == IF header = None THEN 0 ELSE 1
           foot == IF footer[1] = 0 THEN 0 ELSE 1
<1>1. /\ Sends(ops, (lead + n) + foot)
      /\ \A i \in 1 .. n : Sent(ops)[lead + i] = Bit(one, zero, word, n, i)
      /\ foot = 1 => Sent(ops)[(lead + n) + 1] = PulseOf(footer)
  BY MessagePulses
<1>2. lead \in {0, 1} /\ foot \in {0, 1} /\ At(k, ops, m)
  OBVIOUS
<1> HIDE DEF ops, lead, foot
<1>3. m = (lead + n) + foot
  BY <1>1, <1>2 DEF At, Sends
<1>4. \A i \in 1 .. m : Same(air[k + i], Sent(ops)[i])
  BY <1>2 DEF At
<1>5. ASSUME NEW i \in 1 .. n PROVE Same(air[(k + lead) + i], Bit(one, zero, word, n, i))
  <2>1. lead + i \in 1 .. m /\ k + (lead + i) = (k + lead) + i
    BY <1>2, <1>3
  <2> QED BY <1>1, <1>4, <2>1
<1>6. foot = 1 => Same(air[k + m], PulseOf(footer))
  <2>1. foot = 1 => m = (lead + n) + 1 /\ m \in 1 .. m
    BY <1>2, <1>3
  <2> QED BY <1>1, <1>4, <2>1
<1> QED BY <1>3, <1>5, <1>6 DEF Carries, lead, foot

Distinct(r, one, zero) ==
  \/ r.reads = "long space" /\ PulseOf(one).d1 > r.than /\ ~ (PulseOf(zero).d1 > r.than)
  \/ r.reads = "short space" /\ PulseOf(one).d1 < r.than /\ ~ (PulseOf(zero).d1 < r.than)
  \/ r.reads = "long mark" /\ PulseOf(one).d0 > r.than /\ ~ (PulseOf(zero).d0 > r.than)

LEMMA ReadCopy ==
  ASSUME NEW r, NEW n \in Nat, r.bits = n, NEW copy, NEW one, NEW zero, NEW word, NEW w,
         w \subseteq 0 .. n - 1, \A b \in 0 .. n - 1 : b \in word <=> b \in w,
         Distinct(r, one, zero),
         NEW k, k = (copy - 1) * r.size + r.lead, Carries(k, one, zero, word, n)
  PROVE  Received(r, copy) = w
<1>1. ASSUME NEW i \in 1 .. n
      PROVE  ReadsOne(r, (copy - 1) * r.size, i) <=> n - i \in w
  <2> DEFINE s == (copy - 1) * r.size
             q == PulseOf(IF n - i \in word THEN one ELSE zero)
  <2>1. air[s + r.lead + i].d0 = q.d0 /\ air[s + r.lead + i].d1 = q.d1
    BY DEF Carries, Same, Bit
  <2>2. n - i \in 0 .. n - 1 /\ (n - i \in word <=> n - i \in w)
    <3>1. n - i \in 0 .. n - 1
      OBVIOUS
    <3> QED BY <3>1
  <2>3. n - i \in w => q = PulseOf(one)
    BY <2>2
  <2>4. n - i \notin w => q = PulseOf(zero)
    BY <2>2
  <2> HIDE DEF s, q
  <2>5. CASE r.reads = "long space"
    <3>1. PulseOf(one).d1 > r.than /\ ~ (PulseOf(zero).d1 > r.than)
      BY <2>5 DEF Distinct
    <3>2. ReadsOne(r, s, i) <=> q.d1 > r.than
      BY <2>1, <2>5, ReadsLongSpace
    <3> QED BY <2>3, <2>4, <3>1, <3>2 DEF s
  <2>6. CASE r.reads = "short space"
    <3>1. PulseOf(one).d1 < r.than /\ ~ (PulseOf(zero).d1 < r.than)
      BY <2>6 DEF Distinct
    <3>2. ReadsOne(r, s, i) <=> q.d1 < r.than
      BY <2>1, <2>6, ReadsShortSpace
    <3> QED BY <2>3, <2>4, <3>1, <3>2 DEF s
  <2>7. CASE r.reads = "long mark"
    <3>1. PulseOf(one).d0 > r.than /\ ~ (PulseOf(zero).d0 > r.than)
      BY <2>7 DEF Distinct
    <3>2. ReadsOne(r, s, i) <=> q.d0 > r.than
      BY <2>1, <2>7, ReadsLongMark
    <3> QED BY <2>3, <2>4, <3>1, <3>2 DEF s
  <2> QED BY <2>5, <2>6, <2>7 DEF Distinct
<1> QED BY <1>1, ReceivedIs

----------------------------------------------------------------------------
(* What the receiver of each protocol makes of it.                         *)

\* Data word and stored word of a code that fits (FitsData).
Says(p, word, w) ==
  /\ w \subseteq 0 .. 31 /\ w \subseteq 0 .. DataBits(p) - 1
  /\ \A b \in 0 .. 31 : b \in word <=> b \in w
  /\ DataBits(p) # 32 => word = w

LEMMA SaysBits ==
  ASSUME NEW p, NEW n \in Nat, DataBits(p) = n, NEW word, NEW w, Says(p, word, w)
  PROVE  w \subseteq 0 .. n - 1 /\ \A b \in 0 .. n - 1 : b \in word <=> b \in w
<1>1. n = 32 => \A b \in 0 .. n - 1 : b \in 0 .. 31
  OBVIOUS
<1> QED BY <1>1 DEF Says

LEMMA MeantPlain ==
  \A p, w, copy : p \notin {"AIWA", "PANASONIC", "DENON"} => Meant(p, w, copy) = w
<1> SUFFICES ASSUME NEW p, NEW w, NEW copy, p \notin {"AIWA", "PANASONIC", "DENON"}
             PROVE  Meant(p, w, copy) = w
  OBVIOUS
<1>1. p # "AIWA" /\ p # "PANASONIC" /\ p # "DENON"
  OBVIOUS
<1> QED BY <1>1, Zenon DEF Meant

LEMMA BitsPlain ==
  \A p : p \notin {"AIWA", "PANASONIC"} => DataBits(p) = Receivers[p].bits
BY DEF DataBits

\* The shapes a protocol's message is made of, and a receiver that can read it.
Format(header, one, zero, footer) ==
  [header |-> header, one |-> one, zero |-> zero, footer |-> footer]
MessageOf(f, word, n) == Message(f.header, f.one, f.zero, f.footer, word, n)
Lead(f) == IF f.header = None THEN 0 ELSE 1
Foot(f) == IF f.footer[1] = 0 THEN 0 ELSE 1
Framed(f) ==
  /\ f.header = None \/ (Lights(f.header) /\ f.header[2] # 0)
  /\ Lights(f.one) /\ Lights(f.zero)
  /\ f.footer \in Shape /\ (f.footer[1] = 0 \/ Lights(f.footer))
Rests(gap, f) ==
  IF f.footer[1] = 0 THEN PulseOf(f.one).d1 >= gap /\ PulseOf(f.zero).d1 >= gap
  ELSE PulseOf(f.footer).d1 >= gap
Rested(p, r, f) == p \in Gapless \/ Rests(r.gap, f)
Reader(p, r, f, n) ==
  /\ Framed(f) /\ Distinct(r, f.one, f.zero) /\ Rested(p, r, f)
  /\ n \in Nat /\ n > 0 /\ r.bits = n /\ r.lead = Lead(f) /\ r.size = (Lead(f) + n) + Foot(f)

\* A copy of the message of word, after k items; word is what the copy should carry.
Copied(r, copy, f, word, n, k) ==
  k \in Nat /\ k = (copy - 1) * r.size /\ k + r.size = copy * r.size
    /\ At(k, MessageOf(f, word, n), r.size)
Reaches(p, data, word, n, copy) ==
  \A w : Says(p, data, w) => /\ Meant(p, w, copy) \subseteq 0 .. n - 1
                             /\ \A b \in 0 .. n - 1 : b \in word <=> b \in Meant(p, w, copy)
CopyHeard(p, data, r, copy) ==
  /\ p \in Gapless \/ air[copy * r.size].d1 >= r.gap
  /\ \A w : Says(p, data, w) => Received(r, copy) = Meant(p, w, copy)
Hears(p, data) ==
  LET r == Receivers[p]
  IN  /\ Len(air) = r.copies * r.size + r.rest
      /\ \A copy \in 1 .. r.copies : CopyHeard(p, data, r, copy)

LEMMA ReachesPlain ==
  ASSUME NEW p, p \notin {"AIWA", "PANASONIC", "DENON"}, NEW n \in Nat, Receivers[p].bits = n,
         NEW word, NEW copy
  PROVE  Reaches(p, word, word, n, copy)
<1>1. DataBits(p) = n
  BY BitsPlain
<1>2. ASSUME NEW w, Says(p, word, w)
      PROVE  /\ Meant(p, w, copy) \subseteq 0 .. n - 1
             /\ \A b \in 0 .. n - 1 : b \in word <=> b \in Meant(p, w, copy)
  <2>1. Meant(p, w, copy) = w
    BY MeantPlain
  <2> QED BY <1>1, <1>2, <2>1, SaysBits
<1> QED BY <1>2 DEF Reaches

LEMMA EndOfMessage ==
  ASSUME NEW f, NEW n \in Nat, n > 0, NEW word, Framed(f), NEW k \in Nat, NEW m,
         At(k, MessageOf(f, word, n), m)
  PROVE  /\ m = (Lead(f) + n) + Foot(f)
         /\ Carries(k + Lead(f), f.one, f.zero, word, n)
         /\ \A gap : Rests(gap, f) => air[k + m].d1 >= gap
<1> DEFINE lead == Lead(f)
           foot == Foot(f)
<1>1. /\ m = (lead + n) + foot
      /\ Carries(k + lead, f.one, f.zero, word, n)
      /\ foot = 1 => Same(air[k + m], PulseOf(f.footer))
  BY MessageAt DEF Framed, Lead, Foot, MessageOf
<1>2. lead \in {0, 1} /\ foot \in {0, 1} /\ (f.footer[1] # 0 <=> foot = 1)
  BY DEF Lead, Foot
<1> HIDE DEF lead, foot
<1>3. ASSUME f.footer[1] = 0
      PROVE  air[k + m].d1 = PulseOf(f.one).d1 \/ air[k + m].d1 = PulseOf(f.zero).d1
  <2>1. n \in 1 .. n /\ k + m = (k + lead) + n
    BY <1>1, <1>2, <1>3
  <2>2. Same(air[(k + lead) + n], Bit(f.one, f.zero, word, n, n))
    BY <1>1, <2>1 DEF Carries
  <2>3. Bit(f.one, f.zero, word, n, n) \in {PulseOf(f.one), PulseOf(f.zero)}
    BY DEF Bit
  <2> QED BY <2>1, <2>2, <2>3 DEF Same
<1>4. ASSUME NEW gap, Rests(gap, f) PROVE air[k + m].d1 >= gap
  <2>1. CASE f.footer[1] = 0
    BY <1>3, <1>4, <2>1 DEF Rests
  <2>2. CASE f.footer[1] # 0
    BY <1>1, <1>2, <1>4, <2>2 DEF Rests, Same
  <2> QED BY <2>1, <2>2
<1> QED BY <1>1, <1>4 DEF lead, foot

LEMMA HearsCopy ==
  \A p, data, r, copy, f, word, n, k :
    Reader(p, r, f, n) /\ Copied(r, copy, f, word, n, k) /\ Reaches(p, data, word, n, copy)
      => CopyHeard(p, data, r, copy)
<1> SUFFICES ASSUME NEW p, NEW data, NEW r, NEW copy, NEW f, NEW word, NEW n, NEW k, Reader(p, r, f, n),
                    Copied(r, copy, f, word, n, k), Reaches(p, data, word, n, copy)
             PROVE  CopyHeard(p, data, r, copy)
  OBVIOUS
<1>1. /\ Framed(f) /\ Distinct(r, f.one, f.zero) /\ Rested(p, r, f)
      /\ n \in Nat /\ n > 0 /\ r.bits = n /\ r.lead = Lead(f) /\ r.size = (Lead(f) + n) + Foot(f)
  BY DEF Reader, Rested
<1>2. /\ k \in Nat /\ k = (copy - 1) * r.size /\ k + r.size = copy * r.size
      /\ At(k, MessageOf(f, word, n), r.size)
  BY DEF Copied
<1>3. /\ Carries(k + Lead(f), f.one, f.zero, word, n)
      /\ p \in Gapless \/ air[k + r.size].d1 >= r.gap
  BY <1>1, <1>2, EndOfMessage DEF Rested
<1>4. ASSUME NEW w, Says(p, data, w) PROVE Received(r, copy) = Meant(p, w, copy)
  <2> DEFINE t == k + Lead(f)
             v == Meant(p, w, copy)
  <2>1. t = (copy - 1) * r.size + r.lead /\ Carries(t, f.one, f.zero, word, n)
    BY <1>1, <1>2, <1>3
  <2>2. v \subseteq 0 .. n - 1 /\ \A b \in 0 .. n - 1 : b \in word <=> b \in v
    BY <1>4 DEF Reaches
  <2> HIDE DEF t, v
  <2>3. Received(r, copy) = v
    BY <1>1, <2>1, <2>2, ReadCopy
  <2> QED BY <2>3 DEF v
<1> QED BY <1>2, <1>3, <1>4 DEF CopyHeard

\* The codes of one message, with what may follow it.
LEMMA HearsOne ==
  ASSUME NEW p, NEW data, NEW f, NEW word, NEW n, NEW r, r = Receivers[p], Reader(p, r, f, n),
         r.copies = 1, Reaches(p, data, word, n, 1), At(0, MessageOf(f, word, n), r.size),
         r.size \in Nat, Len(air) = r.size + r.rest
  PROVE  Hears(p, data)
<1> DEFINE first == 1
           k == 0
<1>1. Copied(r, first, f, word, n, k)
  BY DEF Copied
<1>2. Reaches(p, data, word, n, first)
  OBVIOUS
<1> HIDE DEF k, first
<1>3. CopyHeard(p, data, r, first)
  BY <1>1, <1>2, HearsCopy
<1>4. Len(air) = r.copies * r.size + r.rest /\ \A copy \in 1 .. r.copies : copy = first
  BY DEF first
<1> QED BY <1>3, <1>4 DEF Hears

----------------------------------------------------------------------------
(* The protocols.                                                          *)

LEMMA PulseValue ==
  \A m, s \in Nat : PulseOf(<<m, s>>).d0 = Ticks(m) /\ PulseOf(<<m, s>>).d1 = Ticks(Capped(s))
BY DEF PulseOf, Pulse

LEMMA LightsLit ==
  \A m, s \in Nat : 10 <= m /\ m <= 32767 => Lights(<<m, s>>) /\ <<m, s>> # None /\ <<m, s>>[2] = s
BY DEF Lights, Lit, Shape, None

LEMMA ReceiverFields ==
  ASSUME NEW bits, NEW lead, NEW size, NEW copies, NEW rest, NEW reads, NEW than, NEW gap,
         NEW r, r = Receiver(bits, lead, size, copies, rest, reads, than, gap)
  PROVE  /\ r.bits = bits /\ r.lead = lead /\ r.size = size /\ r.copies = copies /\ r.rest = rest
         /\ r.reads = reads /\ r.than = than /\ r.gap = gap
BY DEF Receiver

\* Names for the ways to read a bit: the provers mix strings and numbers badly.
LongSpace == "long space"
ShortSpace == "short space"
LongMark == "long mark"
LEMMA Reading ==
  \A r, one, zero :
    /\ r.reads = LongSpace /\ PulseOf(one).d1 > r.than /\ ~ (PulseOf(zero).d1 > r.than)
         => Distinct(r, one, zero)
    /\ r.reads = ShortSpace /\ PulseOf(one).d1 < r.than /\ ~ (PulseOf(zero).d1 < r.than)
         => Distinct(r, one, zero)
    /\ r.reads = LongMark /\ PulseOf(one).d0 > r.than /\ ~ (PulseOf(zero).d0 > r.than)
         => Distinct(r, one, zero)
<1>1. ASSUME NEW r, NEW one, NEW zero, r.reads = LongSpace,
             PulseOf(one).d1 > r.than, ~ (PulseOf(zero).d1 > r.than)
      PROVE  Distinct(r, one, zero)
  BY <1>1 DEF Distinct, LongSpace
<1>2. ASSUME NEW r, NEW one, NEW zero, r.reads = ShortSpace,
             PulseOf(one).d1 < r.than, ~ (PulseOf(zero).d1 < r.than)
      PROVE  Distinct(r, one, zero)
  BY <1>2 DEF Distinct, ShortSpace
<1>3. ASSUME NEW r, NEW one, NEW zero, r.reads = LongMark,
             PulseOf(one).d0 > r.than, ~ (PulseOf(zero).d0 > r.than)
      PROVE  Distinct(r, one, zero)
  BY <1>3 DEF Distinct, LongMark
<1> QED BY <1>1, <1>2, <1>3

SentAs(p, word) == job.kind = "code" /\ job.protocol = p /\ SentCode(word) /\ Len(air) \in Nat

LEMMA SentOps ==
  \A p, word, f, d, ops : SentAs(p, word) /\ Written(job, word, f, d, ops) => At(0, ops, Len(air))
BY DEF SentAs, SentCode

LEMMA FormatFields ==
  ASSUME NEW h, NEW o, NEW z, NEW t, NEW f, f = Format(h, o, z, t)
  PROVE  f.header = h /\ f.one = o /\ f.zero = z /\ f.footer = t
BY DEF Format

LEMMA LightsShape == \A s : Lights(s) => s \in Shape /\ s[1] # 0 /\ s # None
BY DEF Lights, Lit, Shape, None

\* One message with a header and a footer, and what the protocol sends after it.
OneFrame(p, data, r, h, o, z, t, word, n, tail) ==
  /\ n \in Nat /\ n > 0
  /\ Lights(h) /\ h[2] # 0 /\ Lights(o) /\ Lights(z) /\ Lights(t)
  /\ r = Receivers[p] /\ r.bits = n /\ r.lead = 1 /\ r.size = n + 2 /\ r.copies = 1
  /\ r.rest \in Nat /\ Distinct(r, o, z) /\ PulseOf(t).d1 >= r.gap
  /\ Reaches(p, data, word, n, 1)
  /\ Sends(tail, r.rest)
  /\ At(0, SendGeneric(h, o, z, t, word, n, 0) \o tail, Len(air))

LEMMA HearsFrame ==
  \A p, data, r, h, o, z, t, word, n, tail :
    OneFrame(p, data, r, h, o, z, t, word, n, tail) => Hears(p, data)
<1> SUFFICES ASSUME NEW p, NEW data, NEW r, NEW h, NEW o, NEW z, NEW t, NEW word, NEW n, NEW tail,
                    OneFrame(p, data, r, h, o, z, t, word, n, tail)
             PROVE  Hears(p, data)
  OBVIOUS
<1>1. /\ n \in Nat /\ n > 0
      /\ Lights(h) /\ h[2] # 0 /\ Lights(o) /\ Lights(z) /\ Lights(t)
      /\ r = Receivers[p] /\ r.bits = n /\ r.lead = 1 /\ r.size = n + 2 /\ r.copies = 1
      /\ r.rest \in Nat /\ Distinct(r, o, z) /\ PulseOf(t).d1 >= r.gap
      /\ Reaches(p, data, word, n, 1)
      /\ Sends(tail, r.rest)
      /\ At(0, SendGeneric(h, o, z, t, word, n, 0) \o tail, Len(air))
  BY DEF OneFrame
<1> DEFINE f == Format(h, o, z, t)
           ops == MessageOf(f, word, n)
<1>2. f.header = h /\ f.one = o /\ f.zero = z /\ f.footer = t
  BY FormatFields
<1>3. /\ h \in Shape /\ o \in Shape /\ z \in Shape /\ t \in Shape
      /\ h[1] # 0 /\ t[1] # 0 /\ h # None
  BY <1>1, LightsShape
<1>4. SendGeneric(h, o, z, t, word, n, 0) = ops
  BY <1>1, <1>2, <1>3, OnceIsMessage DEF MessageOf
<1> HIDE DEF f
<1>5. Framed(f) /\ Lead(f) = 1 /\ Foot(f) = 1 /\ Rests(r.gap, f)
  BY <1>1, <1>2, <1>3 DEF Framed, Lead, Foot, Rests
<1>6. Reader(p, r, f, n)
  <2>1. r.size = (Lead(f) + n) + Foot(f)
    BY <1>1, <1>5
  <2>2. Distinct(r, f.one, f.zero)
    BY <1>1, <1>2
  <2> QED BY <1>1, <1>5, <2>1, <2>2 DEF Reader, Rested
<1>7. Sends(ops, n + 2)
  <2>1. /\ f.header = None \/ (Lights(f.header) /\ f.header[2] # 0)
        /\ Lights(f.one) /\ Lights(f.zero)
        /\ f.footer \in Shape /\ (f.footer[1] = 0 \/ Lights(f.footer))
    BY <1>5 DEF Framed
  <2>2. Sends(ops, (Lead(f) + n) + Foot(f))
    BY <1>1, <2>1, MessagePulses DEF MessageOf, Lead, Foot
  <2>3. (Lead(f) + n) + Foot(f) = n + 2
    BY <1>1, <1>5
  <2> QED BY <2>2, <2>3
<1> DEFINE m == n + 2
           l == r.rest
           k == 0
<1>8. /\ m \in Nat /\ l \in Nat /\ k \in Nat /\ Sends(ops, m) /\ Sends(tail, l)
      /\ At(k, ops \o tail, Len(air))
  BY <1>1, <1>4, <1>7
<1> HIDE DEF ops, m, l, k
<1>9. Len(air) = m + l /\ At(k, ops, m)
  BY SMTT(30), <1>8, AtBoth
<1>10. /\ At(0, MessageOf(f, word, n), r.size) /\ r.size \in Nat /\ Len(air) = r.size + r.rest
  BY <1>1, <1>9 DEF m, l, k, ops
<1> QED BY <1>1, <1>6, <1>10, HearsOne

LEMMA NoTail ==
  /\ Sends(<< >>, 0)
  /\ \A ops \in Seq(Writes) : ops \o << >> = ops
BY EmptySeq, SentNone, ConcatEmptySeq DEF Sends

LEMMA LightGeneric ==
  \A h, o, z, t, word : \A n \in Nat :
    Lights(h) /\ Lights(o) /\ Lights(z) /\ Lights(t)
      => SendGeneric(h, o, z, t, word, n, 0) \in Seq(Writes)
BY LightsShape, GenericType

LEMMA Hears_NEC ==
  \A word : SentAs("NEC", word) => Hears("NEC", word)
<1> SUFFICES ASSUME NEW word, SentAs("NEC", word) PROVE Hears("NEC", word)
  OBVIOUS
<1> DEFINE h == <<8960, 4480>>
           o == <<560, 1680>>
           z == <<560, 560>>
           t == <<560, 22400>>
           r == Receivers["NEC"]
<1>1. Lights(h) /\ Lights(o) /\ Lights(z) /\ Lights(t) /\ h[2] # 0
  BY LightsLit
<1>2. PulseOf(o).d1 = 1680 /\ PulseOf(z).d1 = 560 /\ PulseOf(t).d1 = 22400
  BY PulseValue DEF Ticks, Capped
<1>3. r = Receiver(32, 1, 34, 1, 0, LongSpace, 1000, 22400)
  BY DEF Receivers, LongSpace
<1>4. sendNEC(word, 32, 0) = SendGeneric(h, o, z, t, word, 32, 0) \o << >>
  BY DEF sendNEC
<1> HIDE DEF h, o, z, t, r
<1>5. At(0, sendNEC(word, 32, 0), Len(air))
  BY SentOps, Writes_NEC DEF SentAs
<1>6. /\ r.bits = 32 /\ r.lead = 1 /\ r.size = 34 /\ r.copies = 1 /\ r.rest = 0
      /\ r.reads = LongSpace /\ r.than = 1000 /\ r.gap = 22400
  BY <1>3, ReceiverFields
<1>7. Distinct(r, o, z)
  BY <1>2, <1>6, Reading
<1>8. Reaches("NEC", word, word, 32, 1)
  BY <1>6, ReachesPlain DEF r
<1>9. OneFrame("NEC", word, r, h, o, z, t, word, 32, << >>)
  BY <1>1, <1>2, <1>4, <1>5, <1>6, <1>7, <1>8, NoTail DEF OneFrame, r
<1> QED BY <1>9, HearsFrame

\* The Aiwa's prefix and suffix, the Panasonic's address.
LEMMA AiwaReaches == \A word : Reaches("AIWA", word, AiwaWord(word), 42, 1)
<1> SUFFICES ASSUME NEW word, NEW w, Says("AIWA", word, w)
             PROVE  /\ Meant("AIWA", w, 1) \subseteq 0 .. 42 - 1
                    /\ \A b \in 0 .. 42 - 1 : b \in AiwaWord(word) <=> b \in Meant("AIWA", w, 1)
  BY DEF Reaches
<1>1. DataBits("AIWA") = 15
  BY DEF DataBits
<1>2. word = w /\ w \subseteq 0 .. 14
  BY <1>1 DEF Says
<1>3. Meant("AIWA", w, 1) = {b + 1 : b \in w} \cup {b + 16 : b \in kAiwaRcT501PreData} \cup {0}
  BY DEF Meant
<1>4. AiwaWord(w) = ({b + 16 : b \in kAiwaRcT501PreData} \cap 0 .. 63)
                      \cup ({b + 1 : b \in w} \cap 0 .. 63) \cup {0}
  BY DEF AiwaWord, Raised
<1>5. \A b \in kAiwaRcT501PreData : b + 16 \in 0 .. 41
  BY DEF kAiwaRcT501PreData
<1>6. \A b \in w : b + 1 \in 0 .. 41
  BY <1>2
<1>7. \A b \in 0 .. 41 : b \in 0 .. 63
  OBVIOUS
<1> QED BY <1>2, <1>3, <1>4, <1>5, <1>6, <1>7

PanasonicWord(word) == {34, 46} \cup (word \cap 0 .. 31)
LEMMA PanasonicReaches == \A word : Reaches("PANASONIC", word, PanasonicWord(word), 48, 1)
<1> SUFFICES ASSUME NEW word, NEW w, Says("PANASONIC", word, w)
             PROVE  /\ Meant("PANASONIC", w, 1) \subseteq 0 .. 48 - 1
                    /\ \A b \in 0 .. 48 - 1 : b \in PanasonicWord(word) <=> b \in Meant("PANASONIC", w, 1)
  BY DEF Reaches
<1>1. w \subseteq 0 .. 31 /\ \A b \in 0 .. 31 : b \in word <=> b \in w
  BY DEF Says
<1>2. Meant("PANASONIC", w, 1) = w \cup {34, 46}
  BY DEF Meant
<1>3. \A b : b \in PanasonicWord(word) <=> b \in w \cup {34, 46}
  BY <1>1 DEF PanasonicWord
<1>4. \A b \in w \cup {34, 46} : b \in 0 .. 47
  BY <1>1
<1> QED BY <1>2, <1>3, <1>4

LEMMA Hears_SAMSUNG ==
  \A word : SentAs("SAMSUNG", word) => Hears("SAMSUNG", word)
<1> SUFFICES ASSUME NEW word, SentAs("SAMSUNG", word) PROVE Hears("SAMSUNG", word)
  OBVIOUS
<1> DEFINE h == <<4480, 4480>>
           o == <<560, 1680>>
           z == <<560, 560>>
           t == <<560, 26880>>
           r == Receivers["SAMSUNG"]
           tail == << >>
<1>1. Lights(h) /\ Lights(o) /\ Lights(z) /\ Lights(t) /\ h[2] # 0
  BY LightsLit
<1>2. PulseOf(o).d1 = 1680 /\ PulseOf(z).d1 = 560 /\ PulseOf(t).d1 = 26880
  BY PulseValue DEF Ticks, Capped
<1>3. r = Receiver(32, 1, 34, 1, 0, LongSpace, 1000, 26880)
  BY DEF Receivers, LongSpace
<1>4. sendSamsung(word) = SendGeneric(h, o, z, t, word, 32, 0) \o tail
  <2>1. sendSamsung(word) = SendGeneric(h, o, z, t, word, 32, 0)
    BY DEF sendSamsung
  <2> HIDE DEF h, o, z, t
  <2> QED BY <1>1, <2>1, LightGeneric, NoTail
<1>5. Sends(tail, 0)
  BY NoTail
<1> HIDE DEF h, o, z, t, r, tail
<1>6. At(0, SendGeneric(h, o, z, t, word, 32, 0) \o tail, Len(air))
  <2>1. At(0, sendSamsung(word), Len(air))
    BY SentOps, Writes_SAMSUNG DEF SentAs
  <2> QED BY <1>4, <2>1
<1>7. /\ r.bits = 32 /\ r.lead = 1 /\ r.size = 34 /\ r.copies = 1 /\ r.rest = 0
      /\ r.reads = LongSpace /\ r.than = 1000 /\ r.gap = 26880
  BY <1>3, ReceiverFields
<1>8. Distinct(r, o, z)
  BY <1>2, <1>7, Reading
<1>9. Reaches("SAMSUNG", word, word, 32, 1)
  BY <1>7, ReachesPlain DEF r
<1>10. OneFrame("SAMSUNG", word, r, h, o, z, t, word, 32, tail)
  BY <1>1, <1>2, <1>5, <1>6, <1>7, <1>8, <1>9 DEF OneFrame, r
<1> QED BY <1>10, HearsFrame

LEMMA Hears_SANYO_LC7461 ==
  \A word : SentAs("SANYO_LC7461", word) => Hears("SANYO_LC7461", word)
<1> SUFFICES ASSUME NEW word, SentAs("SANYO_LC7461", word) PROVE Hears("SANYO_LC7461", word)
  OBVIOUS
<1> DEFINE h == <<8960, 4480>>
           o == <<560, 1680>>
           z == <<560, 560>>
           t == <<560, 22400>>
           r == Receivers["SANYO_LC7461"]
           tail == << >>
<1>1. Lights(h) /\ Lights(o) /\ Lights(z) /\ Lights(t) /\ h[2] # 0
  BY LightsLit
<1>2. PulseOf(o).d1 = 1680 /\ PulseOf(z).d1 = 560 /\ PulseOf(t).d1 = 22400
  BY PulseValue DEF Ticks, Capped
<1>3. r = Receiver(42, 1, 44, 1, 0, LongSpace, 1000, 22400)
  BY DEF Receivers, LongSpace
<1>4. sendNEC(word, 42, 0) = SendGeneric(h, o, z, t, word, 42, 0) \o tail
  BY DEF sendNEC
<1>5. Sends(tail, 0)
  BY NoTail
<1> HIDE DEF h, o, z, t, r, tail
<1>6. At(0, SendGeneric(h, o, z, t, word, 42, 0) \o tail, Len(air))
  <2>1. At(0, sendNEC(word, 42, 0), Len(air))
    BY SentOps, Writes_SANYO_LC7461 DEF SentAs
  <2> QED BY <1>4, <2>1
<1>7. /\ r.bits = 42 /\ r.lead = 1 /\ r.size = 44 /\ r.copies = 1 /\ r.rest = 0
      /\ r.reads = LongSpace /\ r.than = 1000 /\ r.gap = 22400
  BY <1>3, ReceiverFields
<1>8. Distinct(r, o, z)
  BY <1>2, <1>7, Reading
<1>9. Reaches("SANYO_LC7461", word, word, 42, 1)
  BY <1>7, ReachesPlain DEF r
<1>10. OneFrame("SANYO_LC7461", word, r, h, o, z, t, word, 42, tail)
  BY <1>1, <1>2, <1>5, <1>6, <1>7, <1>8, <1>9 DEF OneFrame, r
<1> QED BY <1>10, HearsFrame

LEMMA Hears_NIKAI ==
  \A word : SentAs("NIKAI", word) => Hears("NIKAI", word)
<1> SUFFICES ASSUME NEW word, SentAs("NIKAI", word) PROVE Hears("NIKAI", word)
  OBVIOUS
<1> DEFINE h == <<4000, 4000>>
           o == <<500, 1000>>
           z == <<500, 2000>>
           t == <<500, 8500>>
           r == Receivers["NIKAI"]
           tail == << >>
<1>1. Lights(h) /\ Lights(o) /\ Lights(z) /\ Lights(t) /\ h[2] # 0
  BY LightsLit
<1>2. PulseOf(o).d1 = 1000 /\ PulseOf(z).d1 = 2000 /\ PulseOf(t).d1 = 8500
  BY PulseValue DEF Ticks, Capped
<1>3. r = Receiver(24, 1, 26, 1, 0, ShortSpace, 1500, 8500)
  BY DEF Receivers, ShortSpace
<1>4. sendNikai(word) = SendGeneric(h, o, z, t, word, 24, 0) \o tail
  <2>1. sendNikai(word) = SendGeneric(h, o, z, t, word, 24, 0)
    BY DEF sendNikai
  <2> HIDE DEF h, o, z, t
  <2> QED BY <1>1, <2>1, LightGeneric, NoTail
<1>5. Sends(tail, 0)
  BY NoTail
<1> HIDE DEF h, o, z, t, r, tail
<1>6. At(0, SendGeneric(h, o, z, t, word, 24, 0) \o tail, Len(air))
  <2>1. At(0, sendNikai(word), Len(air))
    BY SentOps, Writes_NIKAI DEF SentAs
  <2> QED BY <1>4, <2>1
<1>7. /\ r.bits = 24 /\ r.lead = 1 /\ r.size = 26 /\ r.copies = 1 /\ r.rest = 0
      /\ r.reads = ShortSpace /\ r.than = 1500 /\ r.gap = 8500
  BY <1>3, ReceiverFields
<1>8. Distinct(r, o, z)
  BY <1>2, <1>7, Reading
<1>9. Reaches("NIKAI", word, word, 24, 1)
  BY <1>7, ReachesPlain DEF r
<1>10. OneFrame("NIKAI", word, r, h, o, z, t, word, 24, tail)
  BY <1>1, <1>2, <1>5, <1>6, <1>7, <1>8, <1>9 DEF OneFrame, r
<1> QED BY <1>10, HearsFrame

LEMMA Hears_LEGOPF ==
  \A word : SentAs("LEGOPF", word) => Hears("LEGOPF", word)
<1> SUFFICES ASSUME NEW word, SentAs("LEGOPF", word) PROVE Hears("LEGOPF", word)
  OBVIOUS
<1> DEFINE h == <<158, 1026>>
           o == <<158, 553>>
           z == <<158, 263>>
           t == <<158, 1026>>
           r == Receivers["LEGOPF"]
           tail == << >>
<1>1. Lights(h) /\ Lights(o) /\ Lights(z) /\ Lights(t) /\ h[2] # 0
  BY LightsLit
<1>2. PulseOf(o).d1 = 550 /\ PulseOf(z).d1 = 260 /\ PulseOf(t).d1 = 1020
  BY PulseValue DEF Ticks, Capped
<1>3. r = Receiver(16, 1, 18, 1, 0, LongSpace, 400, 1020)
  BY DEF Receivers, LongSpace
<1>4. sendLegoPf(word) = SendGeneric(h, o, z, t, word, 16, 0) \o tail
  <2>1. sendLegoPf(word) = SendGeneric(h, o, z, t, word, 16, 0)
    BY DEF sendLegoPf
  <2> HIDE DEF h, o, z, t
  <2> QED BY <1>1, <2>1, LightGeneric, NoTail
<1>5. Sends(tail, 0)
  BY NoTail
<1> HIDE DEF h, o, z, t, r, tail
<1>6. At(0, SendGeneric(h, o, z, t, word, 16, 0) \o tail, Len(air))
  <2>1. At(0, sendLegoPf(word), Len(air))
    BY SentOps, Writes_LEGOPF DEF SentAs
  <2> QED BY <1>4, <2>1
<1>7. /\ r.bits = 16 /\ r.lead = 1 /\ r.size = 18 /\ r.copies = 1 /\ r.rest = 0
      /\ r.reads = LongSpace /\ r.than = 400 /\ r.gap = 1020
  BY <1>3, ReceiverFields
<1>8. Distinct(r, o, z)
  BY <1>2, <1>7, Reading
<1>9. Reaches("LEGOPF", word, word, 16, 1)
  BY <1>7, ReachesPlain DEF r
<1>10. OneFrame("LEGOPF", word, r, h, o, z, t, word, 16, tail)
  BY <1>1, <1>2, <1>5, <1>6, <1>7, <1>8, <1>9 DEF OneFrame, r
<1> QED BY <1>10, HearsFrame

LEMMA Hears_PANASONIC_64 ==
  \A word : SentAs("PANASONIC_64", word) => Hears("PANASONIC_64", word)
<1> SUFFICES ASSUME NEW word, SentAs("PANASONIC_64", word) PROVE Hears("PANASONIC_64", word)
  OBVIOUS
<1> DEFINE h == <<3456, 1728>>
           o == <<432, 1296>>
           z == <<432, 432>>
           t == <<432, 74736>>
           r == Receivers["PANASONIC_64"]
           tail == << >>
<1>1. Lights(h) /\ Lights(o) /\ Lights(z) /\ Lights(t) /\ h[2] # 0
  BY LightsLit
<1>2. PulseOf(o).d1 = 1290 /\ PulseOf(z).d1 = 430 /\ PulseOf(t).d1 = 32760
  BY PulseValue DEF Ticks, Capped
<1>3. r = Receiver(48, 1, 50, 1, 0, LongSpace, 800, 32760)
  BY DEF Receivers, LongSpace
<1>4. sendPanasonic64(word) = SendGeneric(h, o, z, t, word, 48, 0) \o tail
  <2>1. sendPanasonic64(word) = SendGeneric(h, o, z, t, word, 48, 0)
    BY DEF sendPanasonic64
  <2> HIDE DEF h, o, z, t
  <2> QED BY <1>1, <2>1, LightGeneric, NoTail
<1>5. Sends(tail, 0)
  BY NoTail
<1> HIDE DEF h, o, z, t, r, tail
<1>6. At(0, SendGeneric(h, o, z, t, word, 48, 0) \o tail, Len(air))
  <2>1. At(0, sendPanasonic64(word), Len(air))
    BY SentOps, Writes_PANASONIC_64 DEF SentAs
  <2> QED BY <1>4, <2>1
<1>7. /\ r.bits = 48 /\ r.lead = 1 /\ r.size = 50 /\ r.copies = 1 /\ r.rest = 0
      /\ r.reads = LongSpace /\ r.than = 800 /\ r.gap = 32760
  BY <1>3, ReceiverFields
<1>8. Distinct(r, o, z)
  BY <1>2, <1>7, Reading
<1>9. Reaches("PANASONIC_64", word, word, 48, 1)
  BY <1>7, ReachesPlain DEF r
<1>10. OneFrame("PANASONIC_64", word, r, h, o, z, t, word, 48, tail)
  BY <1>1, <1>2, <1>5, <1>6, <1>7, <1>8, <1>9 DEF OneFrame, r
<1> QED BY <1>10, HearsFrame

LEMMA Hears_SHERWOOD ==
  \A word : SentAs("SHERWOOD", word) => Hears("SHERWOOD", word)
<1> SUFFICES ASSUME NEW word, SentAs("SHERWOOD", word) PROVE Hears("SHERWOOD", word)
  OBVIOUS
<1> DEFINE h == <<8960, 4480>>
           o == <<560, 1680>>
           z == <<560, 560>>
           t == <<560, 22400>>
           r == Receivers["SHERWOOD"]
           tail == SendGeneric(<<8960, 2240>>, None, None, <<560, 22400>>, {}, 0, 0)
<1>1. Lights(h) /\ Lights(o) /\ Lights(z) /\ Lights(t) /\ h[2] # 0
  BY LightsLit
<1>2. PulseOf(o).d1 = 1680 /\ PulseOf(z).d1 = 560 /\ PulseOf(t).d1 = 22400
  BY PulseValue DEF Ticks, Capped
<1>3. r = Receiver(32, 1, 34, 1, 2, LongSpace, 1000, 22400)
  BY DEF Receivers, LongSpace
<1>4. sendNEC(word, 32, 1) = SendGeneric(h, o, z, t, word, 32, 0) \o tail
  <2>1. 1 - 1 = 0
    OBVIOUS
  <2> QED BY <2>1 DEF sendNEC
<1>5. Sends(tail, 2)
  <2>1. Lights(<<8960, 2240>>) /\ <<8960, 2240>>[2] # 0 /\ Lights(<<560, 22400>>)
    BY LightsLit
  <2> QED BY <2>1, RepeatPulses
<1> HIDE DEF h, o, z, t, r, tail
<1>6. At(0, SendGeneric(h, o, z, t, word, 32, 0) \o tail, Len(air))
  <2>1. At(0, sendNEC(word, 32, 1), Len(air))
    BY SentOps, Writes_SHERWOOD DEF SentAs
  <2> QED BY <1>4, <2>1
<1>7. /\ r.bits = 32 /\ r.lead = 1 /\ r.size = 34 /\ r.copies = 1 /\ r.rest = 2
      /\ r.reads = LongSpace /\ r.than = 1000 /\ r.gap = 22400
  BY <1>3, ReceiverFields
<1>8. Distinct(r, o, z)
  BY <1>2, <1>7, Reading
<1>9. Reaches("SHERWOOD", word, word, 32, 1)
  BY <1>7, ReachesPlain DEF r
<1>10. OneFrame("SHERWOOD", word, r, h, o, z, t, word, 32, tail)
  BY <1>1, <1>2, <1>5, <1>6, <1>7, <1>8, <1>9 DEF OneFrame, r
<1> QED BY <1>10, HearsFrame

LEMMA Hears_GICABLE ==
  \A word : SentAs("GICABLE", word) => Hears("GICABLE", word)
<1> SUFFICES ASSUME NEW word, SentAs("GICABLE", word) PROVE Hears("GICABLE", word)
  OBVIOUS
<1> DEFINE h == <<9000, 4400>>
           o == <<550, 4400>>
           z == <<550, 2200>>
           t == <<550, 6450>>
           r == Receivers["GICABLE"]
           tail == SendGeneric(<<9000, 2200>>, None, None, <<550, 6450>>, {}, 0, 0)
<1>1. Lights(h) /\ Lights(o) /\ Lights(z) /\ Lights(t) /\ h[2] # 0
  BY LightsLit
<1>2. PulseOf(o).d1 = 4400 /\ PulseOf(z).d1 = 2200 /\ PulseOf(t).d1 = 6450
  BY PulseValue DEF Ticks, Capped
<1>3. r = Receiver(16, 1, 18, 1, 2, LongSpace, 3000, 6450)
  BY DEF Receivers, LongSpace
<1>4. sendGICable(word) = SendGeneric(h, o, z, t, word, 16, 0) \o tail
  BY DEF sendGICable
<1>5. Sends(tail, 2)
  <2>1. Lights(<<9000, 2200>>) /\ <<9000, 2200>>[2] # 0 /\ Lights(<<550, 6450>>)
    BY LightsLit
  <2> QED BY <2>1, RepeatPulses
<1> HIDE DEF h, o, z, t, r, tail
<1>6. At(0, SendGeneric(h, o, z, t, word, 16, 0) \o tail, Len(air))
  <2>1. At(0, sendGICable(word), Len(air))
    BY SentOps, Writes_GICABLE DEF SentAs
  <2> QED BY <1>4, <2>1
<1>7. /\ r.bits = 16 /\ r.lead = 1 /\ r.size = 18 /\ r.copies = 1 /\ r.rest = 2
      /\ r.reads = LongSpace /\ r.than = 3000 /\ r.gap = 6450
  BY <1>3, ReceiverFields
<1>8. Distinct(r, o, z)
  BY <1>2, <1>7, Reading
<1>9. Reaches("GICABLE", word, word, 16, 1)
  BY <1>7, ReachesPlain DEF r
<1>10. OneFrame("GICABLE", word, r, h, o, z, t, word, 16, tail)
  BY <1>1, <1>2, <1>5, <1>6, <1>7, <1>8, <1>9 DEF OneFrame, r
<1> QED BY <1>10, HearsFrame

LEMMA Hears_AIWA ==
  \A word : SentAs("AIWA", word) => Hears("AIWA", word)
<1> SUFFICES ASSUME NEW word, SentAs("AIWA", word) PROVE Hears("AIWA", word)
  OBVIOUS
<1> DEFINE h == <<8960, 4480>>
           o == <<560, 1680>>
           z == <<560, 560>>
           t == <<560, 22400>>
           r == Receivers["AIWA"]
           tail == SendGeneric(<<8960, 2240>>, None, None, <<560, 22400>>, {}, 0, 0)
<1>1. Lights(h) /\ Lights(o) /\ Lights(z) /\ Lights(t) /\ h[2] # 0
  BY LightsLit
<1>2. PulseOf(o).d1 = 1680 /\ PulseOf(z).d1 = 560 /\ PulseOf(t).d1 = 22400
  BY PulseValue DEF Ticks, Capped
<1>3. r = Receiver(42, 1, 44, 1, 2, LongSpace, 1000, 22400)
  BY DEF Receivers, LongSpace
<1>4. sendNEC(AiwaWord(word), 42, 1) = SendGeneric(h, o, z, t, AiwaWord(word), 42, 0) \o tail
  <2>1. 1 - 1 = 0
    OBVIOUS
  <2> QED BY <2>1 DEF sendNEC
<1>5. Sends(tail, 2)
  <2>1. Lights(<<8960, 2240>>) /\ <<8960, 2240>>[2] # 0 /\ Lights(<<560, 22400>>)
    BY LightsLit
  <2> QED BY <2>1, RepeatPulses
<1> HIDE DEF h, o, z, t, r, tail
<1>6. At(0, SendGeneric(h, o, z, t, AiwaWord(word), 42, 0) \o tail, Len(air))
  <2>1. At(0, sendNEC(AiwaWord(word), 42, 1), Len(air))
    BY SentOps, Writes_AIWA DEF SentAs
  <2> QED BY <1>4, <2>1
<1>7. /\ r.bits = 42 /\ r.lead = 1 /\ r.size = 44 /\ r.copies = 1 /\ r.rest = 2
      /\ r.reads = LongSpace /\ r.than = 1000 /\ r.gap = 22400
  BY <1>3, ReceiverFields
<1>8. Distinct(r, o, z)
  BY <1>2, <1>7, Reading
<1>9. Reaches("AIWA", word, AiwaWord(word), 42, 1)
  BY AiwaReaches
<1>10. OneFrame("AIWA", word, r, h, o, z, t, AiwaWord(word), 42, tail)
  BY <1>1, <1>2, <1>5, <1>6, <1>7, <1>8, <1>9 DEF OneFrame, r
<1> QED BY <1>10, HearsFrame

LEMMA Hears_PANASONIC ==
  \A word : SentAs("PANASONIC", word) => Hears("PANASONIC", word)
<1> SUFFICES ASSUME NEW word, SentAs("PANASONIC", word) PROVE Hears("PANASONIC", word)
  OBVIOUS
<1> DEFINE h == <<3456, 1728>>
           o == <<432, 1296>>
           z == <<432, 432>>
           t == <<432, 74736>>
           r == Receivers["PANASONIC"]
           tail == << >>
<1>1. Lights(h) /\ Lights(o) /\ Lights(z) /\ Lights(t) /\ h[2] # 0
  BY LightsLit
<1>2. PulseOf(o).d1 = 1290 /\ PulseOf(z).d1 = 430 /\ PulseOf(t).d1 = 32760
  BY PulseValue DEF Ticks, Capped
<1>3. r = Receiver(48, 1, 50, 1, 0, LongSpace, 800, 32760)
  BY DEF Receivers, LongSpace
<1>4. sendPanasonic(word) = SendGeneric(h, o, z, t, PanasonicWord(word), 48, 0) \o tail
  <2>1. sendPanasonic(word) = SendGeneric(h, o, z, t, PanasonicWord(word), 48, 0)
    BY DEF sendPanasonic, sendPanasonic64, PanasonicWord
  <2> HIDE DEF h, o, z, t
  <2> QED BY <1>1, <2>1, LightGeneric, NoTail
<1>5. Sends(tail, 0)
  BY NoTail
<1> HIDE DEF h, o, z, t, r, tail
<1>6. At(0, SendGeneric(h, o, z, t, PanasonicWord(word), 48, 0) \o tail, Len(air))
  <2>1. At(0, sendPanasonic(word), Len(air))
    BY SentOps, Writes_PANASONIC DEF SentAs
  <2> QED BY <1>4, <2>1
<1>7. /\ r.bits = 48 /\ r.lead = 1 /\ r.size = 50 /\ r.copies = 1 /\ r.rest = 0
      /\ r.reads = LongSpace /\ r.than = 800 /\ r.gap = 32760
  BY <1>3, ReceiverFields
<1>8. Distinct(r, o, z)
  BY <1>2, <1>7, Reading
<1>9. Reaches("PANASONIC", word, PanasonicWord(word), 48, 1)
  BY PanasonicReaches
<1>10. OneFrame("PANASONIC", word, r, h, o, z, t, PanasonicWord(word), 48, tail)
  BY <1>1, <1>2, <1>5, <1>6, <1>7, <1>8, <1>9 DEF OneFrame, r
<1> QED BY <1>10, HearsFrame

----------------------------------------------------------------------------
(* Several copies.                                                         *)

LEMMA MessageSends ==
  ASSUME NEW f, Framed(f), NEW n \in Nat, NEW word
  PROVE  Sends(MessageOf(f, word, n), (Lead(f) + n) + Foot(f))
<1>1. /\ f.header = None \/ (Lights(f.header) /\ f.header[2] # 0)
      /\ Lights(f.one) /\ Lights(f.zero)
      /\ f.footer \in Shape /\ (f.footer[1] = 0 \/ Lights(f.footer))
  BY DEF Framed
<1> QED BY <1>1, MessagePulses DEF MessageOf, Lead, Foot

\* Copies one after the other.
LEMMA CopiesAt ==
  ASSUME NEW ops, NEW m \in Nat, Sends(ops, m), NEW n
  PROVE  /\ At(0, Copies(2, ops), n) =>
              n = 2 * m /\ At(0, ops, m) /\ At(m, ops, m)
         /\ At(0, Copies(3, ops), n) =>
              n = 3 * m /\ At(0, ops, m) /\ At(m, ops, m) /\ At(2 * m, ops, m)
         /\ At(0, Copies(4, ops), n) =>
              n = 4 * m /\ At(0, ops, m) /\ At(m, ops, m) /\ At(2 * m, ops, m) /\ At(3 * m, ops, m)
<1> DEFINE two == ops \o ops
           three == two \o ops
           start == 0
           m2 == m + m
           m3 == m2 + m
<1>1. ops \in Seq(Writes)
  BY DEF Sends
<1>2. Copies(2, ops) = two /\ Copies(3, ops) = three /\ Copies(4, ops) = three \o ops
  BY <1>1, FewCopies
<1>3. start \in Nat /\ start + m = m /\ start + m2 = m2 /\ start + m3 = m3 /\ m2 \in Nat /\ m3 \in Nat
      /\ m2 = 2 * m /\ m3 = 3 * m /\ m3 + m = 4 * m /\ m2 + m = m3 /\ m + m = m2
  OBVIOUS
<1> HIDE DEF start, m2, m3, two, three
<1>4. Sends(two, m2)
  BY <1>3, SendsBoth DEF two, m2
<1>5. Sends(three, m3)
  BY <1>3, <1>4, SendsBoth DEF three, m3
<1>6. ASSUME NEW l, At(start, two, l)
      PROVE  l = m2 /\ At(start, ops, m) /\ At(m, ops, m)
  <2>1. l = m + m /\ At(start, ops, m) /\ At(start + m, ops, m)
    BY <1>3, <1>6, AtBoth DEF two
  <2> QED BY <1>3, <2>1
<1>7. ASSUME NEW l, At(start, three, l)
      PROVE  l = m3 /\ At(start, ops, m) /\ At(m, ops, m) /\ At(m2, ops, m)
  <2>1. l = m2 + m /\ At(start, two, m2) /\ At(start + m2, ops, m)
    BY <1>3, <1>4, <1>7, AtBoth DEF three
  <2> QED BY <1>3, <1>6, <2>1
<1>8. ASSUME NEW l, At(start, three \o ops, l)
      PROVE  l = m3 + m /\ At(start, ops, m) /\ At(m, ops, m) /\ At(m2, ops, m) /\ At(m3, ops, m)
  <2>1. l = m3 + m /\ At(start, three, m3) /\ At(start + m3, ops, m)
    BY SMTT(30), <1>3, <1>5, <1>8, AtBoth
  <2> QED BY <1>3, <1>7, <2>1
<1> QED BY <1>2, <1>3, <1>6, <1>7, <1>8 DEF start

Repeated(p, word, r, f, n, c) ==
  /\ r = Receivers[p] /\ Reader(p, r, f, n) /\ r.copies = c /\ c \in 2 .. 4 /\ r.rest = 0
  /\ p \notin {"AIWA", "PANASONIC", "DENON"}
  /\ At(0, Copies(c, MessageOf(f, word, n)), Len(air))

LEMMA HearsRepeated ==
  \A p, word, r, f, n, c : Repeated(p, word, r, f, n, c) => Hears(p, word)
<1> SUFFICES ASSUME NEW p, NEW word, NEW r, NEW f, NEW n, NEW c, Repeated(p, word, r, f, n, c)
             PROVE  Hears(p, word)
  OBVIOUS
<1>1. /\ r = Receivers[p] /\ Reader(p, r, f, n) /\ r.copies = c /\ c \in 2 .. 4 /\ r.rest = 0
      /\ p \notin {"AIWA", "PANASONIC", "DENON"}
      /\ At(0, Copies(c, MessageOf(f, word, n)), Len(air))
  BY DEF Repeated
<1> DEFINE m == r.size
           ops == MessageOf(f, word, n)
<1>2. /\ n \in Nat /\ r.bits = n /\ Framed(f) /\ m = (Lead(f) + n) + Foot(f) /\ m \in Nat
  BY <1>1 DEF Reader, Rested, Lead, Foot
<1>3. Sends(ops, m)
  BY <1>2, MessageSends
<1> HIDE DEF m, ops
<1>4. Len(air) = c * m /\ \A copy \in 1 .. c : At((copy - 1) * m, ops, m)
  <2>1. CASE c = 2
    <3>1. Len(air) = 2 * m /\ At(0, ops, m) /\ At(m, ops, m)
      BY <1>1, <1>2, <1>3, <2>1, CopiesAt DEF ops
    <3>2. (1 - 1) * m = 0 /\ (2 - 1) * m = m /\ \A copy \in 1 .. 2 : copy = 1 \/ copy = 2
      BY <1>2
    <3> QED BY <2>1, <3>1, <3>2
  <2>2. CASE c = 3
    <3>1. Len(air) = 3 * m /\ At(0, ops, m) /\ At(m, ops, m) /\ At(2 * m, ops, m)
      BY <1>1, <1>2, <1>3, <2>2, CopiesAt DEF ops
    <3>2. /\ (1 - 1) * m = 0 /\ (2 - 1) * m = m /\ (3 - 1) * m = 2 * m
          /\ \A copy \in 1 .. 3 : copy = 1 \/ copy = 2 \/ copy = 3
      BY <1>2
    <3> QED BY <2>2, <3>1, <3>2
  <2>3. CASE c = 4
    <3>1. Len(air) = 4 * m /\ At(0, ops, m) /\ At(m, ops, m) /\ At(2 * m, ops, m) /\ At(3 * m, ops, m)
      BY <1>1, <1>2, <1>3, <2>3, CopiesAt DEF ops
    <3>2. /\ (1 - 1) * m = 0 /\ (2 - 1) * m = m /\ (3 - 1) * m = 2 * m /\ (4 - 1) * m = 3 * m
          /\ \A copy \in 1 .. 4 : copy = 1 \/ copy = 2 \/ copy = 3 \/ copy = 4
      BY <1>2
    <3> QED BY <2>3, <3>1, <3>2
  <2> QED BY <1>1, <2>1, <2>2, <2>3
<1>5. ASSUME NEW copy \in 1 .. c PROVE CopyHeard(p, word, r, copy)
  <2> DEFINE k == (copy - 1) * m
  <2>1. k \in Nat /\ k + m = copy * m
    <3>1. copy = 1 \/ copy = 2 \/ copy = 3 \/ copy = 4
      BY <1>1
    <3> QED BY <1>2, <3>1
  <2>2. At(k, ops, m)
    BY <1>4
  <2>3. k = (copy - 1) * r.size
    BY DEF m
  <2> HIDE DEF k
  <2>4. Copied(r, copy, f, word, n, k)
    BY <2>1, <2>2, <2>3 DEF Copied, m, ops
  <2>5. Reaches(p, word, word, n, copy)
    BY <1>1, <1>2, ReachesPlain
  <2> QED BY <1>1, <2>4, <2>5, HearsCopy
<1>6. Len(air) = r.copies * r.size + r.rest
  <2>1. c * m + 0 = c * m
    BY <1>1, <1>2
  <2> QED BY <1>1, <1>4, <2>1 DEF m
<1> QED BY <1>1, <1>5, <1>6 DEF Hears

LEMMA Hears_INAX ==
  \A word : SentAs("INAX", word) => Hears("INAX", word)
<1> SUFFICES ASSUME NEW word, SentAs("INAX", word) PROVE Hears("INAX", word)
  OBVIOUS
<1> DEFINE h == <<9000, 4500>>
           o == <<560, 1675>>
           z == <<560, 560>>
           t == <<560, 40000>>
           f == Format(h, o, z, t)
           r == Receivers["INAX"]
<1>1. /\ Lights(h) /\ Lights(o) /\ Lights(z) /\ h[2] # 0 /\ t[1] # 0
      /\ t \in Shape /\ Lights(t)
  BY LightsLit DEF Shape
<1>2. /\ PulseOf(o).d0 = 560 /\ PulseOf(z).d0 = 560
      /\ PulseOf(o).d1 = 1670 /\ PulseOf(z).d1 = 560 /\ PulseOf(t).d1 = 32760
  BY PulseValue DEF Ticks, Capped
<1>3. r = Receiver(24, 1, 26, 2, 0, LongSpace, 1000, 32760)
  BY DEF Receivers, LongSpace
<1>4. sendInax(word) = SendGeneric(h, o, z, t, word, 24, 1)
  BY DEF sendInax
<1> HIDE DEF h, o, z, t, r
<1>5. f.header = h /\ f.one = o /\ f.zero = z /\ f.footer = t
  BY FormatFields
<1> HIDE DEF f
<1>6. At(0, Copies(2, MessageOf(f, word, 24)), Len(air))
  <2>1. At(0, sendInax(word), Len(air))
    BY SentOps, Writes_INAX DEF SentAs
  <2>2. 1 + 1 = 2
    OBVIOUS
  <2>3. SendGeneric(h, o, z, t, word, 24, 1) = Copies(2, MessageOf(f, word, 24))
    BY <1>5, <2>2 DEF SendGeneric, MessageOf
  <2> QED BY <1>4, <2>1, <2>3
<1>7. /\ r.bits = 24 /\ r.lead = 1 /\ r.size = 26 /\ r.copies = 2 /\ r.rest = 0
      /\ r.reads = LongSpace /\ r.than = 1000 /\ r.gap = 32760
  BY <1>3, ReceiverFields
<1>8. Distinct(r, f.one, f.zero)
  BY <1>2, <1>5, <1>7, Reading
<1>9. Framed(f) /\ Lead(f) = 1 /\ Foot(f) = 1
  <2>1. h # None
    BY <1>1, LightsShape
  <2> QED BY <1>1, <1>5, <2>1 DEF Framed, Lead, Foot
<1>10. Rests(r.gap, f)
  BY <1>1, <1>2, <1>5, <1>7 DEF Rests
<1>11. Reader("INAX", r, f, 24)
  BY <1>7, <1>8, <1>9, <1>10 DEF Reader, Rested
<1>12. Repeated("INAX", word, r, f, 24, 2)
  BY <1>6, <1>7, <1>11 DEF Repeated, r
<1> QED BY <1>12, HearsRepeated

LEMMA Hears_SONY38 ==
  \A word : SentAs("SONY38", word) => Hears("SONY38", word)
<1> SUFFICES ASSUME NEW word, SentAs("SONY38", word) PROVE Hears("SONY38", word)
  OBVIOUS
<1> DEFINE h == <<2400, 600>>
           o == <<1200, 600>>
           z == <<600, 600>>
           t == <<0, 10000>>
           f == Format(h, o, z, t)
           r == Receivers["SONY38"]
<1>1. /\ Lights(h) /\ Lights(o) /\ Lights(z) /\ h[2] # 0 /\ t[1] = 0
      /\ t \in Shape
  BY LightsLit DEF Shape
<1>2. /\ PulseOf(o).d0 = 1200 /\ PulseOf(z).d0 = 600
      /\ PulseOf(o).d1 = 600 /\ PulseOf(z).d1 = 600
  BY PulseValue DEF Ticks, Capped
<1>3. r = Receiver(20, 1, 21, 4, 0, LongMark, 900, 10000)
  BY DEF Receivers, LongMark
<1>4. sendSony(word, 3) = SendGeneric(h, o, z, t, word, 20, 3)
  BY DEF sendSony
<1> HIDE DEF h, o, z, t, r
<1>5. f.header = h /\ f.one = o /\ f.zero = z /\ f.footer = t
  BY FormatFields
<1> HIDE DEF f
<1>6. At(0, Copies(4, MessageOf(f, word, 20)), Len(air))
  <2>1. At(0, sendSony(word, 3), Len(air))
    BY SentOps, Writes_SONY38 DEF SentAs
  <2>2. 3 + 1 = 4
    OBVIOUS
  <2>3. SendGeneric(h, o, z, t, word, 20, 3) = Copies(4, MessageOf(f, word, 20))
    BY <1>5, <2>2 DEF SendGeneric, MessageOf
  <2> QED BY <1>4, <2>1, <2>3
<1>7. /\ r.bits = 20 /\ r.lead = 1 /\ r.size = 21 /\ r.copies = 4 /\ r.rest = 0
      /\ r.reads = LongMark /\ r.than = 900 /\ r.gap = 10000
  BY <1>3, ReceiverFields
<1>8. Distinct(r, f.one, f.zero)
  BY <1>2, <1>5, <1>7, Reading
<1>9. Framed(f) /\ Lead(f) = 1 /\ Foot(f) = 0
  <2>1. h # None
    BY <1>1, LightsShape
  <2> QED BY <1>1, <1>5, <2>1 DEF Framed, Lead, Foot
<1>10. Rested("SONY38", r, f)
  BY DEF Rested, Gapless
<1>11. Reader("SONY38", r, f, 20)
  BY <1>7, <1>8, <1>9, <1>10 DEF Reader
<1>12. Repeated("SONY38", word, r, f, 20, 4)
  BY <1>6, <1>7, <1>11 DEF Repeated, r
<1> QED BY <1>12, HearsRepeated

LEMMA Hears_SONY ==
  \A word : SentAs("SONY", word) => Hears("SONY", word)
<1> SUFFICES ASSUME NEW word, SentAs("SONY", word) PROVE Hears("SONY", word)
  OBVIOUS
<1> DEFINE h == <<2400, 600>>
           o == <<1200, 600>>
           z == <<600, 600>>
           t == <<0, 10000>>
           f == Format(h, o, z, t)
           r == Receivers["SONY"]
<1>1. /\ Lights(h) /\ Lights(o) /\ Lights(z) /\ h[2] # 0 /\ t[1] = 0
      /\ t \in Shape
  BY LightsLit DEF Shape
<1>2. /\ PulseOf(o).d0 = 1200 /\ PulseOf(z).d0 = 600
      /\ PulseOf(o).d1 = 600 /\ PulseOf(z).d1 = 600
  BY PulseValue DEF Ticks, Capped
<1>3. r = Receiver(20, 1, 21, 3, 0, LongMark, 900, 10000)
  BY DEF Receivers, LongMark
<1>4. sendSony(word, 2) = SendGeneric(h, o, z, t, word, 20, 2)
  BY DEF sendSony
<1> HIDE DEF h, o, z, t, r
<1>5. f.header = h /\ f.one = o /\ f.zero = z /\ f.footer = t
  BY FormatFields
<1> HIDE DEF f
<1>6. At(0, Copies(3, MessageOf(f, word, 20)), Len(air))
  <2>1. At(0, sendSony(word, 2), Len(air))
    BY SentOps, Writes_SONY DEF SentAs
  <2>2. 2 + 1 = 3
    OBVIOUS
  <2>3. SendGeneric(h, o, z, t, word, 20, 2) = Copies(3, MessageOf(f, word, 20))
    BY <1>5, <2>2 DEF SendGeneric, MessageOf
  <2> QED BY <1>4, <2>1, <2>3
<1>7. /\ r.bits = 20 /\ r.lead = 1 /\ r.size = 21 /\ r.copies = 3 /\ r.rest = 0
      /\ r.reads = LongMark /\ r.than = 900 /\ r.gap = 10000
  BY <1>3, ReceiverFields
<1>8. Distinct(r, f.one, f.zero)
  BY <1>2, <1>5, <1>7, Reading
<1>9. Framed(f) /\ Lead(f) = 1 /\ Foot(f) = 0
  <2>1. h # None
    BY <1>1, LightsShape
  <2> QED BY <1>1, <1>5, <2>1 DEF Framed, Lead, Foot
<1>10. Rested("SONY", r, f)
  BY DEF Rested, Gapless
<1>11. Reader("SONY", r, f, 20)
  BY <1>7, <1>8, <1>9, <1>10 DEF Reader
<1>12. Repeated("SONY", word, r, f, 20, 3)
  BY <1>6, <1>7, <1>11 DEF Repeated, r
<1> QED BY <1>12, HearsRepeated

----------------------------------------------------------------------------
(* Messages without a header, and a header of their own.                   *)

LEMMA BareReader ==
  ASSUME NEW h, NEW o, NEW z, NEW t, NEW f, f = Format(h, o, z, t), h = None, Lights(o), Lights(z),
         Lights(t) \/ (t \in Shape /\ t[1] = 0)
  PROVE  /\ Framed(f) /\ Lead(f) = 0 /\ Foot(f) = (IF t[1] = 0 THEN 0 ELSE 1)
         /\ f.one = o /\ f.zero = z /\ f.footer = t
         /\ \A word : \A n \in Nat : SendGeneric(h, o, z, t, word, n, 0) = MessageOf(f, word, n)
<1>1. f.header = h /\ f.one = o /\ f.zero = z /\ f.footer = t
  BY FormatFields
<1>2. h \in Shape /\ o \in Shape /\ z \in Shape /\ t \in Shape
  BY LightsShape DEF None, Shape
<1>3. Framed(f) /\ Lead(f) = 0 /\ Foot(f) = (IF t[1] = 0 THEN 0 ELSE 1)
  BY <1>1, <1>2 DEF Framed, Lead, Foot
<1>4. \A word : \A n \in Nat : SendGeneric(h, o, z, t, word, n, 0) = Message(h, o, z, t, word, n)
  BY <1>2, OnceIsMessage
<1> QED BY <1>1, <1>3, <1>4 DEF MessageOf

LEMMA SentLength == \A ops, n, l : Sends(ops, n) /\ At(0, ops, l) => l = n
BY DEF Sends, At

LEMMA Hears_MAGIQUEST ==
  \A word : SentAs("MAGIQUEST", word) => Hears("MAGIQUEST", word)
<1> SUFFICES ASSUME NEW word, SentAs("MAGIQUEST", word) PROVE Hears("MAGIQUEST", word)
  OBVIOUS
<1> DEFINE o == <<580, 600>>
           z == <<280, 850>>
           t == <<0, 100000>>
           f == Format(None, o, z, t)
           r == Receivers["MAGIQUEST"]
<1>1. Lights(o) /\ Lights(z) /\ t \in Shape /\ t[1] = 0
  BY LightsLit DEF Shape
<1>2. /\ PulseOf(o).d0 = 580 /\ PulseOf(z).d0 = 280
      /\ PulseOf(o).d1 = 600 /\ PulseOf(z).d1 = 850
  BY PulseValue DEF Ticks, Capped
<1>3. r = Receiver(56, 0, 56, 1, 0, LongMark, 400, 32760)
  BY DEF Receivers, LongMark
<1>4. sendMagiQuest(word) = SendGeneric(None, o, z, t, word, 56, 0)
  BY DEF sendMagiQuest
<1> HIDE DEF o, z, t, r
<1>5. /\ Framed(f) /\ Lead(f) = 0 /\ Foot(f) = 0
      /\ f.one = o /\ f.zero = z /\ f.footer = t
      /\ SendGeneric(None, o, z, t, word, 56, 0) = MessageOf(f, word, 56)
  BY <1>1, BareReader
<1> HIDE DEF f
<1>6. At(0, MessageOf(f, word, 56), Len(air))
  BY <1>4, <1>5, SentOps, Writes_MAGIQUEST DEF SentAs
<1>7. /\ r.bits = 56 /\ r.lead = 0 /\ r.size = 56 /\ r.copies = 1 /\ r.rest = 0
      /\ r.reads = LongMark /\ r.than = 400 /\ r.gap = 32760
  BY <1>3, ReceiverFields
<1>8. Distinct(r, f.one, f.zero)
  BY <1>2, <1>5, <1>7, Reading
<1>9. Rested("MAGIQUEST", r, f)
  BY DEF Rested, Gapless
<1>10. Reader("MAGIQUEST", r, f, 56)
  BY <1>5, <1>7, <1>8, <1>9 DEF Reader
<1>11. Reaches("MAGIQUEST", word, word, 56, 1)
  <2>1. Receivers["MAGIQUEST"].bits = 56
    BY <1>7 DEF r
  <2>2. "MAGIQUEST" \notin {"AIWA", "PANASONIC", "DENON"}
    OBVIOUS
  <2> QED BY <2>1, <2>2, ReachesPlain
<1>12. Len(air) = 56
  <2>1. Sends(MessageOf(f, word, 56), (Lead(f) + 56) + Foot(f))
    BY <1>5, MessageSends
  <2>2. (Lead(f) + 56) + Foot(f) = 56
    BY <1>5
  <2> QED BY <1>6, <2>1, <2>2, SentLength
<1>13. r = Receivers["MAGIQUEST"] /\ r.size \in Nat /\ Len(air) = r.size + r.rest
       /\ At(0, MessageOf(f, word, 56), r.size)
  BY <1>6, <1>7, <1>12 DEF r
<1> DEFINE n == 56
<1>14. Reader("MAGIQUEST", r, f, n) /\ Reaches("MAGIQUEST", word, word, n, 1) /\ At(0, MessageOf(f, word, n), r.size)
  BY <1>10, <1>11, <1>13
<1> HIDE DEF n
<1> QED BY <1>7, <1>13, <1>14, HearsOne

\* The second copy carries what the receiver takes for the inverted one.
LEMMA DenonReaches ==
  \A word : /\ Reaches("DENON", word, word, 15, 1)
            /\ Reaches("DENON", word, SymDiff(word, kSharpToggleMask), 15, 2)
<1> SUFFICES ASSUME NEW word, NEW w, Says("DENON", word, w)
             PROVE  /\ Meant("DENON", w, 1) \subseteq 0 .. 15 - 1
                    /\ \A b \in 0 .. 15 - 1 : b \in word <=> b \in Meant("DENON", w, 1)
                    /\ Meant("DENON", w, 2) \subseteq 0 .. 15 - 1
                    /\ \A b \in 0 .. 15 - 1 :
                         b \in SymDiff(word, kSharpToggleMask) <=> b \in Meant("DENON", w, 2)
  BY DEF Reaches
<1>1. DataBits("DENON") = 15
  <2>1. Receivers["DENON"] = Receiver(15, 0, 16, 2, 0, LongSpace, 1200, 32760)
    BY DEF Receivers, LongSpace
  <2>2. Receivers["DENON"].bits = 15
    BY <2>1, ReceiverFields
  <2> QED BY <2>2, BitsPlain
<1>2. word = w /\ w \subseteq 0 .. 14
  BY <1>1 DEF Says
<1>3. Meant("DENON", w, 1) = w /\ Meant("DENON", w, 2) = (w \ 0 .. 9) \cup (0 .. 9 \ w)
  BY DEF Meant
<1>4. SymDiff(w, kSharpToggleMask) = (w \ 0 .. 9) \cup (0 .. 9 \ w)
  BY DEF SymDiff, kSharpToggleMask
<1>5. 0 .. 15 - 1 = 0 .. 14 /\ 0 .. 9 \subseteq 0 .. 14
  OBVIOUS
<1> DEFINE low == 0 .. 9
           all == 0 .. 14
           m1 == Meant("DENON", w, 1)
           m2 == Meant("DENON", w, 2)
           s2 == SymDiff(word, kSharpToggleMask)
<1>6. m1 = w /\ m2 = (w \ low) \cup (low \ w) /\ s2 = m2 /\ w \subseteq all /\ low \subseteq all /\ word = w
  BY <1>2, <1>3, <1>4, <1>5
<1> HIDE DEF low, m1, m2, s2
<1>7. m1 \subseteq all /\ m2 \subseteq all
  BY <1>6
<1>8. 0 .. 15 - 1 = all
  BY <1>5
<1> QED BY <1>6, <1>7, <1>8 DEF m1, m2, s2

LEMMA Hears_DENON ==
  \A word : SentAs("DENON", word) => Hears("DENON", word)
<1> SUFFICES ASSUME NEW word, SentAs("DENON", word) PROVE Hears("DENON", word)
  OBVIOUS
<1> DEFINE o == <<260, 1820>>
           z == <<260, 780>>
           t == <<260, 43602>>
           f == Format(None, o, z, t)
           r == Receivers["DENON"]
           inverted == SymDiff(word, kSharpToggleMask)
<1>1. Lights(o) /\ Lights(z) /\ Lights(t)
  BY LightsLit
<1>2. PulseOf(o).d1 = 1820 /\ PulseOf(z).d1 = 780 /\ PulseOf(t).d1 = 32760
  BY PulseValue DEF Ticks, Capped
<1>3. r = Receiver(15, 0, 16, 2, 0, LongSpace, 1200, 32760)
  BY DEF Receivers, LongSpace
<1>4. sendSharpRaw(word, 15) = SendGeneric(None, o, z, t, word, 15, 0)
                                 \o SendGeneric(None, o, z, t, inverted, 15, 0)
  BY DEF sendSharpRaw
<1> HIDE DEF o, z, t, r, inverted
<1>5. /\ Framed(f) /\ Lead(f) = 0 /\ Foot(f) = 1
      /\ f.one = o /\ f.zero = z /\ f.footer = t
      /\ \A w : SendGeneric(None, o, z, t, w, 15, 0) = MessageOf(f, w, 15)
  <2>1. t[1] # 0
    BY <1>1, LightsShape
  <2> QED BY <1>1, <2>1, BareReader
<1> HIDE DEF f
<1>6. At(0, MessageOf(f, word, 15) \o MessageOf(f, inverted, 15), Len(air))
  <2>1. At(0, sendSharpRaw(word, 15), Len(air))
    BY SentOps, Writes_DENON DEF SentAs
  <2>2. sendSharpRaw(word, 15) = MessageOf(f, word, 15) \o MessageOf(f, inverted, 15)
    BY <1>4, <1>5
  <2> QED BY <2>1, <2>2
<1>7. /\ r.bits = 15 /\ r.lead = 0 /\ r.size = 16 /\ r.copies = 2 /\ r.rest = 0
      /\ r.reads = LongSpace /\ r.than = 1200 /\ r.gap = 32760
  BY <1>3, ReceiverFields
<1>8. Distinct(r, f.one, f.zero)
  BY <1>2, <1>5, <1>7, Reading
<1>9. Rests(r.gap, f)
  <2>1. t[1] # 0
    BY <1>1, LightsShape
  <2> QED BY <1>2, <1>5, <1>7, <2>1 DEF Rests
<1>10. Reader("DENON", r, f, 15)
  BY <1>5, <1>7, <1>8, <1>9 DEF Reader, Rested
<1> DEFINE a == MessageOf(f, word, 15)
           b == MessageOf(f, inverted, 15)
           k == 0
           m == 16
<1>11. k \in Nat /\ m \in Nat /\ Sends(a, m) /\ Sends(b, m) /\ At(k, a \o b, Len(air))
  BY <1>5, <1>6, MessageSends
<1> HIDE DEF a, b, k, m
<1>12. Len(air) = m + m /\ At(k, a, m) /\ At(k + m, b, m)
  BY SMTT(30), <1>11, AtBoth
<1>13. Len(air) = 32 /\ At(0, MessageOf(f, word, 15), r.size) /\ At(16, MessageOf(f, inverted, 15), r.size)
  BY <1>7, <1>12 DEF a, b, k, m
<1>14. Copied(r, 1, f, word, 15, 0) /\ Copied(r, 2, f, inverted, 15, 16)
  BY <1>7, <1>13 DEF Copied
<1>15. CopyHeard("DENON", word, r, 1) /\ CopyHeard("DENON", word, r, 2)
  BY <1>10, <1>14, DenonReaches, HearsCopy DEF inverted
<1>16. Len(air) = r.copies * r.size + r.rest /\ \A copy \in 1 .. r.copies : copy = 1 \/ copy = 2
  BY <1>7, <1>13
<1> QED BY <1>15, <1>16 DEF Hears, r

\* The word read back as one copy.
Readable(r, copy, one, zero, word, w, n, k) ==
  /\ n \in Nat /\ r.bits = n
  /\ w \subseteq 0 .. n - 1 /\ \A b \in 0 .. n - 1 : b \in word <=> b \in w
  /\ Distinct(r, one, zero)
  /\ k = (copy - 1) * r.size + r.lead /\ Carries(k, one, zero, word, n)

LEMMA ReadBack ==
  \A r, copy, one, zero, word, w, n, k :
    Readable(r, copy, one, zero, word, w, n, k) => Received(r, copy) = w
<1> SUFFICES ASSUME NEW r, NEW copy, NEW one, NEW zero, NEW word, NEW w, NEW n, NEW k,
                    Readable(r, copy, one, zero, word, w, n, k)
             PROVE  Received(r, copy) = w
  OBVIOUS
<1> QED BY ReadCopy DEF Readable

LEMMA Hears_JVC ==
  \A word : SentAs("JVC", word) => Hears("JVC", word)
<1> SUFFICES ASSUME NEW word, SentAs("JVC", word) PROVE Hears("JVC", word)
  OBVIOUS
<1> DEFINE o == <<525, 1725>>
           z == <<525, 525>>
           t == <<525, 10875>>
           f == Format(None, o, z, t)
           r == Receivers["JVC"]
           n == 16
<1>1. Lights(o) /\ Lights(z) /\ Lights(t) /\ n \in Nat /\ n > 0
  BY LightsLit
<1>2. PulseOf(o).d1 = 1720 /\ PulseOf(z).d1 = 520 /\ PulseOf(t).d1 = 10870
  BY PulseValue DEF Ticks, Capped
<1>3. r = Receiver(n, 1, 18, 1, 0, LongSpace, 1000, 10870)
  BY DEF Receivers, LongSpace
<1>4. sendJVC(word) = MarkSpace(8400, 4200) \o SendGeneric(None, o, z, t, word, n, 0)
  BY DEF sendJVC
<1> HIDE DEF o, z, t, r
<1>5. /\ Framed(f) /\ Lead(f) = 0 /\ Foot(f) = 1
      /\ f.one = o /\ f.zero = z /\ f.footer = t
      /\ SendGeneric(None, o, z, t, word, n, 0) = MessageOf(f, word, n)
  <2>1. t[1] # 0
    BY <1>1, LightsShape
  <2> HIDE DEF n
  <2> QED BY <1>1, <2>1, BareReader
<1> HIDE DEF f
<1>6. At(0, MarkSpace(8400, 4200) \o MessageOf(f, word, n), Len(air))
  <2>1. At(0, sendJVC(word), Len(air))
    BY SentOps, Writes_JVC DEF SentAs
  <2>2. sendJVC(word) = MarkSpace(8400, 4200) \o MessageOf(f, word, n)
    BY <1>4, <1>5
  <2> QED BY <2>1, <2>2
<1>7. /\ r.bits = n /\ r.lead = 1 /\ r.size = 18 /\ r.copies = 1 /\ r.rest = 0
      /\ r.reads = LongSpace /\ r.than = 1000 /\ r.gap = 10870
  <2> HIDE DEF n
  <2> QED BY <1>3, ReceiverFields
<1>8. Distinct(r, f.one, f.zero)
  BY <1>2, <1>5, <1>7, Reading
<1>9. Rests(r.gap, f)
  <2>1. t[1] # 0
    BY <1>1, LightsShape
  <2> QED BY <1>2, <1>5, <1>7, <2>1 DEF Rests
<1> DEFINE lead == MarkSpace(8400, 4200)
           a == MessageOf(f, word, n)
           k == 0
           one == 1
           m == 17
<1>10. Sends(lead, one)
  <2>1. Sent(MarkSpace(8400, 4200)) = <<Pulse(8400, 4200)>>
    BY SentMarkSpace DEF Lit
  <2>2. MarkSpace(8400, 4200) \in Seq(Writes)
    BY PulseTypes
  <2> QED BY <2>1, <2>2 DEF Sends
<1>11. /\ k \in Nat /\ m \in Nat /\ one \in Nat /\ k + one = one /\ one + m = 18
       /\ Sends(a, m) /\ At(k, lead \o a, Len(air))
  BY <1>5, <1>6, MessageSends
<1> HIDE DEF a, k, m, lead, one, n
<1>12. Len(air) = one + m /\ At(k + one, a, m)
  BY SMTT(30), <1>10, <1>11, AtBoth
<1>13. At(one, MessageOf(f, word, n), m) /\ Len(air) = 18
  BY <1>11, <1>12 DEF a
<1>14. Carries(one + Lead(f), f.one, f.zero, word, n) /\ air[one + m].d1 >= r.gap
  BY <1>1, <1>5, <1>9, <1>11, <1>13, EndOfMessage
<1>15. Reaches("JVC", word, word, n, 1)
  BY <1>1, <1>7, ReachesPlain DEF r
<1>16. ASSUME NEW w, Says("JVC", word, w) PROVE Received(r, 1) = Meant("JVC", w, 1)
  <2> DEFINE v == Meant("JVC", w, 1)
             first == 1
  <2>1. v \subseteq 0 .. n - 1 /\ \A b \in 0 .. n - 1 : b \in word <=> b \in v
    BY <1>15, <1>16 DEF Reaches
  <2>2. one = (first - 1) * r.size + r.lead /\ Carries(one, f.one, f.zero, word, n)
    BY <1>5, <1>7, <1>11, <1>14 DEF one
  <2> HIDE DEF v, first
  <2>3. Readable(r, first, f.one, f.zero, word, v, n, one)
    BY <1>1, <1>7, <1>8, <2>1, <2>2 DEF Readable
  <2>4. Received(r, first) = v
    BY <2>3, ReadBack
  <2> QED BY <2>4 DEF v, first
<1>17. CopyHeard("JVC", word, r, 1)
  <2>1. one + m = 1 * r.size
    BY <1>7, <1>11
  <2> QED BY <1>14, <1>16, <2>1 DEF CopyHeard
<1>18. Len(air) = r.copies * r.size + r.rest /\ \A copy \in 1 .. r.copies : copy = 1
  BY <1>7, <1>13
<1> QED BY <1>17, <1>18 DEF Hears, r

----------------------------------------------------------------------------
(* Messages read in ways of their own.                                     *)

Spells(r, n, copy, w) ==
  /\ n \in Nat /\ r.bits = n /\ w \subseteq 0 .. n - 1
  /\ \A i \in 1 .. n : ReadsOne(r, (copy - 1) * r.size, i) <=> n - i \in w
LEMMA ReceivedSpelled ==
  \A r, n, copy, w : Spells(r, n, copy, w) => Received(r, copy) = w
<1> SUFFICES ASSUME NEW r, NEW n, NEW copy, NEW w, Spells(r, n, copy, w) PROVE Received(r, copy) = w
  OBVIOUS
<1> QED BY ReceivedIs DEF Spells

\* A protocol of one copy, each bit of which is read as it was written.
ReadInFull(p, word, r, n) ==
  /\ p \notin {"AIWA", "PANASONIC", "DENON"} /\ r = Receivers[p]
  /\ n \in Nat /\ r.bits = n /\ r.copies = 1
  /\ r.size \in Nat /\ Len(air) = r.size + r.rest
  /\ p \in Gapless \/ air[r.size].d1 >= r.gap
  /\ \A i \in 1 .. n : ReadsOne(r, 0, i) <=> n - i \in word

LEMMA HearsInFull ==
  \A p, word, r, n : ReadInFull(p, word, r, n) => Hears(p, word)
<1> SUFFICES ASSUME NEW p, NEW word, NEW r, NEW n, ReadInFull(p, word, r, n) PROVE Hears(p, word)
  OBVIOUS
<1>1. /\ p \notin {"AIWA", "PANASONIC", "DENON"} /\ r = Receivers[p]
      /\ n \in Nat /\ r.bits = n /\ r.copies = 1
      /\ r.size \in Nat /\ Len(air) = r.size + r.rest
      /\ p \in Gapless \/ air[r.size].d1 >= r.gap
      /\ \A i \in 1 .. n : ReadsOne(r, 0, i) <=> n - i \in word
  BY DEF ReadInFull
<1> DEFINE first == 1
           s == (first - 1) * r.size
<1>2. s = 0 /\ first * r.size = r.size
  BY <1>1
<1>3. \A i \in 1 .. n : ReadsOne(r, s, i) <=> n - i \in word
  <2> HIDE DEF s
  <2> QED BY <1>1, <1>2
<1> HIDE DEF first, s
<1>4. ASSUME NEW w, Says(p, word, w) PROVE Received(r, first) = Meant(p, w, first)
  <2>1. Meant(p, w, first) = w
    BY <1>1, MeantPlain
  <2>2. DataBits(p) = n
    BY <1>1, BitsPlain
  <2>3. w \subseteq 0 .. n - 1 /\ \A b \in 0 .. n - 1 : b \in word <=> b \in w
    BY <1>1, <1>4, <2>2, SaysBits
  <2>4. ASSUME NEW i \in 1 .. n PROVE ReadsOne(r, s, i) <=> n - i \in w
    <3>1. n - i \in 0 .. n - 1
      BY <1>1
    <3>2. n - i \in word <=> n - i \in w
      BY <2>3, <3>1
    <3> QED BY <1>3, <3>2
  <2>5. Spells(r, n, first, w)
    BY <1>1, <2>3, <2>4 DEF Spells, s
  <2>6. Received(r, first) = w
    BY <2>5, ReceivedSpelled
  <2> QED BY <2>1, <2>6
<1>5. CopyHeard(p, word, r, first)
  BY <1>1, <1>2, <1>4 DEF CopyHeard
<1>6. Len(air) = r.copies * r.size + r.rest /\ \A copy \in 1 .. r.copies : copy = first
  BY <1>1, <1>2 DEF first
<1> QED BY <1>1, <1>5, <1>6 DEF Hears

\* What a mark, a space, and a loop of pairs of them send.
LEMMA SendsHalf ==
  \A d \in Nat : 10 <= d =>
    /\ Sends(Mark(d), 1) /\ Sent(Mark(d))[1] = Half(0, d)
    /\ Sends(Space(d), 1) /\ Sent(Space(d))[1] = Half(1, d)
<1> SUFFICES ASSUME NEW d \in Nat, 10 <= d
             PROVE  /\ Sends(Mark(d), 1) /\ Sent(Mark(d))[1] = Half(0, d)
                    /\ Sends(Space(d), 1) /\ Sent(Space(d))[1] = Half(1, d)
  OBVIOUS
<1>1. Sent(Mark(d)) = <<Half(0, d)>> /\ Sent(Space(d)) = <<Half(1, d)>>
  BY SentHalf
<1>2. Mark(d) \in Seq(Writes) /\ Space(d) \in Seq(Writes)
  BY PulseTypes
<1> QED BY <1>1, <1>2 DEF Sends

LEMMA SendsPulse ==
  \A m, s \in Nat : 10 <= m /\ m <= 32767 =>
    Sends(MarkSpace(m, s), 1) /\ Sent(MarkSpace(m, s))[1] = Pulse(m, s)
<1> SUFFICES ASSUME NEW m \in Nat, NEW s \in Nat, 10 <= m, m <= 32767
             PROVE  Sends(MarkSpace(m, s), 1) /\ Sent(MarkSpace(m, s))[1] = Pulse(m, s)
  OBVIOUS
<1>1. Sent(MarkSpace(m, s)) = <<Pulse(m, s)>>
  BY SentMarkSpace DEF Lit
<1>2. MarkSpace(m, s) \in Seq(Writes)
  BY PulseTypes
<1> QED BY <1>1, <1>2 DEF Sends

LEMMA SendsTwo ==
  \A a, b : Sends(a, 1) /\ Sends(b, 1) =>
    Sends(a \o b, 2) /\ Sent(a \o b)[1] = Sent(a)[1] /\ Sent(a \o b)[2] = Sent(b)[1]
<1> SUFFICES ASSUME NEW a, NEW b, Sends(a, 1), Sends(b, 1)
             PROVE  Sends(a \o b, 2) /\ Sent(a \o b)[1] = Sent(a)[1] /\ Sent(a \o b)[2] = Sent(b)[1]
  OBVIOUS
<1> DEFINE k == 1
<1>1. k \in Nat /\ Sends(a, k) /\ Sends(b, k) /\ k + k = 2 /\ k \in 1 .. k
  OBVIOUS
<1> HIDE DEF k
<1>2. /\ Sends(a \o b, k + k)
      /\ \A i \in 1 .. k : Sent(a \o b)[i] = Sent(a)[i]
      /\ \A i \in 1 .. k : Sent(a \o b)[k + i] = Sent(b)[i]
  BY <1>1, SendsBoth
<1>3. Sends(a \o b, k + k) /\ Sent(a \o b)[k] = Sent(a)[k] /\ Sent(a \o b)[k + k] = Sent(b)[k]
  BY <1>1, <1>2
<1> QED BY <1>1, <1>3 DEF k

LEMMA SendsPairs ==
  ASSUME NEW n \in Nat, NEW e, \A i \in 1 .. n : Sends(e[i], 2)
  PROVE  LET ops == FlattenSeq([i \in 1 .. n |-> e[i]])
         IN  /\ Sends(ops, 2 * n)
             /\ \A i \in 1 .. n : Sent(ops)[2 * i - 1] = Sent(e[i])[1] /\ Sent(ops)[2 * i] = Sent(e[i])[2]
<1> DEFINE ops == FlattenSeq([i \in 1 .. n |-> e[i]])
           f == [i \in 1 .. n |-> Sent(e[i])]
<1>1. \A i \in 1 .. n : e[i] \in Seq(Writes) /\ Len(Sent(e[i])) = 2
  BY DEF Sends
<1>2. \A i \in 1 .. n : f[i] = Sent(e[i]) /\ f[i] \in Seq(Pulses) /\ Len(f[i]) = 2
  BY <1>1, SentType
<1>3. [i \in 1 .. n |-> f[i]] = f
  OBVIOUS
<1>4. Sent(ops) = FlattenSeq(f)
  BY <1>1, SentLoop
<1>5. ops \in Seq(Writes)
  <2>1. [i \in 1 .. n |-> e[i]] \in Seq(Seq(Writes))
    BY <1>1
  <2> HIDE DEF f
  <2> QED BY <2>1, FlattenType
<1> HIDE DEF f, ops
<1>6. PairsAt(Pulses, f, n)
  BY <1>2, FlattenPairs
<1>7. /\ Len(FlattenSeq(f)) = 2 * n
      /\ \A i \in 1 .. n : FlattenSeq(f)[2 * i - 1] = f[i][1] /\ FlattenSeq(f)[2 * i] = f[i][2]
  BY <1>3, <1>6 DEF PairsAt
<1>8. Sends(ops, 2 * n)
  BY <1>4, <1>5, <1>7 DEF Sends
<1>9. \A i \in 1 .. n : Sent(ops)[2 * i - 1] = Sent(e[i])[1] /\ Sent(ops)[2 * i] = Sent(e[i])[2]
  BY <1>2, <1>4, <1>7
<1> QED BY <1>8, <1>9 DEF ops

LEMMA SendsLoop ==
  ASSUME NEW n \in Nat, NEW e, \A i \in 1 .. n : Sends(e[i], 1)
  PROVE  LET ops == FlattenSeq([i \in 1 .. n |-> e[i]])
         IN  Sends(ops, n) /\ \A i \in 1 .. n : Sent(ops)[i] = Sent(e[i])[1]
<1> DEFINE ops == FlattenSeq([i \in 1 .. n |-> e[i]])
           b == [i \in 1 .. n |-> Sent(e[i])[1]]
<1>1. \A i \in 1 .. n : e[i] \in Seq(Writes) /\ Len(Sent(e[i])) = 1
  BY DEF Sends
<1>2. \A i \in 1 .. n : Sent(e[i]) = <<b[i]>>
  BY <1>1, SentType
<1>3. [i \in 1 .. n |-> Sent(e[i])] = [i \in 1 .. n |-> <<b[i]>>] /\ [i \in 1 .. n |-> b[i]] = b
  BY <1>2
<1>4. Sent(ops) = FlattenSeq([i \in 1 .. n |-> Sent(e[i])])
  BY <1>1, SentLoop
<1>5. ops \in Seq(Writes)
  <2>1. [i \in 1 .. n |-> e[i]] \in Seq(Seq(Writes))
    BY <1>1
  <2> QED BY <2>1, FlattenType
<1>6. \A i \in 1 .. n : b[i] = Sent(e[i])[1]
  OBVIOUS
<1>7. Len(b) = n
  OBVIOUS
<1> HIDE DEF b, ops
<1>8. FlattenSeq([i \in 1 .. n |-> <<b[i]>>]) = [i \in 1 .. n |-> b[i]]
  BY FlattenSingles
<1>9. Sent(ops) = b
  BY <1>3, <1>4, <1>8
<1> QED BY <1>5, <1>6, <1>7, <1>9 DEF Sends, ops

\* Pieces of the same length, one after the other.
Pieces(e, n, m) == n \in Nat /\ e = [i \in 1 .. n |-> e[i]] /\ \A i \in 1 .. n : Sends(e[i], m)

LEMMA PairPieces ==
  \A e, n : Pieces(e, n, 2) =>
    /\ Sends(FlattenSeq(e), 2 * n)
    /\ \A i \in 1 .. n : /\ Sent(FlattenSeq(e))[2 * i - 1] = Sent(e[i])[1]
                        /\ Sent(FlattenSeq(e))[2 * i] = Sent(e[i])[2]
<1> SUFFICES ASSUME NEW e, NEW n, Pieces(e, n, 2)
             PROVE  /\ Sends(FlattenSeq(e), 2 * n)
                    /\ \A i \in 1 .. n : /\ Sent(FlattenSeq(e))[2 * i - 1] = Sent(e[i])[1]
                                        /\ Sent(FlattenSeq(e))[2 * i] = Sent(e[i])[2]
  OBVIOUS
<1>1. n \in Nat /\ \A i \in 1 .. n : Sends(e[i], 2)
  BY DEF Pieces
<1> DEFINE f == [i \in 1 .. n |-> e[i]]
<1>2. e = f
  BY DEF Pieces
<1>3. /\ Sends(FlattenSeq(f), 2 * n)
      /\ \A i \in 1 .. n : /\ Sent(FlattenSeq(f))[2 * i - 1] = Sent(e[i])[1]
                          /\ Sent(FlattenSeq(f))[2 * i] = Sent(e[i])[2]
  BY <1>1, SendsPairs
<1> HIDE DEF f
<1> QED BY <1>2, <1>3

LEMMA SinglePieces ==
  \A e, n : Pieces(e, n, 1) =>
    Sends(FlattenSeq(e), n) /\ \A i \in 1 .. n : Sent(FlattenSeq(e))[i] = Sent(e[i])[1]
<1> SUFFICES ASSUME NEW e, NEW n, Pieces(e, n, 1)
             PROVE  /\ Sends(FlattenSeq(e), n)
                    /\ \A i \in 1 .. n : Sent(FlattenSeq(e))[i] = Sent(e[i])[1]
  OBVIOUS
<1>1. n \in Nat /\ \A i \in 1 .. n : Sends(e[i], 1)
  BY DEF Pieces
<1> DEFINE f == [i \in 1 .. n |-> e[i]]
<1>2. e = f
  BY DEF Pieces
<1>3. Sends(FlattenSeq(f), n) /\ \A i \in 1 .. n : Sent(FlattenSeq(f))[i] = Sent(e[i])[1]
  BY <1>1, SendsLoop
<1> HIDE DEF f
<1> QED BY <1>2, <1>3

----------------------------------------------------------------------------
(* Laser tag, Lutron, RCMM.                                                *)

SpaceFirst == "space first"
AMark == "mark"
Quarters == "quarters"

LEMMA SpaceFirstReads ==
  \A r, s, i : r.reads = SpaceFirst =>
    (ReadsOne(r, s, i) <=> air[s + r.lead + (2 * i - 1)].first = 1)
BY ReadsSpaceFirst DEF SpaceFirst
LEMMA AMarkReads ==
  \A r, s, i : r.reads = AMark => (ReadsOne(r, s, i) <=> air[s + r.lead + i].first = 0)
BY ReadsAMark DEF AMark

LEMMA Hears_LASERTAG ==
  \A word : SentAs("LASERTAG", word) => Hears("LASERTAG", word)
<1> SUFFICES ASSUME NEW word, SentAs("LASERTAG", word) PROVE Hears("LASERTAG", word)
  OBVIOUS
<1> DEFINE n == 13
           r == Receivers["LASERTAG"]
           e == [i \in 1 .. n |-> IF n - i \in word THEN Space(333) \o Mark(333)
                                  ELSE Mark(333) \o Space(333)]
           loop == FlattenSeq(e)
           end == Space(100000)
           k == 0
           one == 1
           two == 2 * n
<1>1. r = Receiver(13, 0, 27, 1, 0, SpaceFirst, 0, 32760)
  BY DEF Receivers, SpaceFirst
<1>2. sendLasertag(word) = loop \o end
  BY DEF sendLasertag
<1>3. n \in Nat /\ two \in Nat /\ two = 26 /\ k \in Nat /\ one \in Nat /\ two + one = 27 /\ one \in 1 .. one
      /\ n = 13
  OBVIOUS
<1>4. e = [i \in 1 .. n |-> e[i]] /\ \A i \in 1 .. n : e[i] = IF n - i \in word THEN Space(333) \o Mark(333) ELSE Mark(333) \o Space(333)
  OBVIOUS
<1>5. /\ Sends(Mark(333), 1) /\ Sent(Mark(333))[1] = Half(0, 333)
      /\ Sends(Space(333), 1) /\ Sent(Space(333))[1] = Half(1, 333)
      /\ Sends(end, one) /\ Sent(end)[one] = Half(1, 100000)
  BY SendsHalf
<1> HIDE DEF r, e, end, n, k, one, two
<1>6. \A i \in 1 .. n : Sends(e[i], 2) /\ (Sent(e[i])[1] = IF n - i \in word THEN Half(1, 333) ELSE Half(0, 333))
  <2> DEFINE low == Space(333) \o Mark(333)
             high == Mark(333) \o Space(333)
  <2>1. Sends(low, 2) /\ Sent(low)[1] = Half(1, 333) /\ Sends(high, 2) /\ Sent(high)[1] = Half(0, 333)
    BY <1>5, SendsTwo
  <2> HIDE DEF low, high
  <2>2. \A i \in 1 .. n : e[i] = IF n - i \in word THEN low ELSE high
    BY <1>4 DEF low, high
  <2> QED BY <2>1, <2>2
<1>7. Sends(loop, two) /\ \A i \in 1 .. n : Sent(loop)[2 * i - 1] = Sent(e[i])[1]
  <2>1. Pieces(e, n, 2)
    BY <1>3, <1>4, <1>6 DEF Pieces
  <2> QED BY <2>1, PairPieces DEF two
<1> HIDE DEF loop
<1>8. At(k, loop \o end, Len(air))
  <2>1. At(0, sendLasertag(word), Len(air))
    BY SentOps, Writes_LASERTAG DEF SentAs
  <2> QED BY <1>2, <2>1 DEF k
<1>9. Len(air) = two + one /\ At(k, loop, two) /\ At(k + two, end, one)
  BY SMTT(30), <1>3, <1>5, <1>7, <1>8, AtBoth
<1>10. \A i \in 1 .. n : air[2 * i - 1].first = IF n - i \in word THEN 1 ELSE 0
  <2>1. Half(1, 333).first = 1 /\ Half(0, 333).first = 0
    BY DEF Half
  <2>2. \A i \in 1 .. n : 2 * i - 1 \in 1 .. two /\ k + (2 * i - 1) = 2 * i - 1
    BY <1>3 DEF k
  <2>3. \A i \in 1 .. two : Same(air[k + i], Sent(loop)[i])
    BY <1>9 DEF At
  <2>4. \A i \in 1 .. n : Same(air[2 * i - 1], Sent(e[i])[1])
    BY <1>7, <2>2, <2>3
  <2> QED BY <1>6, <2>1, <2>4 DEF Same
<1>11. air[27].d1 = 32760
  <2>1. Same(air[(k + two) + one], Sent(end)[one])
    BY <1>3, <1>9 DEF At
  <2>2. (k + two) + one = 27
    BY <1>3 DEF k
  <2>3. Half(1, 100000).d1 = 32760
    BY DEF Half, Ticks, Capped
  <2> QED BY <1>5, <2>1, <2>2, <2>3 DEF Same
<1>12. /\ r.bits = n /\ r.lead = 0 /\ r.size = 27 /\ r.copies = 1 /\ r.rest = 0
       /\ r.reads = SpaceFirst /\ r.gap = 32760
  BY <1>1, <1>3, ReceiverFields
<1>13. \A i \in 1 .. n : ReadsOne(r, 0, i) <=> n - i \in word
  <2>1. \A i \in 1 .. n : ReadsOne(r, 0, i) <=> air[0 + r.lead + (2 * i - 1)].first = 1
    BY <1>12, SpaceFirstReads
  <2>2. \A i \in 1 .. n : 0 + r.lead + (2 * i - 1) = 2 * i - 1
    BY <1>3, <1>12
  <2>3. \A i \in 1 .. n : ReadsOne(r, 0, i) <=> air[2 * i - 1].first = 1
    BY <2>1, <2>2
  <2> QED BY <1>10, <2>3
<1>14. ReadInFull("LASERTAG", word, r, n)
  BY <1>3, <1>9, <1>11, <1>12, <1>13 DEF ReadInFull, r
<1> QED BY <1>14, HearsInFull

LEMMA Hears_LUTRON ==
  \A word : SentAs("LUTRON", word) => Hears("LUTRON", word)
<1> SUFFICES ASSUME NEW word, SentAs("LUTRON", word) PROVE Hears("LUTRON", word)
  OBVIOUS
<1> DEFINE n == 34
           r == Receivers["LUTRON"]
           e == [i \in 1 .. n |-> IF n - i \in word THEN Mark(2288) ELSE Space(2288)]
           loop == FlattenSeq(e)
           lead == MarkSpace(2288, 0)
           k == 0
           one == 1
<1>1. r = Receiver(34, 1, 35, 1, 0, AMark, 0, 32760)
  BY DEF Receivers, AMark
<1>2. sendLutron(word) = lead \o loop
  BY DEF sendLutron
<1>3. n \in Nat /\ n > 0 /\ k \in Nat /\ one \in Nat /\ one + n = 35 /\ k + one = one /\ n = 34
  OBVIOUS
<1>4. e = [i \in 1 .. n |-> e[i]] /\ \A i \in 1 .. n : e[i] = IF n - i \in word THEN Mark(2288) ELSE Space(2288)
  OBVIOUS
<1>5. /\ Sends(Mark(2288), 1) /\ Sent(Mark(2288))[1] = Half(0, 2288)
      /\ Sends(Space(2288), 1) /\ Sent(Space(2288))[1] = Half(1, 2288)
      /\ Sends(lead, one)
  BY SendsHalf, SendsPulse
<1> HIDE DEF r, e, lead, n, k, one
<1>6. \A i \in 1 .. n : Sends(e[i], 1) /\ (Sent(e[i])[1] = IF n - i \in word THEN Half(0, 2288) ELSE Half(1, 2288))
  BY <1>4, <1>5
<1>7. Sends(loop, n) /\ \A i \in 1 .. n : Sent(loop)[i] = Sent(e[i])[1]
  <2>1. Pieces(e, n, 1)
    BY <1>3, <1>4, <1>6 DEF Pieces
  <2> QED BY <2>1, SinglePieces
<1> HIDE DEF loop
<1>8. At(k, lead \o loop, Len(air))
  <2>1. At(0, sendLutron(word), Len(air))
    BY SentOps, Writes_LUTRON DEF SentAs
  <2> QED BY <1>2, <2>1 DEF k
<1>9. Len(air) = one + n /\ At(one, loop, n)
  <2>1. Sends(lead, one) /\ Sends(loop, n) /\ k \in Nat /\ one \in Nat /\ n \in Nat
    BY <1>3, <1>5, <1>7
  <2>2. Len(air) = one + n /\ At(k + one, loop, n)
    BY SMTT(30), <1>8, <2>1, AtBoth
  <2> QED BY <1>3, <2>2
<1>10. \A i \in 1 .. n : Same(air[one + i], IF n - i \in word THEN Half(0, 2288) ELSE Half(1, 2288))
  <2>1. \A i \in 1 .. n : Same(air[one + i], Sent(loop)[i])
    BY <1>9 DEF At
  <2> QED BY <1>6, <1>7, <2>1
<1>11. /\ r.bits = n /\ r.lead = one /\ r.size = 35 /\ r.copies = 1 /\ r.rest = 0
       /\ r.reads = AMark /\ r.gap = 32760
  BY <1>1, <1>3, ReceiverFields DEF one
<1>12. \A i \in 1 .. n : ReadsOne(r, 0, i) <=> n - i \in word
  <2>1. \A i \in 1 .. n : ReadsOne(r, 0, i) <=> air[0 + r.lead + i].first = 0
    BY <1>11, AMarkReads
  <2>2. \A i \in 1 .. n : 0 + r.lead + i = one + i
    BY <1>3, <1>11
  <2>3. \A i \in 1 .. n : ReadsOne(r, 0, i) <=> air[one + i].first = 0
    BY <2>1, <2>2
  <2>4. Half(0, 2288).first = 0 /\ Half(1, 2288).first = 1
    BY DEF Half
  <2> QED BY <1>10, <2>3, <2>4 DEF Same
<1>13. "LUTRON" \in Gapless
  BY DEF Gapless
<1>14. ReadInFull("LUTRON", word, r, n)
  BY <1>3, <1>9, <1>11, <1>12, <1>13 DEF ReadInFull, r
<1> QED BY <1>14, HearsInFull

\* Two bits of the word, in the length of a space.
Gap(word, q) == kRcmmBitSpace[(IF 2 * q + 1 \in word THEN 2 ELSE 0) + (IF 2 * q \in word THEN 1 ELSE 0) + 1]
LEMMA GapReads ==
  \A word, q :
    LET d == Ticks(Capped(Gap(word, q)))
    IN  /\ Gap(word, q) \in Nat /\ 10 <= Gap(word, q)
        /\ d > 530 <=> 2 * q + 1 \in word
        /\ d \in 360 .. 530 \/ d > 690 <=> 2 * q \in word
<1> SUFFICES ASSUME NEW word, NEW q
             PROVE  LET d == Ticks(Capped(Gap(word, q)))
                    IN  /\ Gap(word, q) \in Nat /\ 10 <= Gap(word, q)
                        /\ d > 530 <=> 2 * q + 1 \in word
                        /\ d \in 360 .. 530 \/ d > 690 <=> 2 * q \in word
  OBVIOUS
<1> DEFINE high == 2 * q + 1 \in word
           low == 2 * q \in word
<1>1. Gap(word, q) = kRcmmBitSpace[(IF high THEN 2 ELSE 0) + (IF low THEN 1 ELSE 0) + 1]
  BY DEF Gap
<1> HIDE DEF high, low
<1>2. /\ kRcmmBitSpace[1] = 277 /\ kRcmmBitSpace[2] = 444
      /\ kRcmmBitSpace[3] = 611 /\ kRcmmBitSpace[4] = 777
  BY DEF kRcmmBitSpace
<1>3. Gap(word, q) = IF high THEN IF low THEN 777 ELSE 611 ELSE IF low THEN 444 ELSE 277
  BY <1>1, <1>2
<1>4. /\ Ticks(Capped(277)) = 270 /\ Ticks(Capped(444)) = 440
      /\ Ticks(Capped(611)) = 610 /\ Ticks(Capped(777)) = 770
  BY DEF Ticks, Capped
<1>5. Ticks(Capped(Gap(word, q))) = IF high THEN IF low THEN 770 ELSE 610 ELSE IF low THEN 440 ELSE 270
  BY <1>3, <1>4
<1> QED BY <1>3, <1>5 DEF high, low

LEMMA Quartered ==
  \A r, s, i : r.reads = Quarters =>
    (ReadsOne(r, s, i) <=> LET d == air[s + r.lead + 2 * ((i + 1) \div 2)].d1
                             IN  IF i % 2 = 1 THEN d > 530 ELSE d \in 360 .. 530 \/ d > 690)
BY ReadsQuarters DEF Quarters

LEMMA Hears_RCMM ==
  \A word : SentAs("RCMM", word) => Hears("RCMM", word)
<1> SUFFICES ASSUME NEW word, SentAs("RCMM", word) PROVE Hears("RCMM", word)
  OBVIOUS
<1> DEFINE n == 12
           r == Receivers["RCMM"]
           e == [i \in 1 .. n |-> Mark(166) \o Space(Gap(word, n - i))]
           loop == FlattenSeq(e)
           lead == MarkSpace(416, 277)
           end == Mark(166)
           k == 0
           one == 1
           two == 2 * n
           most == one + two
           all == 24
<1>1. r = Receiver(24, 1, 26, 1, 0, Quarters, 0, 3360)
  BY DEF Receivers, Quarters
<1>2. sendRCMM(word) = (lead \o loop) \o end
  BY DEF sendRCMM, Gap
<1>3. /\ n \in Nat /\ two \in Nat /\ k \in Nat /\ one \in Nat /\ most \in Nat /\ k + one = one
      /\ most + one = 26 /\ n = 12 /\ all = 24 /\ all \in Nat /\ one \in 1 .. one
  OBVIOUS
<1>4. e = [i \in 1 .. n |-> e[i]] /\ \A i \in 1 .. n : e[i] = Mark(166) \o Space(Gap(word, n - i))
  OBVIOUS
<1>5. Sends(lead, one) /\ Sends(Mark(166), 1) /\ Sends(end, one) /\ Sent(end)[one] = Half(0, 166)
  BY SendsHalf, SendsPulse
<1> HIDE DEF r, e, lead, end, n, k, one, two, most, all
<1>6. ASSUME NEW i \in 1 .. n
      PROVE  Sends(e[i], 2) /\ Sent(e[i])[2] = Half(1, Gap(word, n - i))
  <2> DEFINE g == Gap(word, n - i)
  <2>1. g \in Nat /\ 10 <= g
    BY GapReads
  <2> HIDE DEF g
  <2>2. Sends(Space(g), 1) /\ Sent(Space(g))[1] = Half(1, g)
    BY <2>1, SendsHalf
  <2>3. e[i] = Mark(166) \o Space(g)
    BY <1>4 DEF g
  <2>4. Sends(e[i], 2) /\ Sent(e[i])[2] = Half(1, g)
    BY <1>5, <2>2, <2>3, SendsTwo
  <2> QED BY <2>4 DEF g
<1>7. Sends(loop, two) /\ \A i \in 1 .. n : Sent(loop)[2 * i] = Sent(e[i])[2]
  <2>1. Pieces(e, n, 2)
    BY <1>3, <1>4, <1>6 DEF Pieces
  <2> QED BY <2>1, PairPieces DEF two
<1> HIDE DEF loop
<1>8. At(k, (lead \o loop) \o end, Len(air))
  <2>1. At(0, sendRCMM(word), Len(air))
    BY SentOps, Writes_RCMM DEF SentAs
  <2> QED BY <1>2, <2>1 DEF k
<1>9. Len(air) = most + one /\ At(k, lead \o loop, most) /\ At(k + most, end, one)
  <2> DEFINE front == lead \o loop
  <2>1. Sends(front, most)
    BY <1>3, <1>5, <1>7, SendsBoth DEF most
  <2>2. At(k, front \o end, Len(air))
    BY <1>8
  <2> HIDE DEF front
  <2>3. Len(air) = most + one /\ At(k, front, most) /\ At(k + most, end, one)
    BY SMTT(30), <1>3, <1>5, <2>1, <2>2, AtBoth
  <2> QED BY <2>3 DEF front
<1>10. At(one, loop, two)
  <2>1. At(k + one, loop, two)
    BY SMTT(30), <1>3, <1>5, <1>7, <1>9, AtBoth
  <2> QED BY <1>3, <2>1
<1>11. \A q \in 1 .. n : air[one + 2 * q].d1 = Ticks(Capped(Gap(word, n - q)))
  <2>1. \A q \in 1 .. n : 2 * q \in 1 .. two
    BY <1>3 DEF two
  <2>2. \A i \in 1 .. two : Same(air[one + i], Sent(loop)[i])
    BY <1>10 DEF At
  <2>3. \A q \in 1 .. n : Same(air[one + 2 * q], Half(1, Gap(word, n - q)))
    BY <1>6, <1>7, <2>1, <2>2
  <2>4. \A d : Half(1, d).d1 = Ticks(Capped(d))
    BY DEF Half
  <2> QED BY <2>3, <2>4 DEF Same
<1>12. /\ r.bits = all /\ r.lead = one /\ r.size = 26 /\ r.copies = 1 /\ r.rest = 0
       /\ r.reads = Quarters /\ r.gap = 3360
  BY <1>1, <1>3, ReceiverFields DEF one
<1>13. ASSUME NEW i \in 1 .. all PROVE ReadsOne(r, k, i) <=> all - i \in word
  <2> DEFINE q == (i + 1) \div 2
             g == Ticks(Capped(Gap(word, n - q)))
  <2>1. /\ q \in 1 .. n /\ i % 2 \in {0, 1}
        /\ i % 2 = 1 => all - i = 2 * (n - q) + 1
        /\ i % 2 # 1 => all - i = 2 * (n - q)
    <3>1. i \in 1 .. 24
      BY <1>3
    <3>2. /\ q \in 1 .. 12 /\ i % 2 \in {0, 1}
          /\ i % 2 = 1 => 24 - i = 2 * (12 - q) + 1
          /\ i % 2 # 1 => 24 - i = 2 * (12 - q)
      BY <3>1
    <3> QED BY <1>3, <3>2
  <2>2. ReadsOne(r, k, i) <=> LET d == air[k + r.lead + 2 * q].d1
                              IN  IF i % 2 = 1 THEN d > 530 ELSE d \in 360 .. 530 \/ d > 690
    BY SMTT(30), <1>12, Quartered
  <2> HIDE DEF q, g
  <2>3. k + r.lead + 2 * q = one + 2 * q
    BY <1>3, <1>12
  <2>4. air[one + 2 * q].d1 = g
    BY <1>11, <2>1 DEF g
  <2>5. ReadsOne(r, k, i) <=> IF i % 2 = 1 THEN g > 530 ELSE g \in 360 .. 530 \/ g > 690
    BY <2>2, <2>3, <2>4
  <2>6. g > 530 <=> 2 * (n - q) + 1 \in word
    BY GapReads DEF g
  <2>7. g \in 360 .. 530 \/ g > 690 <=> 2 * (n - q) \in word
    BY GapReads DEF g
  <2> QED BY <2>1, <2>5, <2>6, <2>7
<1>14. "RCMM" \in Gapless
  BY DEF Gapless
<1>15. \A i \in 1 .. all : ReadsOne(r, 0, i) <=> all - i \in word
  BY <1>13 DEF k
<1>16. ReadInFull("RCMM", word, r, all)
  BY <1>3, <1>9, <1>12, <1>14, <1>15 DEF ReadInFull, r
<1> QED BY <1>16, HearsInFull

----------------------------------------------------------------------------
(* Codes sent in two messages.                                             *)

HalvesMode == "halves"
BlocksMode == "blocks"
LEMMA HalvesRead ==
  \A r, s, i : r.reads = HalvesMode =>
    (ReadsOne(r, s, i) <=> air[s + r.lead + (IF i > 32 THEN i + 2 ELSE i)].d1 > r.than)
BY ReadsHalves DEF HalvesMode
LEMMA BlocksRead ==
  \A r, s, i : r.reads = BlocksMode =>
    (ReadsOne(r, s, i) <=> air[s + r.lead + (IF i > 16 THEN i + 1 ELSE i)].d1 > r.than)
BY ReadsBlocks DEF BlocksMode

LEMMA BitsAbove ==
  \A word : \A lo, b \in Nat : lo + b <= 63 => (b \in Bits(word, lo, 63) <=> lo + b \in word)
<1> SUFFICES ASSUME NEW word, NEW lo \in Nat, NEW b \in Nat, lo + b <= 63
             PROVE  b \in Bits(word, lo, 63) <=> lo + b \in word
  OBVIOUS
<1>1. ASSUME lo + b \in word PROVE b \in Bits(word, lo, 63)
  <2>1. lo + b \in word \cap lo .. 63 /\ (lo + b) - lo = b
    BY <1>1
  <2> QED BY <2>1 DEF Bits
<1>2. ASSUME b \in Bits(word, lo, 63) PROVE lo + b \in word
  <2>1. PICK c \in word \cap lo .. 63 : b = c - lo
    BY <1>2 DEF Bits
  <2>2. lo + b = c
    BY <2>1
  <2> QED BY <2>1, <2>2
<1> QED BY <1>1, <1>2

\* The space of each bit of a message in the air.
LEMMA CarriedSpace ==
  ASSUME NEW k, NEW one, NEW zero, NEW word, NEW n, Carries(k, one, zero, word, n),
         NEW than, PulseOf(one).d1 > than, ~ (PulseOf(zero).d1 > than)
  PROVE  \A i \in 1 .. n : air[k + i].d1 > than <=> n - i \in word
<1> TAKE i \in 1 .. n
<1>1. Same(air[k + i], PulseOf(IF n - i \in word THEN one ELSE zero))
  BY DEF Carries, Bit
<1>2. air[k + i].d1 = PulseOf(IF n - i \in word THEN one ELSE zero).d1
  BY <1>1 DEF Same
<1> QED BY <1>2

LEMMA Hears_PIONEER ==
  \A word : SentAs("PIONEER", word) => Hears("PIONEER", word)
<1> SUFFICES ASSUME NEW word, SentAs("PIONEER", word) PROVE Hears("PIONEER", word)
  OBVIOUS
<1> DEFINE h == <<8506, 4191>>
           o == <<568, 1542>>
           z == <<568, 487>>
           t == <<568, 25181>>
           f == Format(h, o, z, t)
           r == Receivers["PIONEER"]
           upper == Bits(word, 32, 63)
           a == MessageOf(f, upper, 32)
           b == MessageOf(f, word, 32)
           n == 32
           m == 34
           k == 0
           one == 1
           all == 64
<1>1. Lights(h) /\ Lights(o) /\ Lights(z) /\ Lights(t) /\ h[2] # 0 /\ h # None /\ t[1] # 0
  BY LightsLit
<1>2. PulseOf(o).d1 = 1540 /\ PulseOf(z).d1 = 480 /\ PulseOf(t).d1 = 25180
  BY PulseValue DEF Ticks, Capped
<1>3. r = Receiver(64, 1, 68, 1, 0, HalvesMode, 1000, 25180)
  BY DEF Receivers, HalvesMode
<1>4. sendPioneer(word) = SendGeneric(h, o, z, t, upper, 32, 0) \o SendGeneric(h, o, z, t, word, 32, 0)
  BY DEF sendPioneer
<1>5. /\ n \in Nat /\ n > 0 /\ m \in Nat /\ k \in Nat /\ one \in Nat /\ m = one + n + one /\ k + m = m
      /\ n = 32 /\ m = 34 /\ all = 64 /\ all \in Nat /\ k + one = one /\ m + m = 68 /\ one = 1
  OBVIOUS
<1> HIDE DEF h, o, z, t, r, upper
<1>6. f.header = h /\ f.one = o /\ f.zero = z /\ f.footer = t
  BY FormatFields
<1>7. \A w : SendGeneric(h, o, z, t, w, 32, 0) = MessageOf(f, w, 32)
  <2>1. h \in Shape /\ o \in Shape /\ z \in Shape /\ t \in Shape
    BY <1>1, LightsShape
  <2> HIDE DEF f
  <2> QED BY <1>6, <2>1, OnceIsMessage DEF MessageOf
<1> HIDE DEF f
<1>8. At(k, a \o b, Len(air))
  <2>1. At(0, sendPioneer(word), Len(air))
    BY SentOps, Writes_PIONEER DEF SentAs
  <2>2. sendPioneer(word) = a \o b
    BY <1>4, <1>7
  <2> QED BY <2>1, <2>2
<1> HIDE DEF a, b, n, m, k, one, all
<1>9. Framed(f) /\ Lead(f) = one /\ Foot(f) = one /\ Rests(r.gap, f)
  <2>1. r.gap = 25180
    BY <1>3, ReceiverFields
  <2>2. Framed(f) /\ Lead(f) = one /\ Foot(f) = one
    BY <1>1, <1>6, LightsShape DEF Framed, Lead, Foot, one
  <2>3. PulseOf(f.footer).d1 >= r.gap /\ f.footer[1] # 0
    BY <1>1, <1>2, <1>6, <2>1
  <2>4. Rests(r.gap, f)
    BY <2>3 DEF Rests
  <2> QED BY <2>2, <2>4
<1>10. a = MessageOf(f, upper, n) /\ b = MessageOf(f, word, n)
  BY DEF a, b, n
<1>11. Sends(a, m) /\ Sends(b, m)
  BY <1>5, <1>9, <1>10, MessageSends
<1>12. Len(air) = m + m /\ At(k, a, m) /\ At(m, b, m)
  <2>1. m \in Nat /\ k \in Nat
    BY <1>5
  <2>2. Len(air) = m + m /\ At(k, a, m) /\ At(k + m, b, m)
    BY <1>8, <1>11, <2>1, AtBoth
  <2> QED BY <1>5, <2>2
<1>13. Carries(one, o, z, upper, n)
  <2>1. Carries(k + Lead(f), f.one, f.zero, upper, n)
    BY <1>5, <1>9, <1>10, <1>12, EndOfMessage
  <2> QED BY <1>5, <1>6, <1>9, <2>1
<1>14. Carries(m + one, o, z, word, n) /\ air[m + m].d1 >= r.gap
  <2>1. Carries(m + Lead(f), f.one, f.zero, word, n) /\ air[m + m].d1 >= r.gap
    BY <1>5, <1>9, <1>10, <1>12, EndOfMessage
  <2> QED BY <1>6, <1>9, <2>1
<1>15. /\ r.bits = all /\ r.lead = one /\ r.size = 68 /\ r.copies = 1 /\ r.rest = 0
       /\ r.reads = HalvesMode /\ r.than = 1000 /\ r.gap = 25180
  BY <1>3, <1>5, ReceiverFields
<1>16. /\ \A i \in 1 .. n : air[one + i].d1 > r.than <=> n - i \in upper
       /\ \A i \in 1 .. n : air[(m + one) + i].d1 > r.than <=> n - i \in word
  <2>1. PulseOf(o).d1 > r.than /\ ~ (PulseOf(z).d1 > r.than)
    BY <1>2, <1>15
  <2>2. \A i \in 1 .. n : air[one + i].d1 > r.than <=> n - i \in upper
    BY <1>13, <2>1, CarriedSpace
  <2>3. \A i \in 1 .. n : air[(m + one) + i].d1 > r.than <=> n - i \in word
    BY <1>14, <2>1, CarriedSpace
  <2> QED BY <2>2, <2>3
<1>17. ASSUME NEW i \in 1 .. all PROVE ReadsOne(r, k, i) <=> all - i \in word
  <2> DEFINE at == k + r.lead + (IF i > 32 THEN i + 2 ELSE i)
  <2>1. ReadsOne(r, k, i) <=> air[at].d1 > r.than
    BY <1>15, HalvesRead
  <2>2. CASE i > 32
    <3>1. at = (m + one) + (i - n) /\ i - n \in 1 .. n /\ n - (i - n) = all - i
      <4>1. i \in 33 .. 64 /\ at = 0 + 1 + (i + 2)
        BY <1>5, <1>15, <2>2 DEF k
      <4> HIDE DEF at
      <4> QED BY <1>5, <4>1
    <3> HIDE DEF at
    <3> QED BY <1>16, <2>1, <3>1
  <2>3. CASE ~ (i > 32)
    <3>1. at = one + i /\ i \in 1 .. n /\ n - i \in Nat /\ n - i \in 0 .. 31 /\ 32 + (n - i) = all - i
      <4>1. i \in 1 .. 32 /\ at = 0 + 1 + i
        BY <1>5, <1>15, <2>3 DEF k
      <4> HIDE DEF at
      <4> QED BY <1>5, <4>1
    <3> HIDE DEF at
    <3>2. n - i \in upper <=> all - i \in word
      BY <3>1, BitsAbove DEF upper
    <3> QED BY <1>16, <2>1, <3>1, <3>2
  <2> QED BY <2>2, <2>3
<1>18. \A i \in 1 .. all : ReadsOne(r, 0, i) <=> all - i \in word
  BY <1>17 DEF k
<1>19. Len(air) = 68 /\ air[68].d1 >= r.gap
  BY <1>5, <1>12, <1>14
<1>20. ReadInFull("PIONEER", word, r, all)
  BY <1>5, <1>15, <1>18, <1>19 DEF ReadInFull, r
<1> QED BY <1>20, HearsInFull

LEMMA Hears_SAMSUNG36 ==
  \A word : SentAs("SAMSUNG36", word) => Hears("SAMSUNG36", word)
<1> SUFFICES ASSUME NEW word, SentAs("SAMSUNG36", word) PROVE Hears("SAMSUNG36", word)
  OBVIOUS
<1> DEFINE h == <<4515, 4438>>
           o == <<512, 1468>>
           z == <<512, 490>>
           t == <<512, 4438>>
           u == <<512, 26880>>
           f == Format(h, o, z, t)
           g == Format(None, o, z, u)
           r == Receivers["SAMSUNG36"]
           upper == Bits(word, 20, 63)
           lower == word \cap 0 .. 19
           a == MessageOf(f, upper, 16)
           b == MessageOf(g, lower, 20)
           n == 16
           l == 20
           m == 18
           w == 21
           k == 0
           one == 1
           all == 36
<1>1. /\ Lights(h) /\ Lights(o) /\ Lights(z) /\ Lights(t) /\ Lights(u)
      /\ h[2] # 0 /\ h # None /\ t[1] # 0 /\ u[1] # 0
  BY LightsLit
<1>2. PulseOf(o).d1 = 1460 /\ PulseOf(z).d1 = 490 /\ PulseOf(u).d1 = 26880
  BY PulseValue DEF Ticks, Capped
<1>3. r = Receiver(36, 1, 39, 1, 0, BlocksMode, 1000, 26880)
  BY DEF Receivers, BlocksMode
<1>4. sendSamsung36(word) = SendGeneric(h, o, z, t, upper, 16, 0) \o SendGeneric(None, o, z, u, lower, 20, 0)
  BY DEF sendSamsung36
<1>5. /\ n \in Nat /\ n > 0 /\ l \in Nat /\ l > 0 /\ m \in Nat /\ w \in Nat /\ k \in Nat /\ one \in Nat
      /\ m = one + n + one /\ w = k + l + one /\ k + m = m /\ m + k = m /\ k + one = one /\ m + w = 39
      /\ n = 16 /\ l = 20 /\ m = 18 /\ all = 36 /\ all \in Nat /\ one = 1
  OBVIOUS
<1> HIDE DEF h, o, z, t, u, r, upper, lower
<1>6. /\ f.header = h /\ f.one = o /\ f.zero = z /\ f.footer = t
      /\ g.header = None /\ g.one = o /\ g.zero = z /\ g.footer = u
  BY FormatFields
<1>7. /\ SendGeneric(h, o, z, t, upper, 16, 0) = MessageOf(f, upper, 16)
      /\ SendGeneric(None, o, z, u, lower, 20, 0) = MessageOf(g, lower, 20)
  <2>1. h \in Shape /\ o \in Shape /\ z \in Shape /\ t \in Shape /\ u \in Shape /\ None \in Shape
    BY <1>1, LightsShape DEF None, Shape
  <2> HIDE DEF f, g
  <2> QED BY <1>6, <2>1, OnceIsMessage DEF MessageOf
<1> HIDE DEF f, g
<1>8. At(k, a \o b, Len(air))
  <2>1. At(0, sendSamsung36(word), Len(air))
    BY SentOps, Writes_SAMSUNG36 DEF SentAs
  <2>2. sendSamsung36(word) = a \o b
    BY <1>4, <1>7
  <2> QED BY <2>1, <2>2
<1> HIDE DEF a, b, n, l, m, w, k, one, all
<1>9. /\ Framed(f) /\ Lead(f) = one /\ Foot(f) = one
      /\ Framed(g) /\ Lead(g) = k /\ Foot(g) = one /\ Rests(r.gap, g)
  <2>1. r.gap = 26880
    BY <1>3, ReceiverFields
  <2>2. Framed(f) /\ Lead(f) = one /\ Foot(f) = one
    BY <1>1, <1>6, LightsShape DEF Framed, Lead, Foot, one
  <2>3. Framed(g) /\ Lead(g) = k /\ Foot(g) = one
    BY <1>1, <1>6, LightsShape DEF Framed, Lead, Foot, one, k
  <2>4. PulseOf(g.footer).d1 >= r.gap /\ g.footer[1] # 0
    BY <1>1, <1>2, <1>6, <2>1
  <2>5. Rests(r.gap, g)
    BY <2>4 DEF Rests
  <2> QED BY <2>2, <2>3, <2>5
<1>10. a = MessageOf(f, upper, n) /\ b = MessageOf(g, lower, l)
  BY DEF a, b, n, l
<1>11. Sends(a, m) /\ Sends(b, w)
  BY <1>5, <1>9, <1>10, MessageSends
<1>12. Len(air) = m + w /\ At(k, a, m) /\ At(m, b, w)
  <2>1. Len(air) = m + w /\ At(k, a, m) /\ At(k + m, b, w)
    BY SMTT(30), <1>5, <1>8, <1>11, AtBoth
  <2> QED BY <1>5, <2>1
<1>13. Carries(one, o, z, upper, n)
  <2>1. Carries(k + Lead(f), f.one, f.zero, upper, n)
    BY <1>5, <1>9, <1>10, <1>12, EndOfMessage
  <2> QED BY <1>5, <1>6, <1>9, <2>1
<1>14. Carries(m, o, z, lower, l) /\ air[m + w].d1 >= r.gap
  <2>1. Carries(m + Lead(g), g.one, g.zero, lower, l) /\ air[m + w].d1 >= r.gap
    BY <1>5, <1>9, <1>10, <1>12, EndOfMessage
  <2> QED BY <1>5, <1>6, <1>9, <2>1
<1>15. /\ r.bits = all /\ r.lead = one /\ r.size = 39 /\ r.copies = 1 /\ r.rest = 0
       /\ r.reads = BlocksMode /\ r.than = 1000 /\ r.gap = 26880
  BY <1>3, <1>5, ReceiverFields
<1>16. /\ \A i \in 1 .. n : air[one + i].d1 > r.than <=> n - i \in upper
       /\ \A i \in 1 .. l : air[m + i].d1 > r.than <=> l - i \in lower
  <2>1. PulseOf(o).d1 > r.than /\ ~ (PulseOf(z).d1 > r.than)
    BY <1>2, <1>15
  <2>2. \A i \in 1 .. n : air[one + i].d1 > r.than <=> n - i \in upper
    BY <1>13, <2>1, CarriedSpace
  <2>3. \A i \in 1 .. l : air[m + i].d1 > r.than <=> l - i \in lower
    BY <1>14, <2>1, CarriedSpace
  <2> QED BY <2>2, <2>3
<1>17. ASSUME NEW i \in 1 .. all PROVE ReadsOne(r, k, i) <=> all - i \in word
  <2> DEFINE at == k + r.lead + (IF i > 16 THEN i + 1 ELSE i)
  <2>1. ReadsOne(r, k, i) <=> air[at].d1 > r.than
    BY <1>15, BlocksRead
  <2>2. CASE i > 16
    <3>1. at = m + (i - n) /\ i - n \in 1 .. l /\ l - (i - n) = all - i /\ all - i \in 0 .. 19
      <4>1. i \in 17 .. 36 /\ at = 0 + 1 + (i + 1)
        BY <1>5, <1>15, <2>2 DEF k
      <4> HIDE DEF at
      <4> QED BY <1>5, <4>1
    <3> HIDE DEF at
    <3>2. all - i \in lower <=> all - i \in word
      BY <3>1 DEF lower
    <3> QED BY <1>16, <2>1, <3>1, <3>2
  <2>3. CASE ~ (i > 16)
    <3>1. at = one + i /\ i \in 1 .. n /\ n - i \in Nat /\ n - i \in 0 .. 15 /\ 20 + (n - i) = all - i
      <4>1. i \in 1 .. 16 /\ at = 0 + 1 + i
        BY <1>5, <1>15, <2>3 DEF k
      <4> HIDE DEF at
      <4> QED BY <1>5, <4>1
    <3> HIDE DEF at
    <3>2. n - i \in upper <=> all - i \in word
      BY <3>1, BitsAbove DEF upper
    <3> QED BY <1>16, <2>1, <3>1, <3>2
  <2> QED BY <2>2, <2>3
<1>18. \A i \in 1 .. all : ReadsOne(r, 0, i) <=> all - i \in word
  BY <1>17 DEF k
<1>19. Len(air) = 39 /\ air[39].d1 >= r.gap
  BY <1>5, <1>12, <1>14
<1>20. ReadInFull("SAMSUNG36", word, r, all)
  BY <1>5, <1>15, <1>18, <1>19 DEF ReadInFull, r
<1> QED BY <1>20, HearsInFull

----------------------------------------------------------------------------
(* The theorems.                                                           *)

Heard ==
  {"NEC", "JVC", "SAMSUNG", "DENON", "SHERWOOD", "RCMM", "SANYO_LC7461", "NIKAI", "MAGIQUEST",
  "LASERTAG", "GICABLE", "LUTRON", "PIONEER", "SAMSUNG36", "LEGOPF", "INAX", "SONY38", "SONY",
  "AIWA", "PANASONIC_64", "PANASONIC"}

LEMMA ListensHeard == \A p : Listens(p) <=> p \in Heard
BY SMTT(60) DEF Listens, Receivers, Heard

LEMMA EveryHears ==
  \A p, word : Listens(p) /\ SentAs(p, word) => Hears(p, word)
<1> SUFFICES ASSUME NEW p, NEW word, Listens(p), SentAs(p, word) PROVE Hears(p, word)
  OBVIOUS
<1>1. p \in Heard
  BY ListensHeard
<1> QED
  BY <1>1, Zenon,
     Hears_NEC, Hears_JVC, Hears_SAMSUNG, Hears_DENON, Hears_SHERWOOD, Hears_RCMM,
     Hears_SANYO_LC7461, Hears_NIKAI, Hears_MAGIQUEST, Hears_LASERTAG, Hears_GICABLE,
     Hears_LUTRON, Hears_PIONEER, Hears_SAMSUNG36, Hears_LEGOPF, Hears_INAX, Hears_SONY38,
     Hears_SONY, Hears_AIWA, Hears_PANASONIC_64, Hears_PANASONIC
     DEF Heard

\* A code that has been sent, heard by the receiver of its protocol.
LEMMA CodeHeard ==
  ASSUME Track, Done, job.kind = "code", Listens(job.protocol)
  PROVE  /\ job.code \in Codes
         /\ \E beyond : Hears(job.protocol, Data(job.code, beyond))
<1>1. /\ job.code \in Codes /\ Len(air) \in Nat
      /\ \E beyond : SentCode(Data(job.code, beyond))
  BY DoneCode
<1>2. PICK beyond : SentCode(Data(job.code, beyond))
  BY <1>1
<1>3. SentAs(job.protocol, Data(job.code, beyond))
  BY <1>1, <1>2 DEF SentAs
<1>4. Hears(job.protocol, Data(job.code, beyond))
  BY <1>3, EveryHears
<1> QED BY <1>1, <1>4

LEMMA FitSays ==
  \A p, code, beyond : code \in Codes /\ Fits(p, code) => Says(p, Data(code, beyond), code.word)
<1> SUFFICES ASSUME NEW p, NEW code \in Codes, NEW beyond, Fits(p, code)
             PROVE  Says(p, Data(code, beyond), code.word)
  OBVIOUS
<1> QED BY FitsData DEF Says

\* Whatever the protocol, the code, and the value an undefined shift leaves in
\* its data, a receiver reads back what was stored; and a capture of whole pulses
\* comes out with its own durations.
THEOREM StoredSent == Spec => []SentAsStored
<1>1. Track => SentAsStored
  <2> SUFFICES ASSUME Track PROVE SentAsStored
    OBVIOUS
  <2>1. ASSUME Done, job.kind = "code", Listens(job.protocol), Fits(job.protocol, job.code)
        PROVE  LET r == Receivers[job.protocol]
               IN  /\ Len(air) = r.copies * r.size + r.rest
                   /\ \A copy \in 1 .. r.copies :
                        Received(r, copy) = Meant(job.protocol, job.code.word, copy)
    <3>1. /\ job.code \in Codes
          /\ \E beyond : Hears(job.protocol, Data(job.code, beyond))
      BY <2>1, CodeHeard
    <3>2. PICK beyond : Hears(job.protocol, Data(job.code, beyond))
      BY <3>1
    <3>3. Says(job.protocol, Data(job.code, beyond), job.code.word)
      BY <2>1, <3>1, FitSays
    <3> QED BY <3>2, <3>3 DEF Hears, CopyHeard
  <2>2. ASSUME Done, job.kind \in {"learned", "message"}, Whole(job)
        PROVE  FlattenSeq([i \in 1 .. Len(air) |-> <<air[i].d0, air[i].d1>>]) = job.durations
    BY <2>2, CaptureSent
  <2> QED BY <2>1, <2>2 DEF SentAsStored
<1> QED BY <1>1, Tracked, PTL

\* No copy of a message runs into the next one, or into the next command: each
\* ends with the rest its protocol asks for, for every code, in the protocols that
\* do not leave the rest out (sendGeneric's footer and the gap of each send function).
THEOREM RestsKept == Spec => []GapsKept
<1>1. Track => GapsKept
  <2> SUFFICES ASSUME Track, Done, job.kind = "code", Listens(job.protocol),
                      job.protocol \notin Gapless
               PROVE  LET r == Receivers[job.protocol]
                      IN  \A copy \in 1 .. r.copies : air[copy * r.size].d1 >= r.gap
    BY DEF GapsKept
  <2>1. PICK beyond : Hears(job.protocol, Data(job.code, beyond))
    BY CodeHeard
  <2> QED BY <2>1 DEF Hears, CopyHeard
<1> QED BY <1>1, Tracked, PTL

=============================================================================
