------------------------------ MODULE GattProofs ------------------------------
(***************************************************************************)
(* GattServer for writes of any length and any number of phones: its type  *)
(* invariant, the refinement of ControlChannel and PreparedIsOneWrite.     *)
(***************************************************************************)
EXTENDS GattServer, FiniteSetTheorems, SequenceTheorems, TLAPS

----------------------------------------------------------------------------
(* Types.                                                                  *)

LEMMA EventTypes ==
  /\ \A k \in Completion \union {"connect", "disconnect"} : Ev(k) \in Event
  /\ \A r \in Request, i \in 1 .. MaxWrites : [id |-> i, req |-> r] \in Event
BY DEF Ev, Event

LEMMA EventsType ==
  ASSUME events \in Seq(Event)
  PROVE  /\ \A e \in Event : Append(events, e) \in Seq(Event)
         /\ events # << >> => Head(events) \in Event /\ Tail(events) \in Seq(Event)
BY AppendProperties, HeadTailProperties

Logs == [answered : Seq(Nat), notified : Seq(Notice), abandoned : BOOLEAN]
Counts == [writes : 0 .. MaxWrites, conns : 0 .. MaxConns, fails : 0 .. MaxFails]
Phones == [linked : BOOLEAN, waits : BOOLEAN, long : 0 .. MaxLong]

LEMMA FailsType ==
  ASSUME GattAssumption, TypeOK, Fails
  PROVE  count' \in Counts
<1>1. count \in Counts /\ count.fails < MaxFails /\ MaxFails \in Nat
  BY DEF TypeOK, Counts, Fails, GattAssumption
<1>2. count.fails + 1 \in 0 .. MaxFails
  BY <1>1 DEF Counts
<1> QED BY <1>1, <1>2 DEF Fails, Counts

LEMMA AdvertisingType ==
  ASSUME GattAssumption, TypeOK, StartAdvertising
  PROVE  jobs' \in [{"gap", "gatts"} -> Seq(Completion)] /\ count' \in Counts
<1>1. Append(jobs["gap"], "adv_start") \in Seq(Completion)
  <2>1. "adv_start" \in Completion
    BY DEF Completion
  <2> QED BY <2>1, AppendProperties DEF TypeOK
<1>2. CASE Works /\ jobs' = [jobs EXCEPT !["gap"] = Append(@, "adv_start")]
  BY <1>1, <1>2 DEF TypeOK, Works, Counts
<1>3. CASE Fails /\ UNCHANGED jobs
  BY <1>3, FailsType DEF TypeOK
<1> QED BY <1>2, <1>3 DEF StartAdvertising

LEMMA AnswerType ==
  ASSUME TypeOK, events # << >>,
         NEW l \in Logs
  PROVE  WithAnswer(l) \in Logs
<1>1. Head(events) \in Event
  BY EventsType DEF TypeOK
<1>2. Head(events).id \in Nat
  BY <1>1 DEF Event
<1>3. Append(l.answered, Head(events).id) \in Seq(Nat)
  BY <1>2, AppendProperties DEF Logs
<1> QED BY <1>3 DEF WithAnswer, Logs

\* What Write tells the phone is added to the notifications and to nothing else.
LEMMA ToldKeeps ==
  ASSUME TypeOK, events # << >>
  PROVE  Told \in Logs /\ Told.answered = log.answered /\ Told.abandoned = log.abandoned
<1>1. Head(events) \in Event
  BY EventsType DEF TypeOK
<1>2. Head(events).id \in Nat
  BY <1>1 DEF Event
<1>3. ASSUME NEW l \in Logs, NEW what \in {"verdict", "sample"}
      PROVE  /\ WithNotice(l, what) \in Logs
             /\ WithNotice(l, what).answered = l.answered
             /\ WithNotice(l, what).abandoned = l.abandoned
  <2>1. [id |-> Head(events).id, what |-> what] \in Notice
    BY <1>2 DEF Notice
  <2>2. Append(l.notified, [id |-> Head(events).id, what |-> what]) \in Seq(Notice)
    BY <2>1, AppendProperties DEF Logs
  <2> QED BY <2>2 DEF WithNotice, Logs
<1>4. log \in Logs
  BY DEF TypeOK, Logs
<1> QED BY <1>3, <1>4, Zenon DEF Told

LEMMA AskedId ==
  ASSUME GattAssumption, TypeOK, NEW r \in Request, PhoneAsks(r)
  PROVE  [id |-> count.writes + 1, req |-> r] \in Event
<1>1. count \in Counts /\ MaxWrites \in Nat
  BY DEF TypeOK, Counts, GattAssumption
<1>2. count.writes \in 0 .. MaxWrites
  BY <1>1 DEF Counts
<1>3. count.writes < MaxWrites
  BY DEF PhoneAsks
<1>4. count.writes + 1 \in 1 .. MaxWrites
  BY <1>1, <1>2, <1>3
<1> QED BY <1>4, EventTypes

LEMMA TypeStep ==
  ASSUME GattAssumption, TypeOK, [Next]_vars
  PROVE  TypeOK'
<1> USE DEF Counts, Phones
<1>1. CASE BluetoothInit
  <2>1. <<"reg">> \in Seq(Completion)
    BY DEF Completion
  <2>2. Len(InitSteps) = 9
    BY DEF InitSteps
  <2>3. count' \in Counts
    BY <1>1, FailsType DEF BluetoothInit, Works, TypeOK
  <2>4. init' \in 0 .. Len(InitSteps)
    <3>1. init \in 0 .. 9
      BY <2>2 DEF TypeOK
    <3>2. init' = 0 \/ (init # 9 /\ init' = init + 1)
      BY <1>1, <2>2 DEF BluetoothInit
    <3> QED BY <2>2, <3>1, <3>2
  <2>5. jobs' \in [{"gap", "gatts"} -> Seq(Completion)]
    <3>1. \/ jobs' = [jobs EXCEPT !["gatts"] = <<"reg">>]
          \/ jobs' = jobs
      BY <1>1 DEF BluetoothInit
    <3>2. jobs \in [{"gap", "gatts"} -> Seq(Completion)]
      BY DEF TypeOK
    <3> QED BY <2>1, <3>1, <3>2
  <2>6. restarted' \in BOOLEAN
    BY <1>1 DEF BluetoothInit, TypeOK
  <2> QED BY <1>1, <2>3, <2>4, <2>5, <2>6 DEF BluetoothInit, TypeOK
<1>2. CASE \E half \in {"gap", "gatts"} : StackCompletes(half)
  <2>1. PICK half \in {"gap", "gatts"} : StackCompletes(half)
    BY <1>2
  <2>2. Head(jobs[half]) \in Completion /\ Tail(jobs[half]) \in Seq(Completion)
    BY <2>1, HeadTailProperties DEF StackCompletes, TypeOK
  <2>3. jobs' \in [{"gap", "gatts"} -> Seq(Completion)]
    BY <2>1, <2>2 DEF StackCompletes, TypeOK
  <2>4. events' \in Seq(Event)
    BY <2>1, <2>2, EventTypes, EventsType DEF StackCompletes, TypeOK
  <2>5. air' \in [on : BOOLEAN, data : SUBSET Flags]
    BY <2>1 DEF StackCompletes, TypeOK, Flags
  <2> QED BY <2>1, <2>3, <2>4, <2>5 DEF StackCompletes, TypeOK
<1>3. CASE \E kind, flag : AdvSet(kind, flag)
  <2>1. PICK kind, flag : AdvSet(kind, flag)
    BY <1>3
  <2>2. jobs' \in [{"gap", "gatts"} -> Seq(Completion)] /\ count' \in Counts
    BY <2>1, AdvertisingType DEF AdvSet, TypeOK
  <2>3. events' \in Seq(Event)
    BY <2>1, EventsType DEF AdvSet, NextEvent, TypeOK
  <2> QED BY <2>1, <2>2, <2>3 DEF AdvSet, appUnchanged, TypeOK
<1>4. CASE AdvStarted \/ Connected
  <2>1. events' \in Seq(Event)
    BY <1>4, EventsType DEF AdvStarted, Connected, NextEvent, TypeOK
  <2> QED BY <1>4, <2>1 DEF AdvStarted, Connected, appUnchanged, stackUnchanged, TypeOK
<1>5. CASE Registered
  <2>1. events' \in Seq(Event)
    BY <1>5, EventsType DEF Registered, NextEvent, TypeOK
  <2>2. jobs' \in [{"gap", "gatts"} -> Seq(Completion)] /\ flags' \subseteq Flags
        /\ count' \in Counts
    <3>1. CASE Fails /\ UNCHANGED <<flags, jobs>>
      BY <3>1, FailsType DEF TypeOK
    <3>2. ASSUME NEW lost \in SUBSET {"adv_set", "scan_set", "create"},
                 count.fails + Cardinality(lost) <= MaxFails,
                 count' = [count EXCEPT !.fails = @ + Cardinality(lost)],
                 flags' = Flags,
                 LET accepted(call) == IF call \in lost THEN << >> ELSE <<call>>
                 IN  jobs' = [jobs EXCEPT !["gap"] = @ \o accepted("adv_set") \o accepted("scan_set"),
                                          !["gatts"] = @ \o accepted("create")]
          PROVE  jobs' \in [{"gap", "gatts"} -> Seq(Completion)] /\ flags' \subseteq Flags
                 /\ count' \in Counts
      <4>1. Cardinality(lost) \in Nat
        <5>1. IsFiniteSet({"adv_set", "scan_set", "create"})
          <6>1. IsFiniteSet({} \union {"adv_set"})
            BY FS_EmptySet, FS_AddElement
          <6>2. IsFiniteSet(({} \union {"adv_set"}) \union {"scan_set"})
            BY <6>1, FS_AddElement
          <6>3. IsFiniteSet((({} \union {"adv_set"}) \union {"scan_set"}) \union {"create"})
            BY <6>2, FS_AddElement
          <6>4. (({} \union {"adv_set"}) \union {"scan_set"}) \union {"create"}
                = {"adv_set", "scan_set", "create"}
            OBVIOUS
          <6> QED BY <6>3, <6>4
        <5> QED BY <5>1, FS_Subset, FS_CardinalityType
      <4>2. count' \in Counts
        <5>1. count \in Counts /\ MaxFails \in Nat
          BY DEF TypeOK, GattAssumption
        <5>2. count.fails + Cardinality(lost) \in 0 .. MaxFails
          BY <3>2, <4>1, <5>1
        <5> QED BY <3>2, <5>1, <5>2
      <4> DEFINE one(call) == IF call \in lost THEN << >> ELSE <<call>>
      <4>3. \A call \in {"adv_set", "scan_set", "create"} : one(call) \in Seq(Completion)
        <5>1. {"adv_set", "scan_set", "create"} \subseteq Completion
          BY DEF Completion
        <5>2. \A call \in Completion : one(call) \in Seq(Completion)
          OBVIOUS
        <5> HIDE DEF one
        <5> QED BY <5>1, <5>2
      <4>4. jobs' = [jobs EXCEPT !["gap"] = @ \o one("adv_set") \o one("scan_set"),
                                 !["gatts"] = @ \o one("create")]
        BY <3>2
      <4> HIDE DEF one
      <4>5. jobs["gap"] \in Seq(Completion) /\ jobs["gatts"] \in Seq(Completion)
        BY DEF TypeOK
      <4>6. jobs["gap"] \o one("adv_set") \in Seq(Completion)
        BY <4>3, <4>5, ConcatProperties
      <4>7. jobs["gap"] \o one("adv_set") \o one("scan_set") \in Seq(Completion)
        BY <4>3, <4>6, ConcatProperties
      <4>8. jobs["gatts"] \o one("create") \in Seq(Completion)
        BY <4>3, <4>5, ConcatProperties
      <4>9. jobs' \in [{"gap", "gatts"} -> Seq(Completion)]
        BY <4>4, <4>7, <4>8 DEF TypeOK
      <4> QED BY <3>2, <4>2, <4>9
    <3> QED BY <1>5, <3>1, <3>2 DEF Registered
  <2> QED BY <1>5, <2>1, <2>2 DEF Registered, appUnchanged, TypeOK
<1>6. CASE Created \/ CharAdded
  <2>1. events' \in Seq(Event)
    BY <1>6, EventsType DEF Created, CharAdded, NextEvent, TypeOK
  <2>2. \A job \in {"add_char", "add_descr"} : Append(jobs["gatts"], job) \in Seq(Completion)
    <3>1. {"add_char", "add_descr"} \subseteq Completion
      BY DEF Completion
    <3> QED BY SMTT(30), <3>1, AppendProperties DEF TypeOK
  <2>3. count' \in Counts
    BY <1>6, FailsType DEF Created, CharAdded, Works, TypeOK
  <2>4. jobs' \in [{"gap", "gatts"} -> Seq(Completion)]
    <3>1. jobs' = jobs \/ \E job \in {"add_char", "add_descr"} :
                            jobs' = [jobs EXCEPT !["gatts"] = Append(@, job)]
      BY <1>6 DEF Created, CharAdded
    <3>2. CASE jobs' = jobs
      BY <3>2 DEF TypeOK
    <3>3. ASSUME NEW job \in {"add_char", "add_descr"},
                 jobs' = [jobs EXCEPT !["gatts"] = Append(@, job)]
          PROVE  jobs' \in [{"gap", "gatts"} -> Seq(Completion)]
      <4>1. Append(jobs["gatts"], job) \in Seq(Completion)
        BY <2>2
      <4> QED BY <3>3, <4>1 DEF TypeOK
    <3> QED BY <3>1, <3>2, <3>3
  <2>5. handles' \in [char : {NoHandle, CharHandle}, descr : {NoHandle, DescrHandle},
                      started : BOOLEAN, property : SUBSET Properties]
    BY ZenonT(30), <1>6 DEF Created, CharAdded, TypeOK
  <2> QED BY <1>6, <2>1, <2>3, <2>4, <2>5 DEF Created, CharAdded, appUnchanged, TypeOK
<1>7. CASE DescrAdded
  <2>1. events' \in Seq(Event)
    BY <1>7, EventsType DEF DescrAdded, NextEvent, TypeOK
  <2> QED BY <1>7, <2>1 DEF DescrAdded, appUnchanged, TypeOK
<1>8. CASE Disconnected
  <2>1. events' \in Seq(Event)
    BY <1>8, EventsType DEF Disconnected, NextEvent, TypeOK
  <2>2. jobs' \in [{"gap", "gatts"} -> Seq(Completion)] /\ count' \in Counts
    BY <1>8, AdvertisingType DEF Disconnected
  <2> QED BY <1>8, <2>1, <2>2 DEF Disconnected, stackUnchanged, TypeOK
<1>9. CASE Read \/ Write
  <2>1. events' \in Seq(Event) /\ events # << >>
    BY <1>9, EventsType DEF Read, Write, NextEvent, TypeOK
  <2>2. WithAnswer(log) \in Logs /\ Told \in Logs /\ WithAnswer(Told) \in Logs
    <3>1. log \in Logs
      BY DEF TypeOK, Logs
    <3> QED BY <2>1, <3>1, AnswerType, ToldKeeps
  <2>3. log' \in Logs
    BY <1>9, <2>2 DEF Read, Write
  <2>4. phone' \in Phones /\ restarted' \in BOOLEAN
    BY ZenonT(30), <1>9 DEF Read, Write, Respond, appUnchanged, TypeOK
  <2> QED BY <1>9, <2>1, <2>3, <2>4 DEF Read, Write, appUnchanged, stackUnchanged, Logs, TypeOK
<1>10. CASE Prepare
  <2>1. events' \in Seq(Event) /\ events # << >>
    BY <1>10, EventsType DEF Prepare, NextEvent, TypeOK
  <2>2. log' \in Logs
    <3>1. log \in Logs
      BY DEF TypeOK, Logs
    <3> QED BY <1>10, <2>1, <3>1, AnswerType DEF Prepare
  <2>3. Handled.offset \in 0 .. MaxLong - 1
    <3>1. Head(events) \in Event /\ Head(events).req.kind = "prepare"
      BY <1>10, EventsType DEF Prepare, NextEvent, TypeOK
    <3> QED BY <3>1 DEF Handled, Event, Request, Completion
  <2>4. prep' \in [buf : SUBSET Chunk, len : Nat]
    <3>1. Handled.offset + 1 \in Chunk
      BY <2>3 DEF Chunk, GattAssumption
    <3>2. prep \in [buf : SUBSET Chunk, len : Nat]
      BY DEF TypeOK
    <3>3. \/ prep' = prep
          \/ prep' = [buf |-> prep.buf \union {Handled.offset + 1}, len |-> prep.len + 1]
      BY <1>10 DEF Prepare
    <3> QED BY <3>1, <3>2, <3>3
  <2>5. phone' \in Phones
    <3>1. phone \in Phones
      BY DEF TypeOK
    <3>2. Handled.offset \in 0 .. MaxLong
      BY <2>3 DEF GattAssumption
    <3>3. Respond \/ Refuse
      BY <1>10 DEF Prepare
    <3> QED BY <3>1, <3>2, <3>3 DEF Respond, Refuse
  <2>6. count' \in Counts
    BY <1>10, FailsType DEF Prepare, Works, TypeOK
  <2> QED BY <1>10, <2>1, <2>2, <2>4, <2>5, <2>6 DEF Prepare, appUnchanged, Logs, TypeOK
<1>11. CASE Execute
  <2>1. events' \in Seq(Event) /\ events # << >>
    BY <1>11, EventsType DEF Execute, NextEvent, TypeOK
  <2>2. phone' \in Phones
    BY <1>11 DEF Execute, Respond, TypeOK
  <2>3. [log EXCEPT !.abandoned = FALSE] \in Logs
    BY DEF TypeOK, Logs
  <2>4. log' \in Logs
    BY <1>11, <2>1, <2>3, AnswerType DEF Execute
  <2> QED BY <1>11, <2>1, <2>2, <2>4 DEF Execute, NoPrep, NULL, appUnchanged, Logs, TypeOK
<1>12. CASE PhoneConnects \/ PhoneLeaves
  <2>1. Ev("connect") \in Event /\ Ev("disconnect") \in Event
    BY EventTypes
  <2>2. events' \in Seq(Event)
    <3>1. events \in Seq(Event)
      BY DEF TypeOK
    <3>2. Append(events, Ev("connect")) \in Seq(Event) /\ Append(events, Ev("disconnect")) \in Seq(Event)
      BY <2>1, <3>1, AppendProperties
    <3> QED BY <1>12, <3>2 DEF PhoneConnects, PhoneLeaves
  <2>3. count' \in Counts
    <3>1. count \in Counts /\ MaxConns \in Nat
      BY DEF TypeOK, GattAssumption
    <3>2. count' = count \/ (count.conns < MaxConns /\ count' = [count EXCEPT !.conns = @ + 1])
      BY <1>12 DEF PhoneConnects, PhoneLeaves
    <3> QED BY <3>1, <3>2
  <2>4. phone' \in Phones
    <3>1. phone \in Phones /\ 0 \in 0 .. MaxLong
      BY DEF TypeOK, GattAssumption
    <3>2. \/ phone' = [linked |-> TRUE, waits |-> FALSE, long |-> 0]
          \/ phone' = [phone EXCEPT !.linked = FALSE, !.waits = FALSE, !.long = 0]
      BY <1>12 DEF PhoneConnects, PhoneLeaves
    <3>3. [linked |-> TRUE, waits |-> FALSE, long |-> 0] \in Phones
      BY <3>1
    <3>4. [phone EXCEPT !.linked = FALSE, !.waits = FALSE, !.long = 0] \in Phones
      BY <3>1
    <3> QED BY <3>2, <3>3, <3>4
  <2>5. air' \in [on : BOOLEAN, data : SUBSET Flags] /\ log' \in Logs
    BY ZenonT(30), <1>12 DEF PhoneConnects, PhoneLeaves, Logs, TypeOK
  <2> QED BY ZenonT(30), <1>12, <2>2, <2>3, <2>4, <2>5 DEF PhoneConnects, PhoneLeaves, Logs, TypeOK
<1>13. CASE \E r \in Request : PhoneAsks(r)
  <2>1. PICK r \in Request : PhoneAsks(r)
    BY <1>13
  <2>2. count.writes + 1 \in 1 .. MaxWrites /\ count' \in Counts
    <3>1. count \in Counts /\ MaxWrites \in Nat
      BY DEF TypeOK, GattAssumption
    <3>2. count.writes < MaxWrites /\ count' = [count EXCEPT !.writes = @ + 1]
      BY <2>1 DEF PhoneAsks
    <3> QED BY <3>1, <3>2
  <2>3. events' \in Seq(Event)
    BY <2>1, <2>2, EventTypes, EventsType DEF PhoneAsks, TypeOK
  <2>4. phone' \in Phones
    <3>1. phone \in Phones /\ MaxLong \in Nat /\ Asks(r) \in BOOLEAN
      BY DEF TypeOK, GattAssumption, Asks, Request
    <3>2. PICK n \in {0, phone.long, phone.long + 1} :
            /\ phone' = [phone EXCEPT !.waits = Asks(r), !.long = n]
            /\ n = phone.long + 1 => phone.long < MaxLong
      <4>1. r.kind = "prepare" => phone.long < MaxLong
        BY <2>1 DEF PhoneAsks
      <4> DEFINE n == CASE r.kind = "prepare" -> phone.long + 1
                        [] r.kind \in {"exec", "cancel"} -> 0
                        [] OTHER -> phone.long
      <4>2. phone' = [phone EXCEPT !.waits = Asks(r), !.long = n]
        BY <2>1 DEF PhoneAsks
      <4>3. n \in {0, phone.long, phone.long + 1} /\ (n = phone.long + 1 => phone.long < MaxLong)
        BY <3>1, <4>1
      <4> QED BY <4>2, <4>3
    <3>3. n \in 0 .. MaxLong
      BY <3>1, <3>2
    <3> QED BY <3>1, <3>2, <3>3
  <2> QED BY <2>1, <2>2, <2>3, <2>4 DEF PhoneAsks, TypeOK
<1>14. CASE UNCHANGED vars
  BY <1>14 DEF vars, TypeOK
<1> QED
  BY <1>1, <1>2, <1>3, <1>4, <1>5, <1>6, <1>7, <1>8, <1>9, <1>10, <1>11, <1>12, <1>13, <1>14
  DEF Next, App

----------------------------------------------------------------------------
(* Answers: the requests of the queue are in the order of their ids, after *)
(* those answered.                                                         *)

Later(s, given) ==
  /\ \A i \in 1 .. Len(s) : s[i].id # 0 => \A k \in 1 .. Len(given) : given[k] < s[i].id
  /\ \A i, j \in 1 .. Len(s) : i < j /\ s[j].id # 0 => s[i].id < s[j].id
Known(s, given, n) ==
  /\ \A i \in 1 .. Len(s) : s[i].id <= n
  /\ \A k \in 1 .. Len(given) : given[k] <= n
InOrder == Later(events, log.answered) /\ Known(events, log.answered, count.writes)

LEMMA TailInOrder ==
  ASSUME NEW s \in Seq(Event), s # << >>, NEW given \in Seq(Nat), NEW n \in Nat,
         Later(s, given), Known(s, given, n)
  PROVE  Later(Tail(s), given) /\ Known(Tail(s), given, n)
<1>1. /\ Len(Tail(s)) = Len(s) - 1
      /\ \A i \in 1 .. Len(Tail(s)) : i + 1 \in 1 .. Len(s) /\ Tail(s)[i] = s[i + 1]
  BY HeadTailProperties
<1>2. \A i, j \in 1 .. Len(Tail(s)) : i < j => i + 1 < j + 1
  BY <1>1
<1> QED BY <1>1, <1>2 DEF Later, Known

LEMMA AnswerInOrder ==
  ASSUME NEW s \in Seq(Event), s # << >>, NEW given \in Seq(Nat), NEW n \in Nat,
         Later(s, given), Known(s, given, n), Head(s).id # 0
  PROVE  /\ Later(Tail(s), Append(given, Head(s).id))
         /\ Known(Tail(s), Append(given, Head(s).id), n)
<1> DEFINE after == Append(given, Head(s).id)
<1>1. Later(Tail(s), given) /\ Known(Tail(s), given, n)
  BY TailInOrder
<1>2. Head(s) = s[1] /\ 1 \in 1 .. Len(s) /\ Len(Tail(s)) = Len(s) - 1
      /\ \A i \in 1 .. Len(Tail(s)) :
           i + 1 \in 1 .. Len(s) /\ 1 < i + 1 /\ Tail(s)[i] = s[i + 1]
  BY HeadTailProperties
<1>3. Head(s).id \in Nat
  BY <1>2 DEF Event
<1>4. /\ Len(after) = Len(given) + 1 /\ after[Len(given) + 1] = Head(s).id
      /\ \A k \in 1 .. Len(given) : after[k] = given[k]
  BY <1>3, AppendProperties
<1> HIDE DEF after
<1>5. \A k \in 1 .. Len(after) : k \in 1 .. Len(given) \/ k = Len(given) + 1
  BY <1>4
<1>6. \A i \in 1 .. Len(Tail(s)) : Tail(s)[i].id # 0 => Head(s).id < Tail(s)[i].id
  BY <1>2 DEF Later
<1>7. Later(Tail(s), after)
  BY <1>1, <1>4, <1>5, <1>6 DEF Later
<1>8. Known(Tail(s), after, n)
  BY <1>1, <1>2, <1>4, <1>5 DEF Known
<1> QED BY <1>7, <1>8 DEF after

LEMMA AppendInOrder ==
  ASSUME NEW s \in Seq(Event), NEW e \in Event, NEW given \in Seq(Nat), NEW n \in Nat, NEW m \in Nat,
         \/ e.id = 0 /\ m = n
         \/ e.id = n + 1 /\ m = n + 1,
         Later(s, given), Known(s, given, n)
  PROVE  Later(Append(s, e), given) /\ Known(Append(s, e), given, m)
<1> DEFINE t == Append(s, e)
<1>1. /\ Len(t) = Len(s) + 1 /\ t[Len(s) + 1] = e
      /\ \A i \in 1 .. Len(s) : t[i] = s[i]
  BY AppendProperties
<1> HIDE DEF t
<1>2. \A i \in 1 .. Len(t) : i \in 1 .. Len(s) \/ i = Len(s) + 1
  BY <1>1
<1>3. \A i \in 1 .. Len(s) : s[i].id \in Nat
  BY DEF Event
<1>4. \A k \in 1 .. Len(given) : given[k] \in Nat
  OBVIOUS
<1>5. \A i \in 1 .. Len(t) : t[i].id # 0 => \A k \in 1 .. Len(given) : given[k] < t[i].id
  <2>1. \A i \in 1 .. Len(s) : s[i].id # 0 => \A k \in 1 .. Len(given) : given[k] < s[i].id
    BY DEF Later
  <2>2. e.id # 0 => \A k \in 1 .. Len(given) : given[k] < e.id
    BY <1>4 DEF Known
  <2> QED BY <1>1, <1>2, <2>1, <2>2
<1>6. \A i \in 1 .. Len(s) : e.id # 0 => s[i].id < e.id
  BY <1>3 DEF Known
<1>7. \A i, j \in 1 .. Len(t) : i < j => i \in 1 .. Len(s)
  BY <1>1
<1>8. \A i, j \in 1 .. Len(t) : i < j /\ t[j].id # 0 => t[i].id < t[j].id
  BY <1>1, <1>2, <1>6, <1>7 DEF Later
<1>9. Known(t, given, m)
  <2>1. n <= m /\ e.id <= m
    OBVIOUS
  <2>2. \A i \in 1 .. Len(s) : s[i].id <= m
    BY <1>3, <2>1 DEF Known
  <2>3. \A i \in 1 .. Len(t) : t[i].id <= m
    BY <1>1, <1>2, <2>1, <2>2
  <2>4. \A k \in 1 .. Len(given) : given[k] <= m
    BY <1>4, <2>1 DEF Known
  <2> QED BY <2>3, <2>4 DEF Known
<1> QED BY <1>5, <1>8, <1>9 DEF Later, t

\* Where a step leaves the requests and the answers: nothing is asked and nothing is
\* answered, the phone asks, or the request at the head of the queue is answered
\* (the handlers of gatts_profile_a_event_handler).
Quietly ==
  /\ count'.writes = count.writes /\ log'.answered = log.answered
  /\ \/ events' = events
     \/ events # << >> /\ events' = Tail(events)
     \/ \E e \in Event : e.id = 0 /\ events' = Append(events, e)
Asked ==
  /\ count'.writes = count.writes + 1 /\ log'.answered = log.answered
  /\ \E e \in Event : e.id = count.writes + 1 /\ events' = Append(events, e)
AnsweredHead ==
  /\ count'.writes = count.writes
  /\ events # << >> /\ events' = Tail(events) /\ Head(events).id # 0
  /\ log'.answered = Append(log.answered, Head(events).id)

LEMMA RequestHasId ==
  ASSUME NEW kind \in {"read", "write", "prepare", "exec", "cancel"}, TypeOK, NextEvent(kind)
  PROVE  Head(events).id # 0
<1>1. Head(events) \in Event /\ Head(events).req.kind = kind
  BY EventsType DEF NextEvent, TypeOK
<1> QED BY <1>1 DEF Event, Completion

LEMMA AnswerOnce ==
  ASSUME NEW l \in Logs
  PROVE  /\ \/ WithAnswer(l).answered = l.answered
            \/ WithAnswer(l).answered = Append(l.answered, Head(events).id)
         /\ WithAnswer(l).abandoned = l.abandoned
BY DEF WithAnswer, Logs

LEMMA StepKinds ==
  ASSUME GattAssumption, TypeOK, [Next]_vars
  PROVE  Quietly \/ Asked \/ AnsweredHead
<1>1. CASE BluetoothInit
  BY <1>1 DEF BluetoothInit, Quietly, Works, Fails, TypeOK
<1>2. CASE \E half \in {"gap", "gatts"} : StackCompletes(half)
  <2>1. PICK half \in {"gap", "gatts"} : StackCompletes(half)
    BY <1>2
  <2>2. Ev(Head(jobs[half])) \in Event
    BY <2>1, HeadTailProperties, EventTypes DEF StackCompletes, TypeOK
  <2> QED BY <2>1, <2>2 DEF StackCompletes, Quietly, Ev
<1>3. CASE \E kind, flag : AdvSet(kind, flag)
  BY <1>3 DEF AdvSet, NextEvent, StartAdvertising, Works, Fails, Quietly, TypeOK
<1>4. CASE AdvStarted \/ Connected \/ DescrAdded
  BY <1>4 DEF AdvStarted, Connected, DescrAdded, NextEvent, Quietly
<1>5. CASE Registered \/ Created \/ CharAdded \/ Disconnected
  BY <1>5 DEF Registered, Created, CharAdded, Disconnected, StartAdvertising, NextEvent, Works,
              Fails, Quietly, TypeOK
<1>6. CASE Read
  <2>1. Head(events).id # 0
    BY <1>6, RequestHasId DEF Read
  <2>2. log \in Logs
    BY DEF TypeOK, Logs
  <2> QED BY <1>6, <2>1, <2>2, AnswerOnce DEF Read, NextEvent, Quietly, AnsweredHead
<1>7. CASE Write
  <2>1. Head(events).id # 0
    BY <1>7, RequestHasId DEF Write
  <2>2. Told \in Logs /\ Told.answered = log.answered
    BY <1>7, ToldKeeps DEF Write, NextEvent
  <2>3. log' = Told \/ log' = WithAnswer(Told)
    BY <1>7 DEF Write
  <2>4. \/ log'.answered = log.answered
        \/ log'.answered = Append(log.answered, Head(events).id)
    BY <2>2, <2>3, AnswerOnce
  <2> QED BY <1>7, <2>1, <2>4 DEF Write, NextEvent, Quietly, AnsweredHead
<1>8. CASE Prepare
  <2>1. Head(events).id # 0
    BY <1>8, RequestHasId DEF Prepare
  <2>2. log \in Logs
    BY DEF TypeOK, Logs
  <2>3. count'.writes = count.writes
    BY <1>8 DEF Prepare, Works, Fails, TypeOK
  <2> QED BY <1>8, <2>1, <2>2, <2>3, AnswerOnce DEF Prepare, NextEvent, Quietly, AnsweredHead
<1>9. CASE Execute
  <2>1. Head(events).id # 0
    BY <1>9, RequestHasId DEF Execute
  <2>2. [log EXCEPT !.abandoned = FALSE] \in Logs
        /\ [log EXCEPT !.abandoned = FALSE].answered = log.answered
    BY DEF TypeOK, Logs
  <2>3. \/ log'.answered = log.answered
        \/ log'.answered = Append(log.answered, Head(events).id)
    BY <1>9, <2>2, AnswerOnce DEF Execute
  <2> QED BY <1>9, <2>1, <2>3 DEF Execute, NextEvent, Quietly, AnsweredHead
<1>10. CASE PhoneConnects \/ PhoneLeaves
  <2>1. Ev("connect") \in Event /\ Ev("disconnect") \in Event
    BY EventTypes
  <2> QED BY <1>10, <2>1 DEF PhoneConnects, PhoneLeaves, Quietly, Ev, TypeOK
<1>11. CASE \E r \in Request : PhoneAsks(r)
  <2>1. PICK r \in Request : PhoneAsks(r)
    BY <1>11
  <2>2. [id |-> count.writes + 1, req |-> r] \in Event
    BY <2>1, AskedId
  <2>3. count'.writes = count.writes + 1 /\ log' = log
    BY <2>1 DEF PhoneAsks, TypeOK
  <2> QED BY <2>1, <2>2, <2>3 DEF PhoneAsks, Asked
<1>12. CASE UNCHANGED vars
  BY <1>12 DEF vars, Quietly
<1> QED
  BY <1>1, <1>2, <1>3, <1>4, <1>5, <1>6, <1>7, <1>8, <1>9, <1>10, <1>11, <1>12 DEF Next, App

LEMMA InOrderStep ==
  ASSUME GattAssumption, TypeOK, TypeOK', InOrder, [Next]_vars
  PROVE  InOrder'
<1>1. /\ events \in Seq(Event) /\ events' \in Seq(Event)
      /\ log.answered \in Seq(Nat) /\ log'.answered \in Seq(Nat)
      /\ count.writes \in Nat /\ count'.writes \in Nat
  BY DEF TypeOK
<1>2. Later(events, log.answered) /\ Known(events, log.answered, count.writes)
  BY DEF InOrder
<1>3. CASE Quietly
  <2>1. CASE events' = events
    BY <1>2, <1>3, <2>1 DEF Quietly, InOrder
  <2>2. CASE events # << >> /\ events' = Tail(events)
    BY <1>1, <1>2, <1>3, <2>2, TailInOrder DEF Quietly, InOrder
  <2>3. CASE \E e \in Event : e.id = 0 /\ events' = Append(events, e)
    BY <1>1, <1>2, <1>3, <2>3, AppendInOrder DEF Quietly, InOrder
  <2> QED BY <1>3, <2>1, <2>2, <2>3 DEF Quietly
<1>4. CASE Asked
  BY <1>1, <1>2, <1>4, AppendInOrder DEF Asked, InOrder
<1>5. CASE AnsweredHead
  BY <1>1, <1>2, <1>5, AnswerInOrder DEF AnsweredHead, InOrder
<1> QED BY <1>3, <1>4, <1>5, StepKinds

----------------------------------------------------------------------------
(* The refinement.                                                         *)

sentBar == [c \in {"phones"} |-> count.writes]
answeredBar == [c \in {"phones"} |-> log.answered]

LEMMA LastOf ==
  ASSUME NEW s \in Seq(Nat), s # << >>
  PROVE  Len(s) \in 1 .. Len(s) /\ s[Len(s)] \in Nat
BY EmptySeq, LenProperties

LEMMA ChannelInit == Init => Channel!Init
BY DEF Init, Channel!Init

LEMMA ChannelStep ==
  ASSUME GattAssumption, TypeOK, TypeOK', InOrder, [Next]_vars
  PROVE  [Channel!Next]_<<sentBar, answeredBar>>
<1> USE DEF sentBar, answeredBar
<1>1. CASE Quietly
  BY <1>1 DEF Quietly
<1>2. CASE Asked
  <2>1. Channel!Send("phones")
    BY <1>2 DEF Asked, Channel!Send
  <2> QED BY <2>1 DEF Channel!Next
<1>3. CASE AnsweredHead
  <2> DEFINE m == Head(events).id
  <2>1. Head(events) \in Event /\ Head(events) = events[1] /\ 1 \in 1 .. Len(events)
    BY <1>3, HeadTailProperties DEF AnsweredHead, TypeOK
  <2>2. m \in Nat /\ m # 0 /\ m <= count.writes
        /\ \A k \in 1 .. Len(log.answered) : log.answered[k] < m
    BY <1>3, <2>1 DEF AnsweredHead, InOrder, Later, Known, Event
  <2>3. Channel!Newest(log.answered) + 1 <= m /\ Channel!Newest(log.answered) \in Nat
    <3>1. CASE log.answered = << >>
      BY <2>2, <3>1 DEF Channel!Newest
    <3>2. CASE log.answered # << >>
      <4>1. Len(log.answered) \in 1 .. Len(log.answered) /\ log.answered[Len(log.answered)] \in Nat
        BY <3>2, LastOf DEF TypeOK
      <4> QED BY <2>2, <3>2, <4>1 DEF Channel!Newest
    <3> QED BY <3>1, <3>2
  <2>4. m \in Channel!Newest(log.answered) + 1 .. count.writes
    <3>1. count.writes \in Nat
      BY DEF TypeOK
    <3> QED BY <2>2, <2>3, <3>1
  <2> HIDE DEF m
  <2>5. answeredBar' = [answeredBar EXCEPT !["phones"] = Append(@, m)] /\ UNCHANGED sentBar
    BY <1>3 DEF AnsweredHead, m
  <2>6. Channel!Answer("phones")
    BY <2>4, <2>5 DEF Channel!Answer
  <2> QED BY <2>6 DEF Channel!Next
<1> QED BY <1>1, <1>2, <1>3, StepKinds

----------------------------------------------------------------------------
(* One phone at a time: the device advertises only when everything the     *)
(* last phone asked has been handled, so that the requests queued are of   *)
(* one connection, and only one of them has an answer to come.             *)

Has(s, x) == \E i \in 1 .. Len(s) : s[i] = x
Once(s, x) == \A i, j \in 1 .. Len(s) : s[i] = x /\ s[j] = x => i = j

\* A request the phone waits for, queued.
Asking(e) == e.id # 0 /\ Asks(e.req)
NoAsk(s) == \A i \in 1 .. Len(s) : ~Asking(s[i])
OneAsk(s) == \A i, j \in 1 .. Len(s) : Asking(s[i]) /\ Asking(s[j]) => i = j
AskBefore(s) == \A i, j \in 1 .. Len(s) : Asking(s[i]) /\ s[j] = Ev("disconnect") => i < j

\* Until the application is registered nothing is under way but its registration.
Registering ==
  /\ jobs["gap"] = << >> /\ ~air.on /\ ~phone.linked
  /\ \/ init \in 1 .. 8 /\ jobs["gatts"] = << >> /\ events = << >>
     \/ init \in {0, 9} /\ jobs["gatts"] = <<"reg">> /\ events = << >>
     \/ init \in {0, 9} /\ jobs["gatts"] = << >> /\ events = <<Ev("reg")>>
Past == init \in {0, 9} /\ ~Has(jobs["gatts"], "reg") /\ ~Has(events, Ev("reg"))

Pending(job) == Has(jobs["gap"], job) \/ Has(events, Ev(job))
Single(job) ==
  /\ Once(jobs["gap"], job) /\ Once(events, Ev(job))
  /\ ~(Has(jobs["gap"], job) /\ Has(events, Ev(job)))
Configuring ==
  /\ Registering \/ Past
  /\ Single("adv_set") /\ Single("scan_set")
  /\ Pending("adv_set") => "adv_config_flag" \in flags
  /\ Pending("scan_set") => "scan_rsp_config_flag" \in flags

Starting == Has(jobs["gap"], "adv_start")
Leaving == Has(events, Ev("disconnect"))
Quiet == ~phone.linked /\ ~Leaving /\ NoAsk(events)
Turns ==
  /\ Pending("adv_set") \/ Pending("scan_set") => Quiet /\ ~air.on /\ ~Starting
  /\ Starting => Quiet /\ ~air.on
  /\ air.on => Quiet
  /\ Leaving => ~phone.linked
  /\ Once(jobs["gap"], "adv_start") /\ Once(events, Ev("disconnect"))

OneRequest ==
  /\ OneAsk(events) /\ AskBefore(events)
  /\ phone.linked /\ ~NoAsk(events) => phone.waits

LEMMA TailHas ==
  ASSUME NEW S, NEW s \in Seq(S), s # << >>, NEW x
  PROVE  /\ Has(Tail(s), x) => Has(s, x)
         /\ Once(s, x) => Once(Tail(s), x) /\ (Head(s) = x => ~Has(Tail(s), x))
         /\ Has(s, Head(s))
<1>1. /\ Len(Tail(s)) = Len(s) - 1 /\ Head(s) = s[1] /\ 1 \in 1 .. Len(s)
      /\ \A i \in 1 .. Len(Tail(s)) : i + 1 \in 1 .. Len(s) /\ i + 1 # 1 /\ Tail(s)[i] = s[i + 1]
  BY HeadTailProperties
<1>2. \A i, j \in 1 .. Len(Tail(s)) : i + 1 = j + 1 => i = j
  BY <1>1
<1> QED BY <1>1, <1>2 DEF Has, Once

LEMMA AppendHas ==
  ASSUME NEW S, NEW s \in Seq(S), NEW e \in S, NEW x
  PROVE  /\ Has(Append(s, e), x) <=> Has(s, x) \/ e = x
         /\ Once(s, x) /\ (e = x => ~Has(s, x)) => Once(Append(s, e), x)
<1> DEFINE t == Append(s, e)
<1>1. /\ Len(t) = Len(s) + 1 /\ t[Len(s) + 1] = e
      /\ \A i \in 1 .. Len(s) : t[i] = s[i]
  BY AppendProperties
<1> HIDE DEF t
<1>2. \A i \in 1 .. Len(t) : i \in 1 .. Len(s) \/ i = Len(s) + 1
  BY <1>1
<1>3. \A i \in 1 .. Len(s) : i \in 1 .. Len(t)
  BY <1>1
<1>4. Len(s) + 1 \in 1 .. Len(t)
  BY <1>1
<1>5. Has(t, x) <=> Has(s, x) \/ e = x
  BY <1>1, <1>2, <1>3, <1>4 DEF Has
<1>6. Once(s, x) /\ (e = x => ~Has(s, x)) => Once(t, x)
  BY <1>1, <1>2 DEF Has, Once
<1> QED BY <1>5, <1>6 DEF t

LEMMA NoneHas ==
  ASSUME NEW x
  PROVE  ~Has(<< >>, x) /\ Once(<< >>, x) /\ NoAsk(<< >>)
<1>1. 1 .. Len(<< >>) = {}
  BY EmptySeq
<1> QED BY <1>1 DEF Has, Once, NoAsk

LEMMA TailAsk ==
  ASSUME NEW s \in Seq(Event), s # << >>
  PROVE  /\ OneAsk(s) => OneAsk(Tail(s)) /\ (Asking(Head(s)) => NoAsk(Tail(s)))
         /\ NoAsk(s) => NoAsk(Tail(s))
         /\ ~Asking(Head(s)) /\ NoAsk(Tail(s)) => NoAsk(s)
         /\ AskBefore(s) => AskBefore(Tail(s)) /\ (Head(s) = Ev("disconnect") => NoAsk(Tail(s)))
<1>1. /\ Len(Tail(s)) = Len(s) - 1 /\ Head(s) = s[1] /\ 1 \in 1 .. Len(s)
      /\ \A i \in 1 .. Len(Tail(s)) : i + 1 \in 1 .. Len(s) /\ ~(i + 1 <= 1) /\ Tail(s)[i] = s[i + 1]
  BY HeadTailProperties
<1>2. \A i, j \in 1 .. Len(Tail(s)) : (i + 1 = j + 1 => i = j) /\ (i + 1 < j + 1 => i < j)
  BY <1>1
<1>3. \A i \in 1 .. Len(s) : i = 1 \/ (i - 1 \in 1 .. Len(Tail(s)) /\ s[i] = Tail(s)[i - 1])
  <2> SUFFICES ASSUME NEW i \in 1 .. Len(s), i # 1
               PROVE  i - 1 \in 1 .. Len(Tail(s)) /\ s[i] = Tail(s)[i - 1]
    OBVIOUS
  <2>1. i - 1 \in 1 .. Len(Tail(s)) /\ (i - 1) + 1 = i
    BY <1>1
  <2> QED BY <1>1, <2>1
<1>4. OneAsk(s) => OneAsk(Tail(s)) /\ (Asking(Head(s)) => NoAsk(Tail(s)))
  BY <1>1, <1>2 DEF OneAsk, NoAsk
<1>5. NoAsk(s) => NoAsk(Tail(s))
  BY <1>1 DEF NoAsk
<1>6. ~Asking(Head(s)) /\ NoAsk(Tail(s)) => NoAsk(s)
  BY <1>1, <1>3 DEF NoAsk
<1>7. AskBefore(s) => AskBefore(Tail(s))
  BY <1>1, <1>2 DEF AskBefore
<1>8. AskBefore(s) /\ Head(s) = Ev("disconnect") => NoAsk(Tail(s))
  <2> SUFFICES ASSUME AskBefore(s), s[1] = Ev("disconnect"), NEW i \in 1 .. Len(Tail(s)),
                      Asking(Tail(s)[i])
               PROVE  FALSE
    BY <1>1 DEF NoAsk
  <2>1. i + 1 \in 1 .. Len(s) /\ Asking(s[i + 1]) /\ ~(i + 1 < 1)
    BY <1>1
  <2> QED BY <1>1, <2>1 DEF AskBefore
<1> QED BY <1>4, <1>5, <1>6, <1>7, <1>8

LEMMA AppendAsk ==
  ASSUME NEW s \in Seq(Event), NEW e \in Event
  PROVE  /\ NoAsk(Append(s, e)) <=> NoAsk(s) /\ ~Asking(e)
         /\ OneAsk(s) /\ (Asking(e) => NoAsk(s)) => OneAsk(Append(s, e))
         /\ AskBefore(s) /\ (Asking(e) => ~Has(s, Ev("disconnect"))) => AskBefore(Append(s, e))
<1> DEFINE t == Append(s, e)
<1>1. /\ Len(t) = Len(s) + 1 /\ t[Len(s) + 1] = e
      /\ \A i \in 1 .. Len(s) : t[i] = s[i]
  BY AppendProperties
<1> HIDE DEF t
<1>2. \A i \in 1 .. Len(t) : i \in 1 .. Len(s) \/ i = Len(s) + 1
  BY <1>1
<1>3. \A i \in 1 .. Len(s) : i \in 1 .. Len(t) /\ i < Len(s) + 1
  BY <1>1
<1>4. Len(s) + 1 \in 1 .. Len(t)
  BY <1>1
<1>5. NoAsk(t) <=> NoAsk(s) /\ ~Asking(e)
  BY <1>1, <1>2, <1>3, <1>4 DEF NoAsk
<1>6. OneAsk(s) /\ (Asking(e) => NoAsk(s)) => OneAsk(t)
  BY <1>1, <1>2 DEF OneAsk, NoAsk
<1>7. ~Asking(Ev("disconnect"))
  BY DEF Asking, Ev
<1>8. AskBefore(s) /\ (Asking(e) => ~Has(s, Ev("disconnect"))) => AskBefore(t)
  <2> SUFFICES ASSUME AskBefore(s), Asking(e) => ~Has(s, Ev("disconnect")),
                      NEW i \in 1 .. Len(t), NEW j \in 1 .. Len(t),
                      Asking(t[i]), t[j] = Ev("disconnect")
               PROVE  i < j
    BY DEF AskBefore
  <2>1. CASE i \in 1 .. Len(s) /\ j \in 1 .. Len(s)
    BY <1>1, <2>1 DEF AskBefore
  <2>2. CASE i \in 1 .. Len(s) /\ j = Len(s) + 1
    BY <1>3, <2>2
  <2>3. CASE i = Len(s) + 1 /\ j \in 1 .. Len(s)
    BY <1>1, <2>3 DEF Has
  <2>4. CASE i = Len(s) + 1 /\ j = Len(s) + 1
    BY <1>1, <1>7, <2>4
  <2> QED BY <1>2, <2>1, <2>2, <2>3, <2>4
<1> QED BY <1>5, <1>6, <1>8 DEF t

LEMMA HeadIs ==
  ASSUME TypeOK, NEW kind, NextEvent(kind)
  PROVE  /\ events \in Seq(Event) /\ events # << >> /\ events' = Tail(events)
         /\ Head(events) \in Event /\ Head(events).req.kind = kind
         /\ kind \in Completion \union {"connect", "disconnect"} =>
              Head(events) = Ev(kind) /\ ~Asking(Head(events))
         /\ kind \in {"read", "prepare", "exec", "cancel"} => Asking(Head(events))
         /\ kind = "write" => (Asking(Head(events)) <=> Handled.rsp)
<1>1. events \in Seq(Event) /\ events # << >> /\ events' = Tail(events)
      /\ Head(events).req.kind = kind
  BY DEF NextEvent, TypeOK
<1>2. Head(events) \in Event
  BY <1>1, EventsType DEF TypeOK
<1>3. kind \in Completion \union {"connect", "disconnect"} =>
        Head(events) = Ev(kind) /\ ~Asking(Head(events))
  BY <1>1, <1>2 DEF Event, Request, Completion, Ev, Asking
<1>4. kind \in {"read", "write", "prepare", "exec", "cancel"} =>
        Head(events).id # 0 /\ Head(events).req \in Request
  BY <1>1, <1>2 DEF Event, Request, Completion
<1>5. kind \in {"read", "prepare", "exec", "cancel"} => Asking(Head(events))
  BY <1>1, <1>4 DEF Asking, Asks
<1>6. kind = "write" => (Asking(Head(events)) <=> Handled.rsp)
  BY <1>1, <1>4 DEF Asking, Asks, Handled
<1> QED BY <1>1, <1>2, <1>3, <1>5, <1>6

\* Which half of the stack completes what.
GapCall == {"adv_set", "scan_set", "adv_start"}
GattsCall == {"reg", "create", "add_char", "add_descr"}
Halves == jobs["gap"] \in Seq(GapCall) /\ jobs["gatts"] \in Seq(GattsCall)

LEMMA HalvesStep ==
  ASSUME TypeOK, Halves, [Next]_vars
  PROVE  Halves'
<1>1. CASE BluetoothInit
  <2>1. <<"reg">> \in Seq(GattsCall)
    BY DEF GattsCall
  <2>2. jobs' = jobs \/ jobs' = [jobs EXCEPT !["gatts"] = <<"reg">>]
    BY <1>1 DEF BluetoothInit
  <2> QED BY <2>1, <2>2 DEF Halves, TypeOK
<1>2. CASE \E half \in {"gap", "gatts"} : StackCompletes(half)
  <2>1. PICK half \in {"gap", "gatts"} : StackCompletes(half)
    BY <1>2
  <2>2. jobs[half] # << >> /\ jobs' = [jobs EXCEPT ![half] = Tail(@)]
    BY <2>1 DEF StackCompletes
  <2>3. jobs["gap"] # << >> => Tail(jobs["gap"]) \in Seq(GapCall)
    BY HeadTailProperties DEF Halves
  <2>4. jobs["gatts"] # << >> => Tail(jobs["gatts"]) \in Seq(GattsCall)
    BY HeadTailProperties DEF Halves
  <2> QED BY <2>2, <2>3, <2>4 DEF Halves, TypeOK
<1>3. CASE StartAdvertising
  <2>1. Append(jobs["gap"], "adv_start") \in Seq(GapCall)
    <3>1. "adv_start" \in GapCall
      BY DEF GapCall
    <3> QED BY <3>1, AppendProperties DEF Halves
  <2> QED BY <1>3, <2>1 DEF StartAdvertising, Halves, TypeOK
<1>4. CASE Registered
  <2>1. CASE UNCHANGED jobs
    BY <2>1 DEF Halves
  <2>2. ASSUME NEW lost,
               LET accepted(call) == IF call \in lost THEN << >> ELSE <<call>>
               IN  jobs' = [jobs EXCEPT !["gap"] = @ \o accepted("adv_set") \o accepted("scan_set"),
                                        !["gatts"] = @ \o accepted("create")]
        PROVE  Halves'
    <3> DEFINE one(call) == IF call \in lost THEN << >> ELSE <<call>>
    <3>1. \A call \in GapCall : one(call) \in Seq(GapCall)
      OBVIOUS
    <3>2. \A call \in GattsCall : one(call) \in Seq(GattsCall)
      OBVIOUS
    <3>3. jobs' = [jobs EXCEPT !["gap"] = @ \o one("adv_set") \o one("scan_set"),
                               !["gatts"] = @ \o one("create")]
      BY <2>2
    <3> HIDE DEF one
    <3>4. one("adv_set") \in Seq(GapCall) /\ one("scan_set") \in Seq(GapCall)
          /\ one("create") \in Seq(GattsCall)
      BY <3>1, <3>2 DEF GapCall, GattsCall
    <3>5. jobs["gap"] \o one("adv_set") \in Seq(GapCall)
      BY <3>4, ConcatProperties DEF Halves
    <3>6. jobs["gap"] \o one("adv_set") \o one("scan_set") \in Seq(GapCall)
      BY <3>4, <3>5, ConcatProperties
    <3>7. jobs["gatts"] \o one("create") \in Seq(GattsCall)
      BY <3>4, ConcatProperties DEF Halves
    <3> QED BY <3>3, <3>6, <3>7 DEF Halves, TypeOK
  <2> QED BY <1>4, <2>1, <2>2 DEF Registered
<1>5. CASE Created \/ CharAdded
  <2>1. \A job \in {"add_char", "add_descr"} : Append(jobs["gatts"], job) \in Seq(GattsCall)
    <3>1. {"add_char", "add_descr"} \subseteq GattsCall
      BY DEF GattsCall
    <3> QED BY <3>1, AppendProperties DEF Halves
  <2>2. \/ jobs' = jobs
        \/ jobs' = [jobs EXCEPT !["gatts"] = Append(@, "add_char")]
        \/ jobs' = [jobs EXCEPT !["gatts"] = Append(@, "add_descr")]
    BY <1>5 DEF Created, CharAdded
  <2> QED BY <2>1, <2>2 DEF Halves, TypeOK
<1>6. CASE UNCHANGED jobs
  BY <1>6 DEF Halves
<1>7. ASSUME NEW kind, NEW flag, AdvSet(kind, flag) PROVE Halves'
  BY <1>3, <1>6, <1>7 DEF AdvSet
<1>8. CASE Disconnected
  BY <1>3, <1>8 DEF Disconnected
<1>9. CASE AdvStarted \/ DescrAdded \/ Connected \/ Read \/ Write \/ Prepare \/ Execute
  BY <1>6, <1>9 DEF AdvStarted, DescrAdded, Connected, Read, Write, Prepare, Execute
<1>10. CASE PhoneConnects \/ PhoneLeaves \/ (\E r \in Request : PhoneAsks(r)) \/ UNCHANGED vars
  BY <1>6, <1>10 DEF PhoneConnects, PhoneLeaves, PhoneAsks, vars
<1> QED
  BY <1>1, <1>2, <1>4, <1>5, <1>7, <1>8, <1>9, <1>10 DEF Next, App

\* The actions that handle an event and touch neither the calls nor the flags.
Handles ==
  AdvStarted \/ DescrAdded \/ Connected \/ Read \/ Write \/ Prepare \/ Execute

LEMMA HandlesEvent ==
  ASSUME TypeOK, Handles
  PROVE  /\ UNCHANGED <<init, jobs, flags, air>>
         /\ phone'.linked = phone.linked
         /\ events # << >> /\ events' = Tail(events)
         /\ Head(events).req.kind \notin {"reg", "adv_set", "scan_set", "disconnect"}
<1>1. UNCHANGED <<init, jobs, flags, air>> /\ phone'.linked = phone.linked
  BY DEF Handles, AdvStarted, DescrAdded, Connected, Read, Write, Prepare, Execute, Respond,
         Refuse, appUnchanged, stackUnchanged, TypeOK
<1>2. PICK kind \in {"adv_start", "add_descr", "connect", "read", "write", "prepare", "exec", "cancel"} :
        NextEvent(kind)
  BY DEF Handles, AdvStarted, DescrAdded, Connected, Read, Write, Prepare, Execute
<1> QED BY <1>1, <1>2, HeadIs

\* What Ev makes of different completions is different.
LEMMA EvInjective == \A k, l : Ev(k) = Ev(l) => k = l
BY DEF Ev

LEMMA RegistersAt == \A i \in 1 .. 9 : Registers(i) <=> i = 8
BY DEF Registers, InitSteps

\* Once the registration has been completed, or given up, it is past for good.
LEMMA TailPast ==
  ASSUME TypeOK, Registering \/ Past, events # << >>, Head(events) # Ev("reg")
  PROVE  Past /\ ~Has(Tail(events), Ev("reg"))
<1>1. events = <<Ev("reg")>> => Head(events) = Ev("reg")
  OBVIOUS
<1>2. Past
  BY <1>1 DEF Registering
<1>3. events \in Seq(Event)
  BY DEF TypeOK
<1>4. ~Has(Tail(events), Ev("reg"))
  BY <1>2, <1>3, TailHas DEF Past
<1> QED BY <1>2, <1>4

LEMMA TailSingle ==
  ASSUME TypeOK, events # << >>, NEW job, Single(job)
  PROVE  /\ Once(Tail(events), Ev(job)) /\ (Has(Tail(events), Ev(job)) => Has(events, Ev(job)))
         /\ Head(events) = Ev(job) => ~Has(Tail(events), Ev(job)) /\ ~Has(jobs["gap"], job)
<1>1. events \in Seq(Event)
  BY DEF TypeOK
<1> QED BY <1>1, TailHas DEF Single

LEMMA AppendSingle ==
  ASSUME TypeOK, NEW e \in Event, NEW job, e # Ev(job)
  PROVE  /\ Has(Append(events, e), Ev(job)) <=> Has(events, Ev(job))
         /\ Once(events, Ev(job)) => Once(Append(events, e), Ev(job))
<1>1. events \in Seq(Event)
  BY DEF TypeOK
<1> QED BY <1>1, AppendHas

\* Whatever is appended to the calls of gap: advertising.
LEMMA StartCalls ==
  ASSUME TypeOK, StartAdvertising
  PROVE  /\ jobs'["gatts"] = jobs["gatts"]
         /\ jobs'["gap"] = jobs["gap"] \/ jobs'["gap"] = Append(jobs["gap"], "adv_start")
         /\ \A job \in {"adv_set", "scan_set"} :
              /\ Has(jobs'["gap"], job) <=> Has(jobs["gap"], job)
              /\ Once(jobs["gap"], job) => Once(jobs'["gap"], job)
         /\ ~Starting => Once(jobs'["gap"], "adv_start")
<1>1. jobs["gap"] \in Seq(Completion) /\ "adv_start" \in Completion
  BY DEF TypeOK, Completion
<1>2. CASE UNCHANGED jobs
  BY <1>2 DEF Starting, Once, Has
<1>3. CASE jobs' = [jobs EXCEPT !["gap"] = Append(@, "adv_start")]
  <2>1. jobs'["gap"] = Append(jobs["gap"], "adv_start") /\ jobs'["gatts"] = jobs["gatts"]
    BY <1>3 DEF TypeOK
  <2>2. ~Starting => Once(jobs["gap"], "adv_start")
    BY DEF Starting, Once, Has
  <2> QED BY <1>1, <2>1, <2>2, AppendHas DEF Starting
<1> QED BY <1>2, <1>3 DEF StartAdvertising

LEMMA StackCalls ==
  ASSUME TypeOK, NEW half \in {"gap", "gatts"}, StackCompletes(half)
  PROVE  /\ jobs[half] \in Seq(Completion) /\ jobs[half] # << >>
         /\ Head(jobs[half]) \in Completion /\ Ev(Head(jobs[half])) \in Event
         /\ jobs'[half] = Tail(jobs[half])
         /\ \A other \in {"gap", "gatts"} \ {half} : jobs'[other] = jobs[other]
         /\ events' = Append(events, Ev(Head(jobs[half])))
         /\ UNCHANGED <<init, flags, phone>>
         /\ \A x : Has(jobs'[half], x) => Has(jobs[half], x)
         /\ \A x : Once(jobs[half], x) => Once(jobs'[half], x) /\ (Head(jobs[half]) = x => ~Has(jobs'[half], x))
         /\ Has(jobs[half], Head(jobs[half]))
<1>1. jobs[half] \in Seq(Completion) /\ jobs[half] # << >>
  BY DEF StackCompletes, TypeOK
<1>2. Head(jobs[half]) \in Completion
  BY <1>1, HeadTailProperties
<1>3. Ev(Head(jobs[half])) \in Event
  BY <1>2, EventTypes
<1>4. /\ jobs'[half] = Tail(jobs[half])
      /\ \A other \in {"gap", "gatts"} \ {half} : jobs'[other] = jobs[other]
      /\ events' = Append(events, Ev(Head(jobs[half])))
      /\ UNCHANGED <<init, flags, phone>>
  BY DEF StackCompletes, TypeOK
<1> QED BY <1>1, <1>2, <1>3, <1>4, TailHas

\* ESP_GATTS_REG_EVT finds nothing else under way, and leaves the calls it made.
LEMMA RegisteredCalls ==
  ASSUME TypeOK, Configuring, Registered
  PROVE  /\ events' = << >> /\ UNCHANGED <<init, air, phone>> /\ ~air.on /\ ~phone.linked
         /\ init \in {0, 9}
         /\ \A job \in {"adv_set", "scan_set", "adv_start"} :
              Once(jobs'["gap"], job) /\ (job = "adv_start" => ~Has(jobs'["gap"], job))
         /\ ~Has(jobs'["gatts"], "reg")
         /\ flags' = Flags \/ \A job \in {"adv_set", "scan_set"} : ~Has(jobs'["gap"], job)
<1>1. events # << >> /\ Head(events) = Ev("reg") /\ events' = Tail(events) /\ events \in Seq(Event)
  BY HeadIs DEF Registered, Completion
<1>2. Has(events, Ev("reg"))
  BY <1>1, TailHas
<1>3. Registering /\ init \in {0, 9} /\ jobs["gatts"] = << >> /\ jobs["gap"] = << >>
      /\ events = <<Ev("reg")>>
  BY <1>1, <1>2 DEF Configuring, Past, Registering
<1>4. events' = << >>
  BY <1>1, <1>3
<1>6. ASSUME NEW lost, flags' = Flags,
             LET accepted(call) == IF call \in lost THEN << >> ELSE <<call>>
             IN  jobs' = [jobs EXCEPT !["gap"] = @ \o accepted("adv_set") \o accepted("scan_set"),
                                      !["gatts"] = @ \o accepted("create")]
      PROVE  /\ \A job \in {"adv_set", "scan_set", "adv_start"} :
                  Once(jobs'["gap"], job) /\ (job = "adv_start" => ~Has(jobs'["gap"], job))
             /\ ~Has(jobs'["gatts"], "reg")
  <2> DEFINE one(call) == IF call \in lost THEN << >> ELSE <<call>>
  <2>1. jobs'["gap"] = << >> \o one("adv_set") \o one("scan_set") /\ jobs'["gatts"] = << >> \o one("create")
    BY <1>3, <1>6 DEF TypeOK
  <2>2. \A call \in Completion : one(call) \in Seq(Completion)
    OBVIOUS
  <2>3. << >> \o one("adv_set") = one("adv_set") /\ << >> \o one("create") = one("create")
    <3>1. {"adv_set", "create"} \subseteq Completion
      BY DEF Completion
    <3> QED BY <2>2, <3>1, ConcatEmptySeq
  <2>4. jobs'["gatts"] \in {<< >>, <<"create">>}
    BY <2>1, <2>3
  <2>5. jobs'["gap"] \in {<< >>, <<"adv_set">>, <<"scan_set">>, Append(<<"adv_set">>, "scan_set")}
    <3>1. <<"adv_set">> \o <<"scan_set">> = Append(<<"adv_set">>, "scan_set")
      <4>1. <<"adv_set">> \in Seq(Completion) /\ "scan_set" \in Completion
        BY DEF Completion
      <4> QED BY <4>1, AppendIsConcat
    <3>2. << >> \in Seq(Completion) /\ <<"adv_set">> \in Seq(Completion) /\ <<"scan_set">> \in Seq(Completion)
      BY DEF Completion
    <3>3. << >> \o << >> = << >> /\ << >> \o <<"scan_set">> = <<"scan_set">> /\ <<"adv_set">> \o << >> = <<"adv_set">>
      BY <3>2, ConcatEmptySeq
    <3>4. one("adv_set") \in {<< >>, <<"adv_set">>} /\ one("scan_set") \in {<< >>, <<"scan_set">>}
      OBVIOUS
    <3>5. jobs'["gap"] = one("adv_set") \o one("scan_set")
      BY <2>1, <2>3
    <3> HIDE DEF one
    <3> QED BY <3>1, <3>3, <3>4, <3>5
  <2>6. \A s \in {<< >>, <<"adv_set">>, <<"scan_set">>, Append(<<"adv_set">>, "scan_set")} :
          \A job \in {"adv_set", "scan_set", "adv_start"} :
            Once(s, job) /\ (job = "adv_start" => ~Has(s, job))
    <3>1. \A s \in {<< >>, <<"adv_set">>, <<"scan_set">>} : \A job \in {"adv_set", "scan_set", "adv_start"} :
            /\ Once(s, job) /\ (job = "adv_start" => ~Has(s, job))
            /\ s = <<"adv_set">> /\ job = "scan_set" => ~Has(s, job)
      BY DEF Once, Has
    <3>2. <<"adv_set">> \in Seq(Completion) /\ "scan_set" \in Completion
      BY DEF Completion
    <3>3. ASSUME NEW job \in {"adv_set", "scan_set", "adv_start"}
          PROVE  /\ Once(Append(<<"adv_set">>, "scan_set"), job)
                 /\ job = "adv_start" => ~Has(Append(<<"adv_set">>, "scan_set"), job)
      <4>1. Once(<<"adv_set">>, job) /\ (job # "adv_set" => ~Has(<<"adv_set">>, job))
        BY DEF Once, Has
      <4> QED BY <3>2, <4>1, AppendHas
    <3> QED BY <3>1, <3>3
  <2>7. \A s \in {<< >>, <<"create">>} : ~Has(s, "reg")
    BY DEF Has
  <2> QED BY <2>4, <2>5, <2>6, <2>7
<1>7. UNCHANGED <<init, air, phone>> /\ ~air.on /\ ~phone.linked
  BY <1>3 DEF Registered, appUnchanged, Registering
<1>8. CASE ~(UNCHANGED <<flags, jobs>>)
  <2>1. PICK lost \in SUBSET {"adv_set", "scan_set", "create"} :
          /\ flags' = Flags
          /\ LET accepted(call) == IF call \in lost THEN << >> ELSE <<call>>
             IN  jobs' = [jobs EXCEPT !["gap"] = @ \o accepted("adv_set") \o accepted("scan_set"),
                                      !["gatts"] = @ \o accepted("create")]
    BY <1>8 DEF Registered
  <2> QED BY <1>3, <1>4, <1>6, <1>7, <2>1
<1>9. CASE UNCHANGED <<flags, jobs>>
  <2>1. jobs'["gap"] = << >> /\ jobs'["gatts"] = << >>
    BY <1>3, <1>9
  <2> QED BY <1>3, <1>4, <1>7, <2>1, NoneHas
<1> QED BY <1>8, <1>9

LEMMA RegisteredOnce ==
  ASSUME TypeOK, Configuring, Registered
  PROVE  Configuring'
<1>1. Past'
  BY RegisteredCalls, NoneHas DEF Past
<1>2. \A job \in {"adv_set", "scan_set"} : Single(job)' /\ (Pending(job)' => Has(jobs'["gap"], job))
  BY RegisteredCalls, NoneHas DEF Single, Pending
<1>3. (Pending("adv_set") => "adv_config_flag" \in flags)' /\ (Pending("scan_set") => "scan_rsp_config_flag" \in flags)'
  BY <1>2, RegisteredCalls DEF Flags
<1> QED BY <1>1, <1>2, <1>3 DEF Configuring

\* Registration and configuration run once (bluetooth_init, ESP_GATTS_REG_EVT).
LEMMA ConfiguringStep ==
  ASSUME GattAssumption, TypeOK, Halves, Configuring, [Next]_vars
  PROVE  Configuring'
<1>a. ASSUME UNCHANGED <<init, jobs, flags, air>>, phone'.linked = phone.linked, UNCHANGED events
      PROVE  Configuring'
  BY <1>a DEF Configuring, Registering, Past, Single, Pending
<1>b. ASSUME UNCHANGED <<init, jobs, flags>>, events # << >>, events' = Tail(events),
             Head(events) # Ev("reg")
      PROVE  Configuring'
  <2>1. Past'
    BY <1>b, TailPast DEF Past, Configuring
  <2>2. \A job \in {"adv_set", "scan_set"} : Single(job)' /\ (Pending(job)' => Pending(job))
    BY <1>b, TailSingle DEF Configuring, Single, Pending
  <2> QED BY <1>b, <2>1, <2>2 DEF Configuring
<1>1. CASE BluetoothInit
  <2>1. UNCHANGED <<events, flags, air, phone>>
    BY <1>1 DEF BluetoothInit
  <2>2. jobs'["gap"] = jobs["gap"]
    BY <1>1 DEF BluetoothInit, TypeOK
  <2>3. Len(InitSteps) = 9
    BY DEF InitSteps
  <2>4. Registering' \/ Past'
    <3>1. CASE init' = 0 /\ UNCHANGED jobs
      <4>1. CASE Registering
        <5>1. CASE init \in 1 .. 8
          <6>1. jobs["gatts"] = << >> /\ events = << >>
            BY <4>1, <5>1 DEF Registering
          <6> QED BY <2>1, <3>1, <6>1, NoneHas DEF Past
        <5>2. CASE init \in {0, 9}
          BY <2>1, <3>1, <4>1, <5>2 DEF Registering
        <5> QED BY <4>1, <5>1, <5>2 DEF Registering
      <4>2. CASE Past
        BY <2>1, <3>1, <4>2 DEF Past
      <4> QED BY <4>1, <4>2 DEF Configuring
    <3>2. CASE init \in 1 .. 8 /\ init' = init + 1
               /\ jobs' = IF Registers(init) THEN [jobs EXCEPT !["gatts"] = <<"reg">>] ELSE jobs
      <4>1. Registering /\ jobs["gatts"] = << >> /\ events = << >> /\ jobs["gap"] = << >>
        BY <3>2 DEF Configuring, Registering, Past
      <4>2. CASE init = 8
        <5>1. jobs' = [jobs EXCEPT !["gatts"] = <<"reg">>] /\ init' = 9
          BY <3>2, <4>2, RegistersAt
        <5>2. jobs'["gatts"] = <<"reg">>
          BY <5>1 DEF TypeOK
        <5> QED BY <2>1, <2>2, <4>1, <5>1, <5>2 DEF Registering
      <4>3. CASE init # 8
        <5>1. jobs' = jobs /\ init' \in 1 .. 8
          BY <3>2, <4>3, RegistersAt
        <5> QED BY <2>1, <4>1, <5>1 DEF Registering
      <4> QED BY <4>2, <4>3
    <3>3. init \in 1 .. 9
      BY <1>1, <2>3 DEF BluetoothInit, TypeOK
    <3>4. \/ init' = 0 /\ UNCHANGED jobs
          \/ init = 9 /\ init' = 0
             /\ jobs' = IF Registers(init) THEN [jobs EXCEPT !["gatts"] = <<"reg">>] ELSE jobs
          \/ init # 9 /\ init' = init + 1
             /\ jobs' = IF Registers(init) THEN [jobs EXCEPT !["gatts"] = <<"reg">>] ELSE jobs
      BY <1>1, <2>3 DEF BluetoothInit
    <3>5. ~Registers(9)
      BY RegistersAt
    <3> QED BY <3>1, <3>2, <3>3, <3>4, <3>5
  <2>5. \A job : Single(job)' = Single(job) /\ Pending(job)' = Pending(job)
    BY <2>1, <2>2 DEF Single, Pending
  <2> QED BY <2>1, <2>4, <2>5 DEF Configuring
<1>2. CASE \E half \in {"gap", "gatts"} : StackCompletes(half)
  <2>1. PICK half \in {"gap", "gatts"} : StackCompletes(half)
    BY <1>2
  <2> DEFINE job == Head(jobs[half])
  <2>2. /\ jobs[half] # << >> /\ job \in Completion /\ Ev(job) \in Event
        /\ jobs'[half] = Tail(jobs[half])
        /\ \A other \in {"gap", "gatts"} \ {half} : jobs'[other] = jobs[other]
        /\ events' = Append(events, Ev(job)) /\ UNCHANGED <<init, flags, phone>>
        /\ \A x : Has(jobs'[half], x) => Has(jobs[half], x)
        /\ \A x : Once(jobs[half], x) => Once(jobs'[half], x) /\ (job = x => ~Has(jobs'[half], x))
        /\ Has(jobs[half], job)
    BY <2>1, StackCalls
  <2> HIDE DEF job
  <2>3. Registering' \/ Past'
    <3>1. CASE Registering
      <4>1. half = "gatts" /\ jobs["gatts"] = <<"reg">> /\ events = << >> /\ init \in {0, 9}
        BY <2>2, <3>1 DEF Registering
      <4>2. job = "reg" /\ Tail(<<"reg">>) = << >> /\ Append(<< >>, Ev("reg")) = <<Ev("reg")>>
        BY <4>1 DEF job
      <4>3. jobs'["gatts"] = << >> /\ jobs'["gap"] = << >> /\ events' = <<Ev("reg")>>
        BY <2>2, <3>1, <4>1, <4>2 DEF Registering
      <4>4. ~air'.on
        BY <2>1, <3>1, <4>1, <4>2 DEF StackCompletes, Registering, job
      <4> QED BY <2>2, <3>1, <4>1, <4>3, <4>4 DEF Registering
    <3>2. CASE Past
      <4>1. job # "reg"
        <5>1. half = "gatts" => job # "reg"
          BY <2>2, <3>2 DEF Past
        <5>2. half = "gap" => job \in GapCall
          BY <2>2, HeadTailProperties DEF Halves, job
        <5> QED BY <5>1, <5>2 DEF GapCall
      <4>2. ~Has(events', Ev("reg"))
        BY <2>2, <3>2, <4>1, EvInjective, AppendSingle DEF Past
      <4>3. ~Has(jobs'["gatts"], "reg")
        BY <2>2, <3>2 DEF Past
      <4> QED BY <2>2, <3>2, <4>2, <4>3 DEF Past
    <3> QED BY <3>1, <3>2 DEF Configuring
  <2>4. ASSUME NEW k \in {"adv_set", "scan_set"}
        PROVE  Single(k)' /\ (Pending(k)' => Pending(k))
    <3>1. CASE job = k
      <4>1. half = "gap"
        <5>1. half = "gatts" => job \in GattsCall
          BY <2>2, HeadTailProperties DEF Halves, job
        <5> QED BY <3>1, <5>1 DEF GattsCall
      <4>2. Has(jobs["gap"], k) /\ ~Has(events, Ev(k)) /\ Once(jobs["gap"], k) /\ Once(events, Ev(k))
        BY <2>2, <3>1, <4>1 DEF Configuring, Single
      <4>3. ~Has(jobs'["gap"], k) /\ Once(jobs'["gap"], k)
        BY <2>2, <3>1, <4>1, <4>2
      <4>4. Once(events', Ev(k))
        BY <2>2, <3>1, <4>2, AppendHas DEF TypeOK
      <4> QED BY <4>2, <4>3, <4>4 DEF Single, Pending
    <3>2. CASE job # k
      <4>1. Ev(job) # Ev(k)
        BY <3>2, EvInjective
      <4>2. (Has(events', Ev(k)) <=> Has(events, Ev(k))) /\ (Once(events, Ev(k)) => Once(events', Ev(k)))
        BY <2>2, <4>1, AppendSingle
      <4>3. /\ Has(jobs'["gap"], k) => Has(jobs["gap"], k)
            /\ Once(jobs["gap"], k) => Once(jobs'["gap"], k)
        BY <2>2
      <4> QED BY <4>2, <4>3 DEF Configuring, Single, Pending
    <3> QED BY <3>1, <3>2
  <2> QED BY <2>2, <2>3, <2>4 DEF Configuring
<1>3. CASE AdvSet("adv_set", "adv_config_flag")
  <2>1. Head(events) = Ev("adv_set") /\ events # << >> /\ events' = Tail(events) /\ UNCHANGED init
    BY <1>3, HeadIs DEF AdvSet, Completion, appUnchanged
  <2>2. Past /\ ~Has(events', Ev("reg"))
    BY <2>1, EvInjective, TailPast DEF Configuring
  <2>3. /\ jobs'["gatts"] = jobs["gatts"]
        /\ \A job \in {"adv_set", "scan_set"} :
             /\ Has(jobs'["gap"], job) <=> Has(jobs["gap"], job)
             /\ Once(jobs["gap"], job) => Once(jobs'["gap"], job)
    BY <1>3, StartCalls DEF AdvSet
  <2>4. Single("adv_set")' /\ ~Pending("adv_set")'
    BY <2>1, <2>3, TailSingle DEF Configuring, Single, Pending
  <2>5. Single("scan_set")' /\ (Pending("scan_set")' => Pending("scan_set"))
    BY <2>1, <2>3, TailSingle DEF Configuring, Single, Pending
  <2>6. flags' = flags \ {"adv_config_flag"}
    BY <1>3 DEF AdvSet
  <2> QED BY <2>1, <2>2, <2>3, <2>4, <2>5, <2>6 DEF Configuring, Past
<1>4. CASE AdvSet("scan_set", "scan_rsp_config_flag")
  <2>1. Head(events) = Ev("scan_set") /\ events # << >> /\ events' = Tail(events) /\ UNCHANGED init
    BY <1>4, HeadIs DEF AdvSet, Completion, appUnchanged
  <2>2. Past /\ ~Has(events', Ev("reg"))
    BY <2>1, EvInjective, TailPast DEF Configuring
  <2>3. /\ jobs'["gatts"] = jobs["gatts"]
        /\ \A job \in {"adv_set", "scan_set"} :
             /\ Has(jobs'["gap"], job) <=> Has(jobs["gap"], job)
             /\ Once(jobs["gap"], job) => Once(jobs'["gap"], job)
    BY <1>4, StartCalls DEF AdvSet
  <2>4. Single("scan_set")' /\ ~Pending("scan_set")'
    BY <2>1, <2>3, TailSingle DEF Configuring, Single, Pending
  <2>5. Single("adv_set")' /\ (Pending("adv_set")' => Pending("adv_set"))
    BY <2>1, <2>3, TailSingle DEF Configuring, Single, Pending
  <2>6. flags' = flags \ {"scan_rsp_config_flag"}
    BY <1>4 DEF AdvSet
  <2> QED BY <2>1, <2>2, <2>3, <2>4, <2>5, <2>6 DEF Configuring, Past
<1>5. CASE Registered
  BY <1>5, RegisteredOnce
<1>6. CASE Created \/ CharAdded
  <2>1. Head(events) \in {Ev("create"), Ev("add_char")} /\ events # << >> /\ events' = Tail(events)
        /\ UNCHANGED <<init, flags>>
    BY <1>6, HeadIs DEF Created, CharAdded, Completion, appUnchanged
  <2>2. Past /\ ~Has(events', Ev("reg"))
    BY <2>1, EvInjective, TailPast DEF Configuring
  <2>3. jobs'["gap"] = jobs["gap"]
        /\ (jobs'["gatts"] = jobs["gatts"]
            \/ \E job \in {"add_char", "add_descr"} : jobs'["gatts"] = Append(jobs["gatts"], job))
    BY <1>6 DEF Created, CharAdded, TypeOK
  <2>4. ~Has(jobs'["gatts"], "reg")
    <3>1. jobs["gatts"] \in Seq(Completion) /\ {"add_char", "add_descr"} \subseteq Completion
          /\ ~Has(jobs["gatts"], "reg")
      BY <2>2 DEF TypeOK, Completion, Past
    <3>2. ASSUME NEW job \in {"add_char", "add_descr"}, jobs'["gatts"] = Append(jobs["gatts"], job)
          PROVE  ~Has(jobs'["gatts"], "reg")
      <4>1. job \in Completion /\ job # "reg"
        BY <3>1
      <4> QED BY <3>1, <3>2, <4>1, AppendHas
    <3> QED BY <2>3, <3>1, <3>2
  <2>5. \A job \in {"adv_set", "scan_set"} : Single(job)' /\ (Pending(job)' => Pending(job))
    BY <2>1, <2>3, TailSingle DEF Configuring, Single, Pending
  <2> QED BY <2>1, <2>2, <2>4, <2>5 DEF Configuring, Past
<1>7. CASE Disconnected
  <2>1. Head(events) = Ev("disconnect") /\ events # << >> /\ events' = Tail(events)
        /\ UNCHANGED <<init, flags>>
    BY <1>7, HeadIs DEF Disconnected, stackUnchanged
  <2>2. Past /\ ~Has(events', Ev("reg"))
    BY <2>1, EvInjective, TailPast DEF Configuring
  <2>3. /\ jobs'["gatts"] = jobs["gatts"]
        /\ \A job \in {"adv_set", "scan_set"} :
             /\ Has(jobs'["gap"], job) <=> Has(jobs["gap"], job)
             /\ Once(jobs["gap"], job) => Once(jobs'["gap"], job)
    BY <1>7, StartCalls DEF Disconnected
  <2>4. \A job \in {"adv_set", "scan_set"} : Single(job)' /\ (Pending(job)' => Pending(job))
    BY <2>1, <2>3, TailSingle DEF Configuring, Single, Pending
  <2> QED BY <2>1, <2>2, <2>3, <2>4 DEF Configuring, Past
<1>8. CASE Handles
  <2>1. Head(events) # Ev("reg")
    BY <1>8, HandlesEvent DEF Ev
  <2> QED BY <1>8, <1>b, <2>1, HandlesEvent
<1>9. CASE PhoneConnects \/ PhoneLeaves \/ \E r \in Request : PhoneAsks(r)
  <2>1. Past
    BY <1>9 DEF Configuring, Registering, PhoneConnects, PhoneLeaves, PhoneAsks
  <2>2. PICK e \in Event : events' = Append(events, e) /\ e.req.kind \notin Completion
    <3>1. CASE PhoneConnects \/ PhoneLeaves
      BY <3>1, EventTypes DEF PhoneConnects, PhoneLeaves, Ev, Completion
    <3>2. ASSUME NEW r \in Request, PhoneAsks(r)
          PROVE  \E e \in Event : events' = Append(events, e) /\ e.req.kind \notin Completion
      <4>1. [id |-> count.writes + 1, req |-> r] \in Event
        BY <3>2, AskedId
      <4>2. r.kind \notin Completion
        BY DEF Request, Completion
      <4> QED BY <3>2, <4>1, <4>2 DEF PhoneAsks
    <3> QED BY <1>9, <3>1, <3>2
  <2>3. \A job \in Completion : e # Ev(job)
    BY <2>2 DEF Ev
  <2>4. UNCHANGED <<init, jobs, flags>>
    BY <1>9 DEF PhoneConnects, PhoneLeaves, PhoneAsks
  <2>5. {"adv_set", "scan_set", "reg"} \subseteq Completion
    BY DEF Completion
  <2>6. Past'
    BY <2>1, <2>2, <2>3, <2>4, <2>5, AppendSingle DEF Past
  <2>7. \A job \in {"adv_set", "scan_set"} : Single(job)' /\ (Pending(job)' => Pending(job))
    BY <2>2, <2>3, <2>4, <2>5, AppendSingle DEF Configuring, Single, Pending
  <2> QED BY <2>4, <2>6, <2>7 DEF Configuring
<1>10. CASE UNCHANGED vars
  BY <1>10, <1>a DEF vars
<1> QED
  BY <1>1, <1>2, <1>3, <1>4, <1>5, <1>6, <1>7, <1>8, <1>9, <1>10 DEF Next, App, Handles

\* Whose turn it is does not change while the application handles an event.
LEMMA TailTurns ==
  ASSUME TypeOK, Turns, OneRequest, events # << >>, events' = Tail(events),
         jobs'["gap"] = jobs["gap"], air' = air, phone'.linked = phone.linked,
         Asking(Head(events)) \/ phone'.waits = phone.waits
  PROVE  Turns' /\ OneRequest'
<1>1. events \in Seq(Event)
  BY DEF TypeOK
<1>2. \A x : (Has(events', x) => Has(events, x)) /\ (Once(events, x) => Once(events', x))
  BY <1>1, TailHas
<1>3. NoAsk(events) => NoAsk(events')
  BY <1>1, TailAsk
<1>4. Turns'
  BY <1>2, <1>3 DEF Turns, Quiet, Leaving, Starting, Pending
<1>5. OneRequest'
  BY <1>1, TailAsk DEF OneRequest
<1> QED BY <1>4, <1>5

\* What is appended to the events while nobody's turn changes.
LEMMA AppendTurns ==
  ASSUME TypeOK, Turns, OneRequest, NEW e \in Event, events' = Append(events, e),
         jobs'["gap"] = jobs["gap"], air' = air, phone'.linked = phone.linked,
         e.req.kind \notin {"adv_set", "scan_set", "disconnect"},
         Asking(e) => phone.linked /\ ~phone.waits /\ phone'.waits,
         ~Asking(e) => phone'.waits = phone.waits
  PROVE  Turns' /\ OneRequest'
<1>1. events \in Seq(Event)
  BY DEF TypeOK
<1>2. e \notin {Ev("adv_set"), Ev("scan_set"), Ev("disconnect")}
  BY DEF Ev
<1>3. \A x \in {Ev("adv_set"), Ev("scan_set"), Ev("disconnect")} :
        (Has(events', x) <=> Has(events, x)) /\ (Once(events, x) => Once(events', x))
  BY <1>1, <1>2, AppendHas
<1>4. CASE Asking(e)
  <2>1. phone.linked /\ NoAsk(events)
    BY <1>4 DEF OneRequest
  <2>2. ~Quiet /\ ~Leaving
    BY <2>1 DEF Quiet, Turns
  <2>3. Turns'
    BY <1>3, <2>1, <2>2 DEF Turns, Quiet, Leaving, Starting, Pending
  <2>4. OneRequest'
    BY <1>1, <1>4, <2>1, <2>2, AppendAsk DEF OneRequest, Leaving
  <2> QED BY <2>3, <2>4
<1>5. CASE ~Asking(e)
  <2>1. NoAsk(events') <=> NoAsk(events)
    BY <1>1, <1>5, AppendAsk
  <2>2. Turns'
    BY <1>3, <2>1 DEF Turns, Quiet, Leaving, Starting, Pending
  <2>3. OneRequest'
    BY <1>1, <1>5, <2>1, AppendAsk DEF OneRequest
  <2> QED BY <2>2, <2>3
<1> QED BY <1>4, <1>5

\* Advertising starts when everybody else is through (gap_event_handler and
\* ESP_GATTS_DISCONNECT_EVT).
LEMMA StartTurns ==
  ASSUME TypeOK, Turns, OneRequest, StartAdvertising, ~Starting, ~air.on, ~phone.linked,
         air' = air, phone' = phone, events # << >>, events' = Tail(events),
         ~Has(events', Ev("disconnect")), NoAsk(events'),
         ~Pending("adv_set")', ~Pending("scan_set")'
  PROVE  Turns' /\ OneRequest'
<1>1. events \in Seq(Event)
  BY DEF TypeOK
<1>2. Once(jobs'["gap"], "adv_start")
  BY StartCalls
<1>3. Once(events', Ev("disconnect"))
  BY <1>1, TailHas DEF Turns
<1>4. Turns'
  BY <1>2, <1>3 DEF Turns, Quiet, Leaving
<1>5. OneRequest'
  BY <1>1, TailAsk DEF OneRequest
<1> QED BY <1>4, <1>5

LEMMA TurnsStep ==
  ASSUME GattAssumption, TypeOK, Halves, Configuring, Configuring', Turns, OneRequest, [Next]_vars
  PROVE  Turns' /\ OneRequest'
<1>0. events \in Seq(Event) /\ jobs["gap"] \in Seq(Completion)
  BY DEF TypeOK
<1>1. CASE BluetoothInit
  <2>1. UNCHANGED <<events, air, phone>> /\ jobs'["gap"] = jobs["gap"]
    BY <1>1 DEF BluetoothInit, TypeOK
  <2> QED BY <2>1 DEF Turns, OneRequest, Quiet, Leaving, Starting, Pending
<1>2. CASE \E half \in {"gap", "gatts"} : StackCompletes(half)
  <2>1. PICK half \in {"gap", "gatts"} : StackCompletes(half)
    BY <1>2
  <2> DEFINE job == Head(jobs[half])
  <2>2. /\ jobs[half] # << >> /\ job \in Completion /\ Ev(job) \in Event
        /\ \A other \in {"gap", "gatts"} \ {half} : jobs'[other] = jobs[other]
        /\ events' = Append(events, Ev(job)) /\ UNCHANGED phone
        /\ \A x : Has(jobs'[half], x) => Has(jobs[half], x)
        /\ \A x : Once(jobs[half], x) => Once(jobs'[half], x) /\ (job = x => ~Has(jobs'[half], x))
        /\ Has(jobs[half], job)
    BY <2>1, StackCalls
  <2>3. air'.on = IF job = "adv_start" THEN ~phone.linked ELSE air.on
    BY <2>1 DEF StackCompletes, TypeOK
  <2>4. half = "gap" => job \in GapCall
    BY <2>2, HeadTailProperties DEF Halves
  <2>5. half = "gatts" => job \in GattsCall
    BY <2>2, HeadTailProperties DEF Halves
  <2> HIDE DEF job
  <2>6. ~Asking(Ev(job)) /\ Ev(job).req.kind = job
    BY DEF Asking, Ev
  <2>7. CASE half = "gatts"
    <3>1. job \notin {"adv_start", "adv_set", "scan_set", "disconnect"}
      BY <2>5, <2>7 DEF GattsCall
    <3>2. jobs'["gap"] = jobs["gap"] /\ air'.on = air.on
      BY <2>2, <2>3, <2>7, <3>1
    <3>3. \A x \in {Ev("adv_set"), Ev("scan_set"), Ev("disconnect")} :
            (Has(events', x) <=> Has(events, x)) /\ (Once(events, x) => Once(events', x))
      BY <1>0, <2>2, <3>1, EvInjective, AppendHas
    <3>4. (NoAsk(events') <=> NoAsk(events)) /\ OneAsk(events') /\ AskBefore(events')
      BY <1>0, <2>2, <2>6, AppendAsk DEF OneRequest
    <3> QED
      BY <2>2, <3>2, <3>3, <3>4 DEF Turns, OneRequest, Quiet, Leaving, Starting, Pending
  <2>8. CASE half = "gap"
    <3>1. job # "disconnect" /\ job \in {"adv_start", "adv_set", "scan_set"}
      BY <2>4, <2>8 DEF GapCall
    <3>2. /\ Has(events', Ev("disconnect")) <=> Has(events, Ev("disconnect"))
          /\ Once(events', Ev("disconnect"))
      BY <1>0, <2>2, <3>1, EvInjective, AppendHas DEF Turns
    <3>3. (NoAsk(events') <=> NoAsk(events)) /\ OneAsk(events') /\ AskBefore(events')
      BY <1>0, <2>2, <2>6, AppendAsk DEF OneRequest
    <3>4. \A k \in {"adv_set", "scan_set"} : Has(events', Ev(k)) <=> Has(events, Ev(k)) \/ job = k
      BY <1>0, <2>2, EvInjective, AppendHas
    <3>5. \A k \in {"adv_set", "scan_set"} : Pending(k)' => Pending(k)
      BY <2>2, <2>8, <3>4 DEF Pending
    <3>6. OneRequest'
      BY <2>2, <3>3 DEF OneRequest
    <3>7. Quiet' = Quiet
      BY <2>2, <3>2, <3>3 DEF Quiet, Leaving
    <3>8. Once(jobs'["gap"], "adv_start") /\ (Starting' => Starting)
      BY <2>2, <2>8 DEF Turns, Starting
    <3>9. CASE job = "adv_start"
      <4>1. Starting /\ ~Starting'
        BY <2>2, <2>8, <3>9 DEF Starting, Turns
      <4>2. Quiet /\ ~Pending("adv_set") /\ ~Pending("scan_set")
        BY <4>1 DEF Turns
      <4> QED BY <2>2, <3>2, <3>5, <3>6, <3>7, <3>8, <4>1, <4>2 DEF Turns, Quiet, Leaving
    <3>10. CASE job # "adv_start"
      <4>1. air'.on = air.on
        BY <2>3, <3>10
      <4> QED BY <2>2, <3>2, <3>5, <3>6, <3>7, <3>8, <4>1 DEF Turns, Leaving
    <3> QED BY <3>9, <3>10
  <2> QED BY <2>7, <2>8
<1>3. CASE AdvSet("adv_set", "adv_config_flag") \/ AdvSet("scan_set", "scan_rsp_config_flag")
  <2>1. PICK kind \in {"adv_set", "scan_set"}, flag \in Flags : AdvSet(kind, flag)
    BY <1>3 DEF Flags
  <2>2. Head(events) = Ev(kind) /\ ~Asking(Head(events)) /\ events # << >> /\ events' = Tail(events)
        /\ air' = air /\ phone' = phone
    BY <2>1, HeadIs DEF AdvSet, Completion, appUnchanged
  <2>3. Pending(kind)
    BY <1>0, <2>2, TailHas DEF Pending
  <2>4. Quiet /\ ~air.on /\ ~Starting
    BY <2>1, <2>3 DEF Turns
  <2>5. CASE UNCHANGED jobs
    BY <2>2, <2>5, TailTurns
  <2>6. CASE flags' = {} /\ StartAdvertising
    <3>1. ~Pending("adv_set")' /\ ~Pending("scan_set")'
      BY <2>6 DEF Configuring
    <3>2. ~Has(events', Ev("disconnect")) /\ NoAsk(events')
      BY <1>0, <2>2, <2>4, TailHas, TailAsk DEF Quiet, Leaving
    <3> QED BY <2>2, <2>4, <2>6, <3>1, <3>2, StartTurns DEF Quiet
  <2> QED BY <2>1, <2>5, <2>6 DEF AdvSet
<1>4. CASE Registered
  <2>1. /\ events' = << >> /\ UNCHANGED <<air, phone>> /\ ~air.on /\ ~phone.linked
        /\ ~Has(jobs'["gap"], "adv_start") /\ Once(jobs'["gap"], "adv_start")
    BY <1>4, RegisteredCalls
  <2>2. \A x : ~Has(events', x) /\ Once(events', x)
    BY <2>1, NoneHas
  <2>3. NoAsk(events') /\ OneAsk(events') /\ AskBefore(events')
    <3>1. NoAsk(<< >>)
      BY NoneHas
    <3> QED BY <2>1, <3>1 DEF NoAsk, OneAsk, AskBefore
  <2>4. Turns'
    BY <2>1, <2>2, <2>3 DEF Turns, Quiet, Leaving, Starting
  <2>5. OneRequest'
    BY <2>3 DEF OneRequest
  <2> QED BY <2>4, <2>5
<1>5. CASE Created \/ CharAdded
  <2>1. events # << >> /\ events' = Tail(events) /\ air' = air /\ phone' = phone
    BY <1>5, HeadIs DEF Created, CharAdded, appUnchanged
  <2>2. jobs'["gap"] = jobs["gap"]
    BY <1>5 DEF Created, CharAdded, TypeOK
  <2> QED BY <2>1, <2>2, TailTurns
<1>6. CASE Disconnected
  <2>1. Head(events) = Ev("disconnect") /\ events # << >> /\ events' = Tail(events)
        /\ air' = air /\ phone' = phone /\ StartAdvertising
    BY <1>6, HeadIs DEF Disconnected, stackUnchanged
  <2>2. Leaving
    BY <1>0, <2>1, TailHas DEF Leaving
  <2>3. ~phone.linked /\ ~Starting /\ ~air.on /\ ~Pending("adv_set") /\ ~Pending("scan_set")
    BY <2>2 DEF Turns, Quiet
  <2>4. ~Has(events', Ev("disconnect")) /\ NoAsk(events')
    BY <1>0, <2>1, TailHas, TailAsk DEF Turns, OneRequest
  <2>5. ~Pending("adv_set")' /\ ~Pending("scan_set")'
    BY <1>0, <2>1, <2>3, TailHas, StartCalls DEF Pending
  <2> QED BY <2>1, <2>3, <2>4, <2>5, StartTurns
<1>7. CASE Handles
  <2>1. UNCHANGED <<jobs, air>> /\ phone'.linked = phone.linked /\ events # << >> /\ events' = Tail(events)
    BY <1>7, HandlesEvent
  <2>2. Asking(Head(events)) \/ phone' = phone
    <3>1. CASE AdvStarted \/ DescrAdded \/ Connected
      BY <3>1 DEF AdvStarted, DescrAdded, Connected
    <3>2. CASE Read \/ Prepare \/ Execute
      BY <3>2, HeadIs DEF Read, Prepare, Execute
    <3>3. CASE Write
      BY <3>3, HeadIs DEF Write
    <3> QED BY <1>7, <3>1, <3>2, <3>3 DEF Handles
  <2> QED BY <2>1, <2>2, TailTurns
<1>8. CASE PhoneConnects
  <2>1. air.on /\ ~phone.linked /\ ~air'.on /\ phone'.linked /\ events' = Append(events, Ev("connect"))
        /\ jobs' = jobs /\ Ev("connect") \in Event
    BY <1>8, EventTypes DEF PhoneConnects, TypeOK
  <2>2. Quiet /\ ~Starting /\ ~Pending("adv_set") /\ ~Pending("scan_set")
    BY <2>1 DEF Turns
  <2>3. \A k \in {"adv_set", "scan_set", "disconnect"} :
          (Has(events', Ev(k)) <=> Has(events, Ev(k))) /\ (Once(events, Ev(k)) => Once(events', Ev(k)))
    BY <1>0, <2>1, EvInjective, AppendHas
  <2>4. NoAsk(events') /\ OneAsk(events') /\ AskBefore(events')
    <3>1. ~Asking(Ev("connect"))
      BY DEF Asking, Ev
    <3> QED BY <1>0, <2>1, <2>2, <3>1, AppendAsk DEF OneRequest, Quiet
  <2>5. Turns'
    BY <2>1, <2>2, <2>3 DEF Turns, Quiet, Leaving, Starting, Pending
  <2>6. OneRequest'
    BY <2>4 DEF OneRequest
  <2> QED BY <2>5, <2>6
<1>9. CASE PhoneLeaves
  <2>1. phone.linked /\ air' = air /\ ~phone'.linked /\ events' = Append(events, Ev("disconnect"))
        /\ jobs' = jobs /\ Ev("disconnect") \in Event
    BY <1>9, EventTypes DEF PhoneLeaves, TypeOK
  <2>2. ~Quiet /\ ~Leaving /\ ~air.on /\ ~Starting /\ ~Pending("adv_set") /\ ~Pending("scan_set")
    BY <2>1 DEF Turns, Quiet
  <2>3. \A k \in {"adv_set", "scan_set"} : Has(events', Ev(k)) <=> Has(events, Ev(k))
    BY <1>0, <2>1, EvInjective, AppendHas
  <2>4. Once(events', Ev("disconnect"))
    BY <1>0, <2>1, <2>2, AppendHas DEF Turns, Leaving
  <2>5. OneAsk(events') /\ AskBefore(events')
    <3>1. ~Asking(Ev("disconnect"))
      BY DEF Asking, Ev
    <3> QED BY <1>0, <2>1, <3>1, AppendAsk DEF OneRequest
  <2>6. Turns'
    BY <2>1, <2>2, <2>3, <2>4 DEF Turns, Starting, Pending
  <2>7. OneRequest'
    BY <2>1, <2>5 DEF OneRequest
  <2> QED BY <2>6, <2>7
<1>10. CASE \E r \in Request : PhoneAsks(r)
  <2>1. PICK r \in Request : PhoneAsks(r)
    BY <1>10
  <2> DEFINE e == [id |-> count.writes + 1, req |-> r]
  <2>2. e \in Event /\ e.id # 0
    <3>1. e.id # 0
      BY SMTT(30) DEF TypeOK
    <3> QED BY <2>1, <3>1, AskedId
  <2>3. Asking(e) <=> Asks(r)
    BY <2>2 DEF Asking
  <2>4. e.req.kind \notin {"adv_set", "scan_set", "disconnect"}
    BY DEF Request
  <2>5. events' = Append(events, e) /\ jobs' = jobs /\ air' = air /\ phone.linked /\ ~phone.waits
        /\ phone'.linked = phone.linked /\ phone'.waits = Asks(r)
    BY <2>1 DEF PhoneAsks, TypeOK
  <2>6. Asks(r) \in BOOLEAN /\ phone.waits \in BOOLEAN
    BY DEF Asks, TypeOK, Request
  <2> HIDE DEF e
  <2> QED BY <2>2, <2>3, <2>4, <2>5, <2>6, AppendTurns
<1>11. CASE UNCHANGED vars
  BY <1>11 DEF vars, Turns, OneRequest, Quiet, Leaving, Starting, Pending
<1> QED
  BY <1>1, <1>2, <1>3, <1>4, <1>5, <1>6, <1>7, <1>8, <1>9, <1>10, <1>11 DEF Next, App, Handles

----------------------------------------------------------------------------
(* Long writes: at most one part of one is queued, and the buffer holds    *)
(* the parts before it.                                                    *)

Part(e) == e.req.kind \in {"prepare", "exec", "cancel"}

LongWrite ==
  /\ phone.linked \/ phone.long = 0
  /\ \A e \in Event : Has(events, e) /\ e.req.kind \in {"exec", "cancel"} => phone.long = 0
  /\ \A e \in Event : Has(events, e) /\ e.req.kind = "prepare" /\ phone.linked =>
       phone.long = e.req.offset + 1
  /\ ~log.abandoned /\ (\A e \in Event : Has(events, e) => ~Part(e)) =>
       prep = [buf |-> 1 .. phone.long, len |-> phone.long]
  /\ \A e \in Event : Has(events, e) /\ e.req.kind = "prepare" /\ ~log.abandoned =>
       /\ phone.linked
       /\ prep = [buf |-> 1 .. e.req.offset, len |-> e.req.offset]

LEMMA PartAsks == \A e \in Event : Part(e) => Asking(e)
BY DEF Event, Request, Completion, Part, Asking, Asks

LEMMA NoParts ==
  ASSUME NEW s \in Seq(Event), NoAsk(s)
  PROVE  \A e \in Event : Part(e) => ~Has(s, e)
BY PartAsks DEF NoAsk, Has

LEMMA TailParts ==
  ASSUME NEW s \in Seq(Event), s # << >>, ~Part(Head(s)), NEW e \in Event, Part(e)
  PROVE  Has(Tail(s), e) <=> Has(s, e)
<1>1. /\ Len(Tail(s)) = Len(s) - 1 /\ Head(s) = s[1]
      /\ \A i \in 1 .. Len(Tail(s)) : Tail(s)[i] = s[i + 1]
  BY HeadTailProperties
<1>2. ASSUME NEW i \in 1 .. Len(s), s[i] = e
      PROVE  Has(Tail(s), e)
  <2>1. i # 1
    BY <1>1, <1>2
  <2>2. i - 1 \in 1 .. Len(Tail(s)) /\ (i - 1) + 1 = i
    BY <1>1, <2>1
  <2>3. Tail(s)[i - 1] = e
    BY <1>1, <1>2, <2>2
  <2> QED BY <2>2, <2>3 DEF Has
<1> QED BY <1>2, TailHas DEF Has

\* Steps that are not about a long write.
LEMMA OtherKeeps ==
  ASSUME TypeOK, LongWrite, prep' = prep, log'.abandoned = log.abandoned,
         phone'.linked = phone.linked, phone'.long = phone.long,
         \/ events' = events
         \/ events # << >> /\ ~Part(Head(events)) /\ events' = Tail(events)
         \/ \E e \in Event : ~Part(e) /\ events' = Append(events, e)
  PROVE  LongWrite'
<1>1. ASSUME NEW e \in Event, Part(e)
      PROVE  Has(events', e) <=> Has(events, e)
  <2>1. events \in Seq(Event)
    BY DEF TypeOK
  <2>2. CASE events # << >> /\ ~Part(Head(events)) /\ events' = Tail(events)
    BY <1>1, <2>1, <2>2, TailParts
  <2>3. CASE \E f \in Event : ~Part(f) /\ events' = Append(events, f)
    <3>1. PICK f \in Event : ~Part(f) /\ events' = Append(events, f)
      BY <2>3
    <3> QED BY <1>1, <2>1, <3>1, AppendHas
  <2> QED BY <2>2, <2>3
<1>2. \A e \in Event : e.req.kind \in {"exec", "cancel"} \/ e.req.kind = "prepare" => Part(e)
  BY DEF Part
<1> QED BY <1>1, <1>2 DEF LongWrite

LEMMA LeavesLong ==
  ASSUME TypeOK, LongWrite, PhoneLeaves
  PROVE  LongWrite'
<1>1. /\ phone.linked /\ ~phone'.linked /\ phone'.long = 0 /\ phone.long \in Nat /\ prep' = prep
      /\ (~log'.abandoned => ~log.abandoned /\ phone.long = 0)
  BY DEF PhoneLeaves, TypeOK
<1>2. \A e \in Event : Part(e) => (Has(events', e) <=> Has(events, e))
  <2>1. Ev("disconnect") \in Event /\ ~Part(Ev("disconnect")) /\ events \in Seq(Event)
        /\ events' = Append(events, Ev("disconnect"))
    BY EventTypes DEF TypeOK, Part, Ev, PhoneLeaves
  <2> QED BY <2>1, AppendHas
<1>3. \A e \in Event : e.req.kind = "prepare" => Part(e) /\ e.req.offset \in Nat
  BY DEF Part, Event, Request, Completion
<1>4. ASSUME NEW e \in Event, Has(events', e), e.req.kind = "prepare", ~log'.abandoned
      PROVE  FALSE
  <2>1. phone.long = e.req.offset + 1
    BY <1>1, <1>2, <1>3, <1>4 DEF LongWrite
  <2> QED BY <1>1, <1>3, <1>4, <2>1
<1>5. ~log'.abandoned /\ (\A e \in Event : Has(events', e) => ~Part(e)) =>
        prep' = [buf |-> 1 .. phone'.long, len |-> phone'.long]
  BY <1>1, <1>2 DEF LongWrite
<1> QED BY <1>1, <1>4, <1>5 DEF LongWrite

LEMMA ConnectsLong ==
  ASSUME TypeOK, LongWrite, Turns, PhoneConnects
  PROVE  LongWrite'
<1>1. /\ ~phone.linked /\ phone.long = 0 /\ phone'.long = 0 /\ phone'.linked
      /\ prep' = prep /\ log' = log
  BY DEF PhoneConnects, LongWrite
<1>2. \A e \in Event : Part(e) => ~Has(events', e) /\ ~Has(events, e)
  <2>1. Ev("connect") \in Event /\ ~Part(Ev("connect")) /\ events \in Seq(Event)
        /\ events' = Append(events, Ev("connect"))
    BY EventTypes DEF TypeOK, Part, Ev, PhoneConnects
  <2>2. NoAsk(events)
    BY DEF PhoneConnects, Turns, Quiet
  <2> QED BY <2>1, <2>2, NoParts, AppendHas
<1>3. \A e \in Event : e.req.kind \in {"exec", "cancel"} \/ e.req.kind = "prepare" => Part(e)
  BY DEF Part
<1>4. ~log.abandoned => prep = [buf |-> 1 .. phone.long, len |-> phone.long]
  BY <1>2 DEF LongWrite
<1> QED BY <1>1, <1>2, <1>3, <1>4 DEF LongWrite

LEMMA AsksLong ==
  ASSUME GattAssumption, TypeOK, LongWrite, OneRequest, NEW r \in Request, PhoneAsks(r)
  PROVE  LongWrite'
<1> DEFINE e == [id |-> count.writes + 1, req |-> r]
<1>1. e \in Event /\ e.req = r
  BY AskedId
<1>2. events' = Append(events, e) /\ prep' = prep /\ log' = log /\ events \in Seq(Event)
  BY DEF PhoneAsks, TypeOK
<1>3. phone.linked /\ phone'.linked = phone.linked /\ phone.long \in Nat
  <2>1. phone.linked /\ phone.long \in Nat /\ phone \in [linked : BOOLEAN, waits : BOOLEAN, long : 0 .. MaxLong]
    BY DEF PhoneAsks, TypeOK
  <2>2. PICK w, n : phone' = [phone EXCEPT !.waits = w, !.long = n]
    BY DEF PhoneAsks
  <2> QED BY <2>1, <2>2
<1> HIDE DEF e
<1>4. \A f \in Event : Part(f) => ~Has(events, f)
  <2>1. NoAsk(events)
    BY <1>3 DEF OneRequest, PhoneAsks
  <2> QED BY <1>2, <2>1, NoParts
<1>5. CASE ~Part(e)
  <2>1. phone'.long = phone.long
    BY <1>1, <1>5 DEF PhoneAsks, TypeOK, Part
  <2> QED BY <1>1, <1>2, <1>3, <1>5, <2>1, OtherKeeps
<1>6. CASE Part(e)
  <2>1. \A f \in Event : Part(f) => (Has(events', f) <=> f = e)
    BY <1>1, <1>2, <1>4, AppendHas
  <2>2. \A f \in Event : f.req.kind \in {"exec", "cancel"} \/ f.req.kind = "prepare" => Part(f)
    BY DEF Part
  <2>3. r.kind \in {"exec", "cancel"} => phone'.long = 0
    BY DEF PhoneAsks, TypeOK
  <2>4. r.kind = "prepare" => r.offset = phone.long /\ phone'.long = r.offset + 1
    BY DEF PhoneAsks, TypeOK
  <2>5. ~log.abandoned => prep = [buf |-> 1 .. phone.long, len |-> phone.long]
    BY <1>4 DEF LongWrite
  <2>6. Has(events', e)
    BY <1>1, <1>6, <2>1
  <2> QED BY <1>1, <1>2, <1>3, <1>6, <2>1, <2>2, <2>3, <2>4, <2>5, <2>6 DEF LongWrite
<1> QED BY <1>5, <1>6

\* What was queued of the long write is handled: none is left.
LEMMA HeadPart ==
  ASSUME TypeOK, OneRequest, NEW kind \in {"prepare", "exec", "cancel"}, NextEvent(kind)
  PROVE  /\ Head(events) \in Event /\ Has(events, Head(events)) /\ Head(events).req.kind = kind
         /\ \A e \in Event : Part(e) => ~Has(events', e)
<1>1. /\ events \in Seq(Event) /\ events # << >> /\ events' = Tail(events)
      /\ Head(events) \in Event /\ Head(events).req.kind = kind /\ Asking(Head(events))
  BY HeadIs
<1>2. NoAsk(events') /\ events' \in Seq(Event)
  BY <1>1, TailAsk, HeadTailProperties DEF OneRequest
<1>3. Has(events, Head(events))
  BY <1>1, TailHas
<1> QED BY <1>1, <1>2, <1>3, NoParts

LEMMA PrepareLong ==
  ASSUME GattAssumption, TypeOK, LongWrite, OneRequest, Prepare
  PROVE  LongWrite'
<1> DEFINE offset == Head(events).req.offset
<1>1. /\ Head(events) \in Event /\ Has(events, Head(events)) /\ Head(events).req.kind = "prepare"
      /\ \A e \in Event : Part(e) => ~Has(events', e)
  BY HeadPart DEF Prepare
<1>2. offset \in 0 .. MaxLong - 1
  BY <1>1 DEF Event, Request, Completion
<1>3. offset \in Nat /\ offset = Handled.offset /\ phone.long \in Nat
  BY <1>2, GattAssumption DEF GattAssumption, Handled, TypeOK
<1>4. phone'.linked = phone.linked /\ log'.abandoned = log.abandoned
  <2>1. log \in Logs /\ phone \in Phones
    BY DEF TypeOK, Logs, Phones
  <2>2. log'.abandoned = log.abandoned
    BY <2>1, AnswerOnce DEF Prepare
  <2> QED BY <2>1, <2>2 DEF Prepare, Respond, Refuse, Phones
<1>5. \/ /\ phone'.long = phone.long
         /\ prep' = [buf |-> prep.buf \union {offset + 1}, len |-> prep.len + 1]
      \/ /\ phone'.long = IF phone.linked THEN offset ELSE phone.long
         /\ prep' = prep
  BY <1>3 DEF Prepare, Respond, Refuse, TypeOK
<1> HIDE DEF offset
<1>6. ASSUME ~log.abandoned
      PROVE  prep' = [buf |-> 1 .. phone'.long, len |-> phone'.long]
  <2>1. prep = [buf |-> 1 .. offset, len |-> offset] /\ phone.linked
    BY <1>1, <1>6 DEF LongWrite, offset
  <2>2. phone.long = offset + 1
    BY <1>1, <2>1 DEF LongWrite, offset
  <2>3. (1 .. offset) \union {offset + 1} = 1 .. (offset + 1)
    BY <1>3
  <2> QED BY <1>3, <1>5, <2>1, <2>2, <2>3
<1>7. \A e \in Event : e.req.kind \in {"exec", "cancel"} \/ e.req.kind = "prepare" => Part(e)
  BY DEF Part
<1>8. phone'.linked \/ phone'.long = 0
  BY <1>4, <1>5 DEF LongWrite
<1> QED BY <1>1, <1>4, <1>6, <1>7, <1>8 DEF LongWrite

LEMMA ExecuteLong ==
  ASSUME TypeOK, LongWrite, OneRequest, Execute
  PROVE  LongWrite'
<1>1. /\ Head(events) \in Event /\ Has(events, Head(events))
      /\ Head(events).req.kind \in {"exec", "cancel"}
      /\ \A e \in Event : Part(e) => ~Has(events', e)
  BY HeadPart DEF Execute
<1>2. phone'.linked = phone.linked /\ phone'.long = phone.long
  BY DEF Execute, Respond, TypeOK
<1>3. phone.long = 0
  BY <1>1 DEF LongWrite
<1>4. prep' = [buf |-> 1 .. 0, len |-> 0]
  <2>1. 1 .. 0 = {}
    OBVIOUS
  <2> QED BY <2>1 DEF Execute, NoPrep, NULL
<1>5. \A e \in Event : e.req.kind \in {"exec", "cancel"} \/ e.req.kind = "prepare" => Part(e)
  BY DEF Part
<1> QED BY <1>1, <1>2, <1>3, <1>4, <1>5 DEF LongWrite

LEMMA LongWriteStep ==
  ASSUME GattAssumption, TypeOK, Turns, OneRequest, LongWrite, [Next]_vars
  PROVE  LongWrite'
<1>1. CASE BluetoothInit
  BY <1>1, OtherKeeps DEF BluetoothInit
<1>2. CASE \E half \in {"gap", "gatts"} : StackCompletes(half)
  <2>1. PICK half \in {"gap", "gatts"} : StackCompletes(half)
    BY <1>2
  <2> DEFINE e == Ev(Head(jobs[half]))
  <2>2. e \in Event /\ ~Part(e)
    <3>1. Head(jobs[half]) \in Completion
      BY <2>1, HeadTailProperties DEF StackCompletes, TypeOK
    <3> QED BY <3>1, EventTypes DEF Part, Ev, Completion
  <2>3. events' = Append(events, e) /\ prep' = prep /\ log' = log /\ phone' = phone
    BY <2>1 DEF StackCompletes
  <2> QED BY <2>2, <2>3, OtherKeeps
<1>3. ASSUME NEW kind \in Completion \union {"connect", "disconnect", "read", "write"}, NextEvent(kind),
             prep' = prep, log'.abandoned = log.abandoned,
             phone'.linked = phone.linked, phone'.long = phone.long
      PROVE  LongWrite'
  <2>1. events # << >> /\ ~Part(Head(events)) /\ events' = Tail(events)
    BY <1>3 DEF NextEvent, Part, Completion
  <2> QED BY <1>3, <2>1, OtherKeeps
<1>4. CASE AdvSet("adv_set", "adv_config_flag") \/ AdvSet("scan_set", "scan_rsp_config_flag")
  BY <1>3, <1>4 DEF AdvSet, Completion
<1>5. CASE AdvStarted \/ Registered \/ Created \/ CharAdded \/ DescrAdded
  BY <1>3, <1>5 DEF AdvStarted, Registered, Created, CharAdded, DescrAdded, Completion
<1>6. CASE Connected \/ Disconnected
  BY <1>3, <1>6 DEF Connected, Disconnected
<1>7. CASE Read \/ Write
  <2>1. log'.abandoned = log.abandoned
    <3>1. log \in Logs /\ Told \in Logs /\ Told.abandoned = log.abandoned
      BY <1>7, ToldKeeps DEF Read, Write, NextEvent, TypeOK, Logs
    <3>2. log' \in {Told, WithAnswer(log), WithAnswer(Told)}
      BY <1>7 DEF Read, Write
    <3> QED BY <3>1, <3>2, AnswerOnce
  <2>2. phone'.linked = phone.linked /\ phone'.long = phone.long
    BY <1>7 DEF Read, Write, Respond, TypeOK
  <2> QED BY <1>3, <1>7, <2>1, <2>2 DEF Read, Write
<1>8. CASE Prepare
  BY <1>8, PrepareLong
<1>9. CASE Execute
  BY <1>9, ExecuteLong
<1>10. CASE PhoneConnects
  BY <1>10, ConnectsLong
<1>11. CASE PhoneLeaves
  BY <1>11, LeavesLong
<1>12. CASE \E r \in Request : PhoneAsks(r)
  BY <1>12, AsksLong
<1>13. CASE UNCHANGED vars
  BY <1>13, OtherKeeps DEF vars
<1> QED
  BY <1>1, <1>2, <1>4, <1>5, <1>6, <1>7, <1>8, <1>9, <1>10, <1>11, <1>12, <1>13 DEF Next, App

----------------------------------------------------------------------------
(* The inductive invariant and the theorems.                               *)

IInv ==
  /\ TypeOK /\ InOrder
  /\ Halves /\ Configuring /\ Turns /\ OneRequest
  /\ LongWrite

LEMMA InitTypes ==
  ASSUME GattAssumption, Init
  PROVE  TypeOK /\ InOrder /\ Halves
<1>1. init \in 0 .. Len(InitSteps)
  BY DEF Init, InitSteps
<1>2. jobs \in [{"gap", "gatts"} -> Seq(Completion)] /\ events \in Seq(Event)
      /\ log \in [answered : Seq(Nat), notified : Seq(Notice), abandoned : BOOLEAN]
  BY EmptySeq DEF Init
<1>3. count \in [writes : 0 .. MaxWrites, conns : 0 .. MaxConns, fails : 0 .. MaxFails]
      /\ phone \in [linked : BOOLEAN, waits : BOOLEAN, long : 0 .. MaxLong]
  BY DEF Init, GattAssumption
<1>4. flags \subseteq Flags /\ prep \in [buf : SUBSET Chunk, len : Nat]
      /\ handles \in [char : {NoHandle, CharHandle}, descr : {NoHandle, DescrHandle},
                      started : BOOLEAN, property : SUBSET Properties]
      /\ bluetooth_status \in {"CONNECT", "DISCONNECT"}
      /\ air \in [on : BOOLEAN, data : SUBSET Flags] /\ restarted \in BOOLEAN
  BY DEF Init, NoPrep, NULL
<1>5. InOrder
  <2>1. 1 .. Len(events) = {} /\ 1 .. Len(log.answered) = {}
    BY EmptySeq DEF Init
  <2> QED BY <2>1 DEF InOrder, Later, Known
<1>6. Halves
  BY EmptySeq DEF Init, Halves
<1> QED BY <1>1, <1>2, <1>3, <1>4, <1>5, <1>6 DEF TypeOK

LEMMA InitTurns ==
  ASSUME GattAssumption, Init
  PROVE  Configuring /\ Turns /\ OneRequest /\ LongWrite
<1>1. /\ jobs["gap"] = << >> /\ jobs["gatts"] = << >> /\ events = << >> /\ init = 1
      /\ ~air.on /\ ~phone.linked /\ phone.long = 0
  BY DEF Init
<1>2. Configuring
  BY <1>1, NoneHas DEF Configuring, Registering, Single, Pending
<1>3. Turns
  BY <1>1, NoneHas DEF Turns, Quiet, Leaving, Starting, Pending
<1>4. 1 .. Len(events) = {}
  BY <1>1, EmptySeq
<1>5. OneRequest
  BY <1>1, <1>4 DEF OneRequest, OneAsk, AskBefore
<1>6. prep = [buf |-> 1 .. phone.long, len |-> phone.long]
  <2>1. 1 .. 0 = {}
    OBVIOUS
  <2> QED BY <1>1, <2>1 DEF Init, NoPrep, NULL
<1>7. LongWrite
  BY <1>1, <1>6, NoneHas DEF LongWrite
<1> QED BY <1>2, <1>3, <1>5, <1>7

LEMMA Invariant == Spec => []IInv
<1>1. Init => IInv
  BY GattAssumption, InitTypes, InitTurns DEF IInv
<1>2. IInv /\ [Next]_vars => IInv'
  <2> SUFFICES ASSUME IInv, [Next]_vars PROVE IInv'
    OBVIOUS
  <2>1. TypeOK'
    BY GattAssumption, TypeStep DEF IInv
  <2>2. InOrder'
    BY <2>1, GattAssumption, InOrderStep DEF IInv
  <2>3. Halves'
    BY HalvesStep DEF IInv
  <2>4. Configuring'
    BY GattAssumption, ConfiguringStep DEF IInv
  <2>5. Turns' /\ OneRequest'
    BY <2>4, GattAssumption, TurnsStep DEF IInv
  <2>6. LongWrite'
    BY GattAssumption, LongWriteStep DEF IInv
  <2> QED BY <2>1, <2>2, <2>3, <2>4, <2>5, <2>6 DEF IInv
<1> QED BY <1>1, <1>2, PTL DEF Spec

\* Whatever the events and calls that fail, the state of gatts_profile_a_event_handler
\* and gap_event_handler keeps its types: no handle but those the stack gave
\* out, no request the stack did not queue.
THEOREM TypeCorrect == Spec => []TypeOK
<1>1. IInv => TypeOK
  BY DEF IInv
<1> QED BY <1>1, Invariant, PTL

\* The handlers of gatts_profile_a_event_handler, each of which answers for
\* itself, implement the channel ControlChannel specifies: a request is
\* answered at most once and never after a later one.
THEOREM ImplementsControlChannel == Spec => ImplementsChannel
<1>1. Init => Channel!Init
  BY ChannelInit
<1>2. IInv /\ IInv' /\ [Next]_vars => [Channel!Next]_<<sentBar, answeredBar>>
  BY GattAssumption, ChannelStep DEF IInv
<1> QED BY <1>1, <1>2, Invariant, PTL DEF Spec, ImplementsChannel, Channel!Spec, sentBar, answeredBar

\* example_write_event_env and example_exec_write_event_env keep the parts of
\* one long write and no other in a_prepare_write_env, unless a connection
\* broke during a long write: it is never mixed with another phone's.
THEOREM PreparedBelongsToOneWrite == Spec => []PreparedIsOneWrite
<1>1. IInv => PreparedIsOneWrite
  <2> SUFFICES ASSUME IInv, ~log.abandoned, ~RequestQueued
               PROVE  prep.len = phone.long /\ prep.buf = 1 .. phone.long
    BY DEF PreparedIsOneWrite
  <2>1. events \in Seq(Event) /\ DOMAIN events = 1 .. Len(events)
    BY DEF IInv, TypeOK
  <2>2. NoAsk(events)
    BY <2>1 DEF RequestQueued, NoAsk, Asking
  <2>3. \A e \in Event : Has(events, e) => ~Part(e)
    BY <2>1, <2>2, NoParts
  <2>4. prep = [buf |-> 1 .. phone.long, len |-> phone.long]
    BY <2>3 DEF IInv, LongWrite
  <2> QED BY <2>4
<1> QED BY <1>1, Invariant, PTL

=============================================================================
