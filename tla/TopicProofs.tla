----------------------------- MODULE TopicProofs -----------------------------
(* Theorems about Topic, proved for every value of its constants. *)
EXTENDS Topic, FiniteSetTheorems, TLAPS

-----------------------------------------------------------------------------
(* Time *)

(* Truncation to seconds yields a natural number and is monotone. *)
LEMMA UnixNat == \A t \in Nat : Unix(t) \in Nat
  BY ConfigAssumption DEF Unix

LEMMA UnixMonotone == \A s, t \in Nat : s <= t => Unix(s) <= Unix(t)
  BY ConfigAssumption DEF Unix

(* Whole seconds pass through the truncation. *)
LEMMA UnixShift ==
  \A t, k \in Nat : Unix(t + k * TicksPerSecond) = Unix(t) + k
  BY ConfigAssumption DEF Unix

(* The last second allowed is a natural number, never moves back as time    *)
(* goes on, and is within MaxTTL of the instant.                            *)
LEMMA LatestNat == \A t \in Nat : Latest(t) \in Nat
<1> SUFFICES ASSUME NEW t \in Nat PROVE Latest(t) \in Nat
  BY Zenon
<1>1. t + MaxTTL \in Nat /\ MaxTTL \in Nat
  BY ConfigAssumption
<1>2. Unix(t) \in Nat /\ Unix(MaxTTL) \in Nat /\ Unix(t + MaxTTL) \in Nat
  BY Zenon, <1>1, UnixNat
<1>3. QED
  BY <1>2 DEF Latest

LEMMA LatestMonotone == \A s, t \in Nat : s <= t => Latest(s) <= Latest(t)
<1> SUFFICES ASSUME NEW s \in Nat, NEW t \in Nat, s <= t PROVE Latest(s) <= Latest(t)
  BY Zenon
<1>1. s + MaxTTL \in Nat /\ t + MaxTTL \in Nat /\ s + MaxTTL <= t + MaxTTL /\ MaxTTL \in Nat
  BY ConfigAssumption
<1>2. Unix(s) <= Unix(t) /\ Unix(s + MaxTTL) <= Unix(t + MaxTTL)
  BY Zenon, <1>1, UnixMonotone
<1>3. Unix(s) \in Nat /\ Unix(t) \in Nat /\ Unix(MaxTTL) \in Nat
  BY Zenon, <1>1, UnixNat
<1>4. QED
  BY <1>2, <1>3 DEF Latest

LEMMA LatestWithin == \A t \in Nat : Latest(t) <= Unix(t + MaxTTL)
<1> SUFFICES ASSUME NEW t \in Nat PROVE Latest(t) <= Unix(t + MaxTTL)
  BY Zenon
<1> DEFINE k == Unix(MaxTTL)
<1>1. k \in Nat /\ MaxTTL \in Nat
  BY Zenon, UnixNat, ConfigAssumption
<1>2. k * TicksPerSecond <= MaxTTL
  BY ConfigAssumption DEF Unix
<1>3. Unix(t + k * TicksPerSecond) = Unix(t) + k
  BY Zenon, <1>1, UnixShift
<1> HIDE DEF k
<1>4. /\ t + k * TicksPerSecond \in Nat /\ t + MaxTTL \in Nat
      /\ t + k * TicksPerSecond <= t + MaxTTL
  BY <1>1, <1>2, ConfigAssumption
<1>5. Unix(t) + k <= Unix(t + MaxTTL)
  BY Zenon, <1>3, <1>4, UnixMonotone
<1>6. Unix(t + MaxTTL) \in Nat
  BY Zenon, <1>4, UnixNat
<1>7. QED
  BY <1>5, <1>6 DEF Latest, k

-----------------------------------------------------------------------------
(* Types *)

LEMMA NoMessageType == NoMessage \in Message
  BY Zenon, ConfigAssumption DEF NoMessage, Message

LEMMA ReturnedType ==
  ASSUME NEW op \in {"publish", "submit"}, NEW r \in Results
  PROVE  Returned(op, r) \in Call
  BY Zenon, NoMessageType DEF Returned, Call

LEMMA IDType == \A m \in Message : ID(m) \in Id
  BY Zenon DEF Message, Id, ID

LEMMA ResultTypes ==
  /\ \A b, now : NewMessagePayloadResult(b, now) \in Results
  /\ \A m, claim, now : ValidateResult(m, claim, now) \in Results
  BY Zenon DEF NewMessagePayloadResult, ValidateResult, Results

(* pruneSeen restricts the seen map. *)
LEMMA PruneSeenFacts ==
  ASSUME NEW now
  PROVE  /\ DOMAIN pruneSeen(now) \subseteq DOMAIN seen
         /\ \A id \in DOMAIN pruneSeen(now) : pruneSeen(now)[id] = seen[id]
         /\ \A id \in DOMAIN seen :
              id \notin DOMAIN pruneSeen(now) <=> now - seen[id] > DuplicateTTL
  BY Zenon DEF pruneSeen

(* What a receiver takes from a channel, and what it leaves there. *)
LEMMA TailFacts ==
  ASSUME NEW q \in Seq(Nat), q # <<>>
  PROVE  Tail(q) \in Seq(Nat) /\ Head(q) \in Nat /\ Len(Tail(q)) = Len(q) - 1
  OBVIOUS

(* validation steps keep the type of call *)
LEMMA ValidateType ==
  ASSUME TypeOK, NEW p \in Callers, NEW op \in {"publish", "submit"},
         NEW m \in Message, NEW claim, Validate(p, op, m, claim)
  PROVE  call' \in [Callers -> Call]
<1> DEFINE r == ValidateResult(m, claim, clock)
<1>1. r \in Results
  BY Zenon, ResultTypes
<1>2. Returned(op, r) \in Call
  BY Zenon, <1>1, ReturnedType
<1>3. Running("stamp", op, m, clock, 0) \in Call
  BY Zenon DEF Running, Call, TypeOK, Results
<1>4. QED
  BY Zenon, <1>2, <1>3 DEF Validate, TypeOK

(* Type correctness is preserved by every step of a call. *)
LEMMA CallStepType ==
  ASSUME TypeOK, NEW p \in Callers, CallStep(p)
  PROVE  TypeOK'
<1> USE DEF subVars
<1> call[p] \in Call
  BY Zenon DEF TypeOK
<1>1. ASSUME NEW b \in Bodies, Publish(p, b) PROVE TypeOK'
  <2> DEFINE r == NewMessagePayloadResult(b, clock)
  <2>1. Returned("publish", r) \in Call
    BY Zenon, ResultTypes, ReturnedType
  <2>2. ExpiresAt(clock) \in Nat
    <3>1. clock \in Nat
      BY Zenon DEF TypeOK
    <3>2. clock + DefaultTTL \in Nat
      BY <3>1, ConfigAssumption
    <3>3. QED
      BY Zenon, <3>2, UnixNat DEF ExpiresAt
  <2>3. Running("sign", "publish",
          [body |-> b, exp |-> ExpiresAt(clock), sig |-> FALSE], 0, 0) \in Call
    BY Zenon, <2>2 DEF Running, Call, Message, Results
  <2>4. call' \in [Callers -> Call]
    BY Zenon, <1>1, <2>1, <2>3 DEF Publish, TypeOK
  <2>5. QED
    BY <1>1, <2>4 DEF Publish, TypeOK
<1>2. ASSUME NEW m \in Wire, NEW claim \in Claims, SubmitSigned(p, m, claim)
      PROVE  TypeOK'
  <2>1. call' \in [Callers -> Call]
    BY Zenon, <1>2, WireAssumption, ValidateType DEF SubmitSigned
  <2>2. QED
    BY <1>2, <2>1 DEF SubmitSigned, TypeOK
<1>3. CASE SignFail(p)
  <2>1. Returned("publish", "sign") \in Call
    BY Zenon, ReturnedType DEF Results
  <2>2. QED
    BY Zenon, <1>3, <2>1 DEF SignFail, TypeOK
<1>4. ASSUME NEW sig \in BOOLEAN, SignReturn(p, sig) PROVE TypeOK'
  <2>1. [body |-> call[p].msg.body, exp |-> call[p].msg.exp, sig |-> sig]
          \in Message
    BY Zenon DEF Call, Message
  <2>2. call' \in [Callers -> Call]
    BY Zenon, <1>4, <2>1, ValidateType DEF SignReturn
  <2>3. QED
    BY Zenon, <1>4, <2>2 DEF SignReturn, TypeOK
<1>5. CASE Stamp(p)
  <2>1. Running("admit", call[p].op, call[p].msg, call[p].checked, clock) \in Call
    BY Zenon DEF Running, TypeOK, Call, Results
  <2>2. QED
    BY Zenon, <1>5, <2>1 DEF Stamp, TypeOK
<1>6. ASSUME NEW r \in Results, Return(p, r) PROVE call' \in [Callers -> Call]
  <2>1. Returned(call[p].op, r) \in Call
    BY Zenon, ReturnedType DEF Call
  <2>2. QED
    BY Zenon, <1>6, <2>1 DEF Return, TypeOK
<1>7. CASE AdmitClosed(p)
  BY Zenon, <1>6, <1>7 DEF AdmitClosed, TypeOK, Results
<1>8. CASE AdmitDuplicate(p) \/ AdmitFull(p)
  <2>1. call' \in [Callers -> Call]
    BY Zenon, <1>6, <1>8 DEF AdmitDuplicate, AdmitFull, Results
  <2>2. /\ seen' = pruneSeen(call[p].stamp)
        /\ queue' = pruneQueue(call[p].stamp)
        /\ UNCHANGED <<clock, closed, subVars, calls, log>>
    BY Zenon, <1>8 DEF AdmitDuplicate, AdmitFull
  <2>3. DOMAIN seen' \subseteq Id /\ seen' \in [DOMAIN seen' -> Nat]
    BY Zenon, <2>2 DEF TypeOK, pruneSeen
  <2>4. queue' \subseteq 1..Len(log')
    BY Zenon, <2>2 DEF TypeOK, pruneQueue
  <2>5. QED
    BY Zenon, <2>1, <2>2, <2>3, <2>4 DEF TypeOK
<1>9. CASE AdmitAccept(p)
  <2> DEFINE c == call[p]
             n == Len(log) + 1
             e == [msg |-> c.msg, checked |-> c.checked,
                   stamp |-> c.stamp, at |-> clock]
  <2>1. call' \in [Callers -> Call]
    BY Zenon, <1>6, <1>9 DEF AdmitAccept, Results
  <2>2. ID(c.msg) \in Id
    BY Zenon, IDType DEF Call
  <2>3. DOMAIN seen' \subseteq Id /\ seen' \in [DOMAIN seen' -> Nat]
    <3>1. seen' = recordSeen(pruneSeen(c.stamp), ID(c.msg), c.stamp)
      BY Zenon, <1>9 DEF AdmitAccept
    <3>2. DOMAIN pruneSeen(c.stamp) \subseteq Id
      BY Zenon, PruneSeenFacts DEF TypeOK
    <3>3. \A id \in DOMAIN pruneSeen(c.stamp) : pruneSeen(c.stamp)[id] \in Nat
      BY Zenon, PruneSeenFacts DEF TypeOK
    <3>4. c.stamp \in Nat
      BY Zenon DEF Call
    <3>5. QED
      BY Zenon, <2>2, <3>1, <3>2, <3>3, <3>4 DEF recordSeen
  <2>4. e \in Entry
    BY Zenon DEF Entry, Call, TypeOK
  <2>5. log' = Append(log, e)
    BY Zenon, <1>9 DEF AdmitAccept
  <2>6. log' \in Seq(Entry) /\ Len(log') = n
    BY <2>4, <2>5 DEF TypeOK
  <2>7. queue' \subseteq 1..Len(log')
    BY <1>9, <2>6 DEF AdmitAccept, pruneQueue, TypeOK
  <2>8. /\ buf' \in [Subs -> Seq(Nat)]
        /\ \A s \in Subs : Len(buf'[s]) <= SubscriberBuffer
    <3>1. fanout(n) /\ n \in Nat
      BY <1>9 DEF AdmitAccept, TypeOK
    <3> HIDE DEF n
    <3>2. ASSUME NEW s \in Subs, Len(buf[s]) < SubscriberBuffer
          PROVE  /\ Append(buf[s], n) \in Seq(Nat)
                 /\ Len(Append(buf[s], n)) <= SubscriberBuffer
      BY <3>1, <3>2, ConfigAssumption DEF TypeOK
    <3>3. QED
      BY Zenon, <3>1, <3>2 DEF fanout, TypeOK
  <2>9. QED
    BY Zenon, <1>9, <2>1, <2>3, <2>6, <2>7, <2>8 DEF AdmitAccept, TypeOK
<1>10. QED
  BY Zenon, <1>1, <1>2, <1>3, <1>4, <1>5, <1>7, <1>8, <1>9 DEF CallStep

(* ... and by every step of a subscription. *)
LEMMA SubStepType ==
  ASSUME TypeOK, NEW s \in Subs, SubStep(s)
  PROVE  TypeOK'
<1>1. ASSUME NEW S \in SUBSET Subs, closeChannels(S)
      PROVE  /\ open' \in [Subs -> BOOLEAN] /\ panicked' \in BOOLEAN
             /\ UNCHANGED <<buf, last>>
  BY Zenon, <1>1 DEF closeChannels, TypeOK
<1>2. CASE Subscribe(s)
  <2>1. /\ open' \in [Subs -> BOOLEAN] /\ panicked' \in BOOLEAN
        /\ UNCHANGED <<buf, last>>
    BY Zenon, <1>1, <1>2 DEF Subscribe, TypeOK
  <2>2. QED
    BY <1>2, <2>1, Zenon DEF Subscribe, TypeOK
<1>3. CASE CloseSubscription(s)
  BY Zenon, <1>3 DEF CloseSubscription, TypeOK
<1>4. CASE unsubscribe(s)
  <2>1. /\ open' \in [Subs -> BOOLEAN] /\ panicked' \in BOOLEAN
        /\ UNCHANGED <<buf, last>>
    BY Zenon, <1>1, <1>4 DEF unsubscribe
  <2>2. QED
    BY <1>4, <2>1, Zenon DEF unsubscribe, TypeOK
<1>5. CASE Receive(s)
  <2>1. /\ Tail(buf[s]) \in Seq(Nat) /\ Head(buf[s]) \in Nat
        /\ Len(Tail(buf[s])) <= SubscriberBuffer
    <3>1. /\ buf[s] \in Seq(Nat) /\ buf[s] # <<>>
          /\ Len(buf[s]) <= SubscriberBuffer
      BY Zenon, <1>5 DEF Receive, TypeOK
    <3>2. QED
      BY <3>1, TailFacts, ConfigAssumption
  <2>2. QED
    BY Zenon, <1>5, <2>1 DEF Receive, TypeOK
<1>6. QED
  BY Zenon, <1>2, <1>3, <1>4, <1>5 DEF SubStep

LEMMA NextType == TypeOK /\ [Next]_vars => TypeOK'
<1> SUFFICES ASSUME TypeOK, [Next]_vars PROVE TypeOK'
  BY Zenon
<1>1. CASE Tick
  BY <1>1 DEF Tick, subVars, TypeOK
<1>2. CASE ReadQueue
  BY Zenon, <1>2 DEF ReadQueue, pruneQueue, subVars, TypeOK
<1>3. CASE close
  BY Zenon, <1>3 DEF close, closeChannels, TypeOK
<1>4. CASE UNCHANGED vars
  BY Zenon, <1>4 DEF vars, TypeOK
<1>5. QED
  BY Zenon, <1>1, <1>2, <1>3, <1>4, CallStepType, SubStepType DEF Next

(* Type correctness of a topic, channel capacities included. *)
THEOREM TopicTypeOK == Spec => []TypeOK
<1>1. Init => TypeOK
  <2> SUFFICES ASSUME Init PROVE TypeOK
    BY Zenon
  <2>1. call \in [Callers -> Call]
    <3>1. Returned("submit", "none") \in Call
      BY Zenon, ReturnedType DEF Results
    <3>2. QED
      BY Zenon, <3>1 DEF Init
  <2>2. DOMAIN seen = {} /\ seen \in [DOMAIN seen -> Nat]
    BY Zenon DEF Init
  <2>3. /\ buf \in [Subs -> Seq(Nat)]
        /\ \A s \in Subs : Len(buf[s]) <= SubscriberBuffer
    BY ConfigAssumption DEF Init
  <2>4. /\ clock \in Nat /\ closed \in BOOLEAN /\ log \in Seq(Entry)
        /\ subscribers \subseteq Subs /\ calls \in Nat /\ panicked \in BOOLEAN
    <3>1. log = <<>> /\ clock = 0 /\ calls = 0
      BY Zenon DEF Init
    <3>2. closed \in BOOLEAN /\ subscribers \subseteq Subs /\ panicked \in BOOLEAN
      BY Zenon DEF Init
    <3>3. QED
      BY <3>1, <3>2
  <2>5. /\ open \in [Subs -> BOOLEAN] /\ last \in [Subs -> Nat]
        /\ sub \in [Subs -> {"none", "active", "closing", "closed"}]
    BY Zenon DEF Init
  <2>6. queue \subseteq 1..Len(log)
    BY Zenon DEF Init
  <2>7. QED
    BY Zenon, <2>1, <2>2, <2>3, <2>4, <2>5, <2>6 DEF TypeOK
<1>2. QED
  BY <1>1, NextType, PTL DEF Spec
-----------------------------------------------------------------------------
(* The inductive invariant *)

(* Clock readings: a call and an accepted message were validated, stamped   *)
(* and admitted in that order, and were not too far in the future when they *)
(* were validated.                                                          *)
NotTooFar(m, checked) == TTLDisabled \/ ~TooFar(m, checked)
CallReadings(c, now) ==
  /\ c.pc \in {"stamp", "admit"} => c.checked <= now /\ NotTooFar(c.msg, c.checked)
  /\ c.pc = "admit" => c.checked <= c.stamp /\ c.stamp <= now
EntryReadings(e, now) ==
  /\ e.checked <= e.stamp /\ e.stamp <= e.at /\ e.at <= now
  /\ NotTooFar(e.msg, e.checked)
ReadingsOrdered ==
  /\ \A p \in Callers : CallReadings(call[p], clock)
  /\ \A i \in 1..Len(log) : EntryReadings(log[i], clock)

(* An accepted ID is in the seen map, with the reading it was accepted      *)
(* with, until the real clock is past its window.                           *)
SeenUntilWindowPasses ==
  \A i \in 1..Len(log) :
    \/ clock - log[i].stamp > DuplicateTTL
    \/ /\ ID(log[i].msg) \in DOMAIN seen
       /\ seen[ID(log[i].msg)] = log[i].stamp

(* With a window longer than every lifetime, queued messages are seen. *)
LongWindow == ~TTLDisabled /\ DuplicateTTL >= MaxTTL + TicksPerSecond
QueuedAreSeen ==
  LongWindow =>
    \A i \in queue : /\ ID(log[i].msg) \in DOMAIN seen
                     /\ seen[ID(log[i].msg)] = log[i].stamp

(* The subscribers map holds open channels only, and a subscription that    *)
(* does not exist yet has a fresh one.                                      *)
SubscribersOpen ==
  /\ \A s \in subscribers : open[s] /\ sub[s] \in {"active", "closing"}
  /\ \A s \in Subs : sub[s] = "none" => open[s]
  /\ closed => subscribers = {}
-----------------------------------------------------------------------------
(* What a step of a call leaves alone *)

LEMMA CallStepFrame ==
  ASSUME TypeOK, NEW p \in Callers, CallStep(p)
  PROVE  /\ UNCHANGED <<clock, closed, subscribers, open, last, sub>>
         /\ \A q \in Callers : q # p => call'[q] = call[q]
         /\ ~AdmitAccept(p) => UNCHANGED <<log, buf, panicked>>
         /\ AdmitAccept(p) \/ AdmitDuplicate(p) \/ AdmitFull(p)
              \/ UNCHANGED <<queue, seen>>
<1> USE DEF subVars, TypeOK
<1>1. ASSUME NEW b \in Bodies, Publish(p, b)
      PROVE  /\ UNCHANGED <<clock, closed, queue, seen, subVars, log>>
             /\ \A q \in Callers : q # p => call'[q] = call[q]
  BY Zenon, <1>1 DEF Publish
<1>2. ASSUME NEW m \in Wire, NEW claim \in Claims, SubmitSigned(p, m, claim)
      PROVE  /\ UNCHANGED <<clock, closed, queue, seen, subVars, log>>
             /\ \A q \in Callers : q # p => call'[q] = call[q]
  BY Zenon, <1>2 DEF SubmitSigned, Validate
<1>3. ASSUME NEW sig \in BOOLEAN, SignReturn(p, sig)
      PROVE  /\ UNCHANGED <<clock, closed, queue, seen, subVars, log>>
             /\ \A q \in Callers : q # p => call'[q] = call[q]
  BY Zenon, <1>3 DEF SignReturn, Validate
<1>4. ASSUME SignFail(p) \/ Stamp(p) \/ AdmitClosed(p)
      PROVE  /\ UNCHANGED <<clock, closed, queue, seen, subVars, log>>
             /\ \A q \in Callers : q # p => call'[q] = call[q]
  BY Zenon, <1>4 DEF SignFail, Stamp, AdmitClosed, Return
<1>5. ASSUME AdmitDuplicate(p) \/ AdmitFull(p)
      PROVE  /\ UNCHANGED <<clock, closed, subVars, log>>
             /\ \A q \in Callers : q # p => call'[q] = call[q]
  BY Zenon, <1>5 DEF AdmitDuplicate, AdmitFull, Return
<1>6. ASSUME AdmitAccept(p)
      PROVE  /\ UNCHANGED <<clock, closed, subscribers, open, last, sub>>
             /\ \A q \in Callers : q # p => call'[q] = call[q]
  BY Zenon, <1>6 DEF AdmitAccept, Return
<1>7. QED
  BY Zenon, <1>1, <1>2, <1>3, <1>4, <1>5, <1>6 DEF CallStep
-----------------------------------------------------------------------------
(* Channels: no send on and no close of a closed channel *)

LEMMA SubscribersOpenStep ==
  ASSUME TypeOK, SubscribersOpen, NoPanic, [Next]_vars
  PROVE  SubscribersOpen' /\ NoPanic'
<1> USE DEF SubscribersOpen, NoPanic
<1>1. CASE Tick
  BY Zenon, <1>1 DEF Tick, subVars
<1>2. CASE ReadQueue
  BY Zenon, <1>2 DEF ReadQueue, subVars
<1>3. CASE close
  BY <1>3, Zenon DEF close, closeChannels, TypeOK
<1>4. ASSUME NEW p \in Callers, CallStep(p) PROVE SubscribersOpen' /\ NoPanic'
  <2>1. UNCHANGED <<closed, subscribers, open, sub>>
    BY Zenon, <1>4, CallStepFrame
  <2>2. CASE AdmitAccept(p)
    <3>1. panicked' = (panicked \/ \E t \in subscribers : ~open[t])
      BY Zenon, <2>2 DEF AdmitAccept
    <3>2. ~panicked'
      BY <3>1, Zenon
    <3>3. QED
      BY Zenon, <2>1, <3>2
  <2>3. CASE ~AdmitAccept(p)
    <3>1. UNCHANGED panicked
      BY Zenon, <1>4, <2>3, CallStepFrame
    <3>2. QED
      BY Zenon, <2>1, <3>1
  <2>4. QED
    BY Zenon, <2>2, <2>3
<1>5. ASSUME NEW s \in Subs, SubStep(s) PROVE SubscribersOpen' /\ NoPanic'
  <2>1. CASE Subscribe(s)
    <3>1. CASE closed
      <4>1. NoPanic'
        BY <2>1, <3>1, Zenon DEF Subscribe, closeChannels, TypeOK
      <4>2. SubscribersOpen'
        BY <2>1, <3>1, Zenon DEF Subscribe, closeChannels, TypeOK
      <4>3. QED
        BY Zenon, <4>1, <4>2
    <3>2. CASE ~closed
      BY <2>1, <3>2 DEF Subscribe, TypeOK
    <3>3. QED
      BY Zenon, <3>1, <3>2
  <2>2. CASE CloseSubscription(s)
    BY Zenon, <2>2 DEF CloseSubscription, TypeOK
  <2>3. CASE unsubscribe(s)
    <3>1. NoPanic'
      BY Zenon, <2>3 DEF unsubscribe, closeChannels, TypeOK
    <3>2. SubscribersOpen'
      BY Zenon, <2>3 DEF unsubscribe, closeChannels, TypeOK
    <3>3. QED
      BY Zenon, <3>1, <3>2
  <2>4. CASE Receive(s)
    BY Zenon, <2>4 DEF Receive
  <2>5. QED
    BY Zenon, <1>5, <2>1, <2>2, <2>3, <2>4 DEF SubStep
<1>6. CASE UNCHANGED vars
  BY Zenon, <1>6 DEF vars
<1>7. QED
  BY Zenon, <1>1, <1>2, <1>3, <1>4, <1>5, <1>6 DEF Next

(* No interleaving of submissions, subscriptions and shutdown closes a      *)
(* closed channel or sends on one.                                          *)
THEOREM TopicNoPanic == Spec => []NoPanic
<1>1. Init => SubscribersOpen /\ NoPanic
  BY Zenon DEF Init, SubscribersOpen, NoPanic
<1>2. TypeOK /\ SubscribersOpen /\ NoPanic /\ [Next]_vars
        => SubscribersOpen' /\ NoPanic'
  BY Zenon, SubscribersOpenStep
<1>3. QED
  BY <1>1, <1>2, TopicTypeOK, PTL DEF Spec
-----------------------------------------------------------------------------
(* Clock readings *)

LEMMA ReadingsMonotone ==
  ASSUME NEW m \in Nat, NEW n \in Nat, m <= n
  PROVE  /\ \A c \in Call : CallReadings(c, m) => CallReadings(c, n)
         /\ \A e \in Entry : EntryReadings(e, m) => EntryReadings(e, n)
  BY DEF CallReadings, EntryReadings, Call, Entry

LEMMA LogTypes ==
  ASSUME TypeOK
  PROVE  /\ clock \in Nat /\ Len(log) \in Nat
         /\ \A i \in 1..Len(log) : /\ log[i].stamp \in Nat
                                  /\ log[i].checked \in Nat /\ log[i].at \in Nat
<1>1. clock \in Nat /\ Len(log) \in Nat /\ \A i \in 1..Len(log) : log[i] \in Entry
  BY DEF TypeOK
<1>2. QED
  BY Zenon, <1>1 DEF Entry

(* An accepted message: the log grows by one entry, built from the call. *)
LEMMA AcceptedEntry ==
  ASSUME TypeOK, NEW p \in Callers, AdmitAccept(p)
  PROVE  /\ log' \in Seq(Entry) /\ Len(log') = Len(log) + 1
         /\ \A i \in 1..Len(log) : log'[i] = log[i]
         /\ log'[Len(log) + 1] = [msg |-> call[p].msg, checked |-> call[p].checked,
                                  stamp |-> call[p].stamp, at |-> clock]
         /\ call[p] \in Call /\ call[p].pc = "admit"
<1> DEFINE e == [msg |-> call[p].msg, checked |-> call[p].checked,
                 stamp |-> call[p].stamp, at |-> clock]
<1>1. call[p] \in Call /\ call[p].pc = "admit"
  BY Zenon DEF AdmitAccept, mayAdmit, TypeOK
<1>2. e \in Entry
  BY Zenon, <1>1 DEF Entry, Call, TypeOK
<1>3. log' = Append(log, e)
  BY Zenon DEF AdmitAccept
<1>4. log \in Seq(Entry)
  BY Zenon DEF TypeOK
<1> HIDE DEF e
<1>5. /\ log' \in Seq(Entry) /\ Len(log') = Len(log) + 1
      /\ \A i \in 1..Len(log) : log'[i] = log[i]
      /\ log'[Len(log) + 1] = e
  BY <1>2, <1>3, <1>4
<1>6. QED
  BY Zenon, <1>1, <1>5 DEF e

(* The call a step of p leaves p in. *)
LEMMA CallStepReadings ==
  ASSUME TypeOK, ReadingsOrdered, NEW p \in Callers, CallStep(p)
  PROVE  CallReadings(call'[p], clock)
<1> USE DEF TypeOK
<1>0. call[p] \in Call /\ CallReadings(call[p], clock)
  BY Zenon DEF ReadingsOrdered
<1>1. ASSUME NEW op, NEW r PROVE CallReadings(Returned(op, r), clock)
  BY Zenon DEF CallReadings, Returned
<1>2. ASSUME NEW op, NEW m \in Message, NEW claim, Validate(p, op, m, claim)
      PROVE  CallReadings(call'[p], clock)
  <2>1. CASE ValidateResult(m, claim, clock) = "ok"
    <3>1. call'[p] = Running("stamp", op, m, clock, 0)
      BY Zenon, <1>2, <2>1 DEF Validate
    <3>2. NotTooFar(m, clock)
      BY Zenon, <2>1 DEF ValidateResult, NotTooFar
    <3>3. QED
      BY <3>1, <3>2 DEF CallReadings, Running
  <2>2. CASE ValidateResult(m, claim, clock) # "ok"
    <3>1. call'[p] = Returned(op, ValidateResult(m, claim, clock))
      BY Zenon, <1>2, <2>2 DEF Validate
    <3>2. QED
      BY Zenon, <1>1, <3>1
  <2>3. QED
    BY Zenon, <2>1, <2>2
<1>3. ASSUME NEW b \in Bodies, Publish(p, b) PROVE CallReadings(call'[p], clock)
  BY Zenon, <1>3 DEF Publish, CallReadings, Returned, Running
<1>4. ASSUME NEW m \in Wire, NEW claim \in Claims, SubmitSigned(p, m, claim)
      PROVE  CallReadings(call'[p], clock)
  BY Zenon, <1>2, <1>4, WireAssumption DEF SubmitSigned
<1>5. ASSUME NEW sig \in BOOLEAN, SignReturn(p, sig)
      PROVE  CallReadings(call'[p], clock)
  <2>1. [body |-> call[p].msg.body, exp |-> call[p].msg.exp, sig |-> sig]
          \in Message
    BY Zenon, <1>0 DEF Call, Message
  <2>2. QED
    BY Zenon, <1>2, <1>5, <2>1 DEF SignReturn
<1>6. CASE Stamp(p)
  <2>1. call'[p] = Running("admit", call[p].op, call[p].msg, call[p].checked, clock)
    BY Zenon, <1>6 DEF Stamp
  <2>2. call[p].pc = "stamp"
    BY Zenon, <1>6 DEF Stamp
  <2>3. QED
    BY <1>0, <2>1, <2>2 DEF CallReadings, Running
<1>7. ASSUME NEW op, NEW r, call' = [call EXCEPT ![p] = Returned(op, r)]
      PROVE  CallReadings(call'[p], clock)
  BY Zenon, <1>1, <1>7
<1>8. QED
  BY Zenon, <1>3, <1>4, <1>5, <1>6, <1>7 DEF CallStep, SignFail, AdmitClosed,
     AdmitDuplicate, AdmitFull, AdmitAccept, Return

LEMMA ReadingsStep ==
  ASSUME TypeOK, ReadingsOrdered, [Next]_vars
  PROVE  ReadingsOrdered'
<1>1. ASSUME clock' \in Nat, clock <= clock', UNCHANGED <<call, log>>
      PROVE  ReadingsOrdered'
  BY <1>1, ReadingsMonotone DEF ReadingsOrdered, TypeOK
<1>2. CASE Tick
  BY <1>1, <1>2 DEF Tick, TypeOK
<1>3. CASE ReadQueue \/ close \/ UNCHANGED vars
  BY <1>1, <1>3 DEF ReadQueue, close, vars, TypeOK
<1>4. ASSUME NEW s \in Subs, SubStep(s) PROVE ReadingsOrdered'
  BY <1>1, <1>4 DEF SubStep, Subscribe, CloseSubscription, unsubscribe, Receive,
     TypeOK
<1>5. ASSUME NEW p \in Callers, CallStep(p) PROVE ReadingsOrdered'
  <2>1. clock' = clock /\ \A q \in Callers : q # p => call'[q] = call[q]
    BY Zenon, <1>5, CallStepFrame
  <2>2. \A q \in Callers : CallReadings(call'[q], clock')
    BY Zenon, <1>5, <2>1, CallStepReadings DEF ReadingsOrdered
  <2>3. \A i \in 1..Len(log') : EntryReadings(log'[i], clock')
    <3>1. CASE AdmitAccept(p)
      <4>1. ASSUME NEW i \in 1..Len(log) PROVE EntryReadings(log'[i], clock)
        BY <3>1, AcceptedEntry, Zenon DEF ReadingsOrdered
      <4>2. EntryReadings(log'[Len(log) + 1], clock)
        <5>1. CallReadings(call[p], clock)
          BY Zenon DEF ReadingsOrdered
        <5>2. call[p] \in Call /\ call[p].pc = "admit"
          BY <3>1, AcceptedEntry, Zenon
        <5>3. log'[Len(log) + 1] = [msg |-> call[p].msg, checked |-> call[p].checked,
                                    stamp |-> call[p].stamp, at |-> clock]
          BY Zenon, <3>1, AcceptedEntry
        <5>4. clock \in Nat
          BY Zenon DEF TypeOK
        <5>5. QED
          BY <5>1, <5>2, <5>3, <5>4 DEF CallReadings, EntryReadings, Call
      <4>3. Len(log') = Len(log) + 1 /\ Len(log) \in Nat
        <5>1. Len(log) \in Nat
          BY DEF TypeOK
        <5>2. QED
          BY <3>1, <5>1, AcceptedEntry, Zenon
      <4>4. QED
        BY <2>1, <4>1, <4>2, <4>3
    <3>2. CASE ~AdmitAccept(p)
      BY Zenon, <1>5, <2>1, <3>2, CallStepFrame DEF ReadingsOrdered
    <3>3. QED
      BY Zenon, <3>1, <3>2
  <2>4. QED
    BY Zenon, <2>2, <2>3 DEF ReadingsOrdered
<1>6. QED
  BY Zenon, <1>2, <1>3, <1>4, <1>5 DEF Next

(* A call and an accepted message carry their clock readings in order. *)
THEOREM TopicReadingsOrdered == Spec => []ReadingsOrdered
<1>1. Init => ReadingsOrdered
  <2> SUFFICES ASSUME Init PROVE ReadingsOrdered
    BY Zenon
  <2>1. 1..Len(log) = {}
    BY DEF Init
  <2>2. \A p \in Callers : call[p].pc = "idle"
    BY Zenon DEF Init, Returned
  <2>3. QED
    BY Zenon, <2>1, <2>2 DEF ReadingsOrdered, CallReadings
<1>2. TypeOK /\ ReadingsOrdered /\ [Next]_vars => ReadingsOrdered'
  BY Zenon, ReadingsStep
<1>3. QED
  BY <1>1, <1>2, TopicTypeOK, PTL DEF Spec
-----------------------------------------------------------------------------
(* Duplicate suppression *)

(* What SeenUntilWindowPasses says of one accepted message. *)
RememberedIn(s, e) ==
  clock - e.stamp > DuplicateTTL \/ (ID(e.msg) \in DOMAIN s /\ s[ID(e.msg)] = e.stamp)

(* Pruning with a reading that is not ahead of the clock forgets no ID      *)
(* whose window is still open.                                              *)
LEMMA PruneSeenWindow ==
  ASSUME TypeOK, SeenUntilWindowPasses, NEW now \in Nat, now <= clock,
         NEW i \in 1..Len(log)
  PROVE  RememberedIn(pruneSeen(now), log[i])
<1> DEFINE id == ID(log[i].msg)
<1>1. log[i] \in Entry /\ clock \in Nat
  BY DEF TypeOK
<1>2. RememberedIn(seen, log[i])
  BY Zenon DEF SeenUntilWindowPasses, RememberedIn
<1>3. CASE id \in DOMAIN seen /\ seen[id] = log[i].stamp
  <2>1. CASE id \in DOMAIN pruneSeen(now)
    BY Zenon, <1>3, <2>1, PruneSeenFacts DEF RememberedIn
  <2>2. CASE id \notin DOMAIN pruneSeen(now)
    <3>1. now - log[i].stamp > DuplicateTTL
      BY Zenon, <1>3, <2>2, PruneSeenFacts
    <3>2. QED
      BY <1>1, <3>1, ConfigAssumption DEF RememberedIn, Entry
  <2>3. QED
    BY Zenon, <2>1, <2>2
<1>4. QED
  BY Zenon, <1>2, <1>3 DEF RememberedIn

(* With a long window, what pruneQueue keeps pruneSeen keeps as well: an ID *)
(* is forgotten only after the message has expired.                         *)
LEMMA PruneQueueSeen ==
  ASSUME TypeOK, ReadingsOrdered, QueuedAreSeen, LongWindow,
         NEW now \in Nat, NEW i \in pruneQueue(now)
  PROVE  /\ ID(log[i].msg) \in DOMAIN pruneSeen(now)
         /\ pruneSeen(now)[ID(log[i].msg)] = log[i].stamp
<1> DEFINE id == ID(log[i].msg)
           e == log[i]
<1>1. i \in queue /\ i \in 1..Len(log) /\ ~TTLDisabled /\ ~Expired(e.msg, now)
  BY Zenon DEF pruneQueue, validateMessageTTL, LongWindow, TypeOK
<1>2. e \in Entry /\ EntryReadings(e, clock)
  BY <1>1 DEF TypeOK, ReadingsOrdered
<1>3. id \in DOMAIN seen /\ seen[id] = e.stamp
  BY Zenon, <1>1 DEF QueuedAreSeen
<1> HIDE DEF e
<1>4. e.stamp \in Nat /\ e.checked \in Nat /\ e.msg.exp \in Nat
  BY Zenon, <1>2 DEF Entry, Message
<1>5. e.checked <= e.stamp /\ e.msg.exp <= Latest(e.checked)
  <2>1. e.checked <= e.stamp /\ ~(e.msg.exp > Latest(e.checked))
    BY Zenon, <1>1, <1>2 DEF EntryReadings, NotTooFar, TooFar
  <2>2. Latest(e.checked) \in Nat
    BY Zenon, <1>4, LatestNat
  <2>3. QED
    BY <1>4, <2>1, <2>2
<1>6. e.msg.exp >= Unix(now)
  <2>1. ~(e.msg.exp < Unix(now))
    BY Zenon, <1>1 DEF Expired
  <2>2. Unix(now) \in Nat
    BY Zenon, UnixNat
  <2>3. QED
    BY <1>4, <2>1, <2>2
<1>7. ~(now - e.stamp > DuplicateTTL)
  <2> SUFFICES ASSUME now - e.stamp > DuplicateTTL PROVE FALSE
    BY Zenon
  <2> DEFINE u == e.stamp + MaxTTL
  <2>1. u \in Nat /\ u + TicksPerSecond \in Nat /\ u + TicksPerSecond <= now
    BY <1>4, ConfigAssumption DEF LongWindow
  <2>2. Unix(u + TicksPerSecond) = Unix(u) + 1
    <3>1. Unix(u + 1 * TicksPerSecond) = Unix(u) + 1
      BY Zenon, <2>1, UnixShift
    <3>2. 1 * TicksPerSecond = TicksPerSecond
      BY ConfigAssumption
    <3>3. QED
      BY Zenon, <3>1, <3>2
  <2>3. Unix(u) + 1 <= Unix(now)
    BY Zenon, <2>1, <2>2, UnixMonotone
  <2>4. Latest(e.checked) <= Latest(e.stamp) /\ Latest(e.stamp) <= Unix(u)
    BY Zenon, <1>4, <1>5, LatestMonotone, LatestWithin
  <2>5. /\ Latest(e.checked) \in Nat /\ Latest(e.stamp) \in Nat
        /\ Unix(u) \in Nat /\ Unix(now) \in Nat
    BY Zenon, <1>4, <2>1, LatestNat, UnixNat
  <2> HIDE DEF u
  <2>6. QED
    BY <1>4, <1>5, <1>6, <2>3, <2>4, <2>5
<1>8. id \in DOMAIN pruneSeen(now)
  BY Zenon, <1>3, <1>7, PruneSeenFacts DEF e
<1>9. QED
  BY Zenon, <1>3, <1>8, PruneSeenFacts DEF e
(* Every step accepts a message, prunes in a rejected submission, or leaves *)
(* the log and the seen map alone and at most shrinks the queue.            *)
Rejects(p) == AdmitDuplicate(p) \/ AdmitFull(p)
Quiet == /\ UNCHANGED <<log, seen>> /\ queue' \subseteq queue
         /\ clock' \in Nat /\ clock <= clock'

LEMMA StepKinds ==
  ASSUME TypeOK, [Next]_vars
  PROVE  \/ Quiet
         \/ \E p \in Callers : AdmitAccept(p) \/ Rejects(p)
<1>1. CASE Tick
  BY <1>1 DEF Tick, Quiet, TypeOK
<1>2. CASE ReadQueue \/ close \/ UNCHANGED vars
  BY <1>2 DEF ReadQueue, pruneQueue, close, vars, Quiet, TypeOK
<1>3. ASSUME NEW s \in Subs, SubStep(s) PROVE Quiet
  BY <1>3 DEF SubStep, Subscribe, CloseSubscription, unsubscribe, Receive, Quiet,
     TypeOK
<1>4. ASSUME NEW p \in Callers, CallStep(p), ~AdmitAccept(p), ~Rejects(p)
      PROVE  Quiet
  <2>1. UNCHANGED <<clock, log, queue, seen>>
    BY Zenon, <1>4, CallStepFrame DEF Rejects
  <2>2. clock \in Nat
    BY Zenon DEF TypeOK
  <2>3. QED
    BY <2>1, <2>2 DEF Quiet
<1>5. QED
  BY Zenon, <1>1, <1>2, <1>3, <1>4 DEF Next

(* The reading a call is admitted with is not ahead of the clock. *)
LEMMA StampNotAhead ==
  ASSUME TypeOK, ReadingsOrdered, NEW p \in Callers, AdmitAccept(p) \/ Rejects(p)
  PROVE  call[p] \in Call /\ call[p].stamp \in Nat /\ call[p].stamp <= clock
<1>1. call[p].pc = "admit"
  BY Zenon DEF AdmitAccept, Rejects, AdmitDuplicate, AdmitFull, mayAdmit
<1>2. call[p] \in Call
  BY Zenon DEF TypeOK
<1>3. call[p].stamp \in Nat
  BY Zenon, <1>2 DEF Call
<1>4. CallReadings(call[p], clock)
  BY Zenon DEF ReadingsOrdered
<1>5. QED
  BY Zenon, <1>1, <1>2, <1>3, <1>4 DEF CallReadings

LEMMA RejectsEffect ==
  ASSUME NEW p \in Callers, Rejects(p)
  PROVE  /\ UNCHANGED <<clock, log>>
         /\ seen' = pruneSeen(call[p].stamp)
         /\ queue' = pruneQueue(call[p].stamp)
  BY Zenon DEF Rejects, AdmitDuplicate, AdmitFull

LEMMA AcceptEffect ==
  ASSUME NEW p \in Callers, AdmitAccept(p)
  PROVE  /\ UNCHANGED clock
         /\ ID(call[p].msg) \notin DOMAIN pruneSeen(call[p].stamp)
         /\ seen' = recordSeen(pruneSeen(call[p].stamp), ID(call[p].msg),
                               call[p].stamp)
         /\ queue' = pruneQueue(call[p].stamp) \cup {Len(log) + 1}
         /\ hasRoom(pruneQueue(call[p].stamp))
  BY Zenon DEF AdmitAccept

(* What the seen map holds after an acceptance. *)
LEMMA RecordSeenFacts ==
  ASSUME NEW s, NEW id, id \notin DOMAIN s, NEW now
  PROVE  /\ id \in DOMAIN recordSeen(s, id, now)
         /\ recordSeen(s, id, now)[id] = now
         /\ \A i \in DOMAIN s : /\ i \in DOMAIN recordSeen(s, id, now)
                                /\ recordSeen(s, id, now)[i] = s[i]
  BY Zenon DEF recordSeen

LEMMA StillPast ==
  ASSUME NEW now \in Nat, NEW later \in Nat, now <= later, NEW s \in Nat, NEW window \in Nat,
         now - s > window
  PROVE  later - s > window
  OBVIOUS

LEMMA SeenStep ==
  ASSUME TypeOK, ReadingsOrdered, SeenUntilWindowPasses, [Next]_vars
  PROVE  SeenUntilWindowPasses'
<1>0. clock \in Nat /\ \A i \in 1..Len(log) : log[i].stamp \in Nat
  BY Zenon, LogTypes
<1>1. CASE Quiet
  <2>1. clock' \in Nat /\ clock <= clock' /\ log' = log /\ seen' = seen
    BY Zenon, <1>1 DEF Quiet
  <2>2. ASSUME NEW i \in 1..Len(log), clock - log[i].stamp > DuplicateTTL
        PROVE  clock' - log[i].stamp > DuplicateTTL
    <3>1. log[i].stamp \in Nat /\ DuplicateTTL \in Nat
      BY Zenon, <1>0, ConfigAssumption
    <3> QED
      BY Zenon, <1>0, <2>1, <2>2, <3>1, StillPast
  <2> QED
    BY Zenon, <2>1, <2>2 DEF SeenUntilWindowPasses
<1>2. ASSUME NEW p \in Callers, Rejects(p) PROVE SeenUntilWindowPasses'
  <2>1. \A i \in 1..Len(log) : RememberedIn(pruneSeen(call[p].stamp), log[i])
    BY Zenon, <1>2, PruneSeenWindow, StampNotAhead
  <2>2. QED
    BY Zenon, <1>2, <2>1, RejectsEffect DEF SeenUntilWindowPasses, RememberedIn
<1>3. ASSUME NEW p \in Callers, AdmitAccept(p) PROVE SeenUntilWindowPasses'
  <2> DEFINE s == pruneSeen(call[p].stamp)
             id == ID(call[p].msg)
  <2>1. \A i \in 1..Len(log) : RememberedIn(s, log[i])
    BY Zenon, <1>3, PruneSeenWindow, StampNotAhead
  <2>2. /\ UNCHANGED clock /\ id \notin DOMAIN s
        /\ seen' = recordSeen(s, id, call[p].stamp)
    BY Zenon, <1>3, AcceptEffect
  <2>3. /\ Len(log') = Len(log) + 1
        /\ \A i \in 1..Len(log) : log'[i] = log[i]
        /\ log'[Len(log) + 1].msg = call[p].msg
        /\ log'[Len(log) + 1].stamp = call[p].stamp
    <3>1. /\ Len(log') = Len(log) + 1
          /\ \A i \in 1..Len(log) : log'[i] = log[i]
          /\ log'[Len(log) + 1] = [msg |-> call[p].msg, checked |-> call[p].checked,
                                   stamp |-> call[p].stamp, at |-> clock]
      BY Zenon, <1>3, AcceptedEntry
    <3>2. QED
      BY <3>1
  <2>4. Len(log) \in Nat
    BY Zenon, LogTypes
  <2> HIDE DEF s, id
  <2>5. ASSUME NEW i \in 1..Len(log)
        PROVE  \/ clock - log[i].stamp > DuplicateTTL
               \/ ID(log[i].msg) \in DOMAIN seen' /\ seen'[ID(log[i].msg)] = log[i].stamp
    <3>1. \A k \in DOMAIN s : k \in DOMAIN seen' /\ seen'[k] = s[k]
      BY <2>2, RecordSeenFacts
    <3>2. RememberedIn(s, log[i])
      BY Zenon, <2>1
    <3>3. QED
      BY Zenon, <3>1, <3>2 DEF RememberedIn
  <2>6. id \in DOMAIN seen' /\ seen'[id] = call[p].stamp
    BY <2>2, RecordSeenFacts
  <2>7. ASSUME NEW i \in 1..Len(log')
        PROVE  \/ clock' - log'[i].stamp > DuplicateTTL
               \/ ID(log'[i].msg) \in DOMAIN seen' /\ seen'[ID(log'[i].msg)] = log'[i].stamp
    <3>1. CASE i \in 1..Len(log)
      BY Zenon, <2>2, <2>3, <2>5, <3>1
    <3>2. CASE i = Len(log) + 1
      BY Zenon, <2>3, <2>6, <3>2 DEF id
    <3>3. QED
      BY <2>3, <2>4, <3>1, <3>2
  <2>8. QED
    BY Zenon, <2>7 DEF SeenUntilWindowPasses
<1>4. QED
  BY Zenon, <1>1, <1>2, <1>3, StepKinds
(* The facts of an acceptance that both windows need. *)
LEMMA AcceptLog ==
  ASSUME TypeOK, NEW p \in Callers, AdmitAccept(p)
  PROVE  /\ Len(log) \in Nat /\ Len(log') = Len(log) + 1
         /\ \A i \in 1..Len(log) : log'[i] = log[i]
         /\ log'[Len(log) + 1].msg = call[p].msg
         /\ log'[Len(log) + 1].checked = call[p].checked
         /\ log'[Len(log) + 1].stamp = call[p].stamp
         /\ log'[Len(log) + 1].at = clock
<1>1. /\ Len(log') = Len(log) + 1
      /\ \A i \in 1..Len(log) : log'[i] = log[i]
      /\ log'[Len(log) + 1] = [msg |-> call[p].msg, checked |-> call[p].checked,
                               stamp |-> call[p].stamp, at |-> clock]
  BY Zenon, AcceptedEntry
<1>2. QED
  BY <1>1, LogTypes

LEMMA DuplicateWindowStep ==
  ASSUME TypeOK, ReadingsOrdered, SeenUntilWindowPasses, DuplicateWindow,
         [Next]_vars
  PROVE  DuplicateWindow'
<1>1. CASE UNCHANGED log
  BY Zenon, <1>1 DEF DuplicateWindow
<1>2. ASSUME NEW p \in Callers, AdmitAccept(p) PROVE DuplicateWindow'
  <2> DEFINE s == pruneSeen(call[p].stamp)
             n == Len(log) + 1
  <2>1. ASSUME NEW i \in 1..Len(log), ID(log[i].msg) = ID(call[p].msg)
        PROVE  clock - log[i].stamp > DuplicateTTL
    <3>1. RememberedIn(s, log[i])
      BY Zenon, <1>2, PruneSeenWindow, StampNotAhead
    <3>2. ID(call[p].msg) \notin DOMAIN s
      BY Zenon, <1>2, AcceptEffect
    <3>3. QED
      BY Zenon, <2>1, <3>1, <3>2 DEF RememberedIn
  <2>2. /\ n \in Nat /\ Len(log') = n /\ \A i \in 1..Len(log) : log'[i] = log[i]
        /\ log'[n].msg = call[p].msg /\ log'[n].at = clock
    BY <1>2, AcceptLog
  <2>3. Len(log) \in Nat
    BY Zenon, LogTypes
  <2>4. SUFFICES ASSUME NEW i \in 1..Len(log'), NEW j \in 1..Len(log'), i < j,
                        ID(log'[i].msg) = ID(log'[j].msg)
                 PROVE  log'[j].at - log'[i].stamp > DuplicateTTL
    BY Zenon DEF DuplicateWindow
  <2>5. i \in 1..Len(log)
    BY <2>2, <2>3, <2>4
  <2>6. CASE j \in 1..Len(log)
    BY Zenon, <2>2, <2>4, <2>5, <2>6 DEF DuplicateWindow
  <2>7. CASE j = n
    <3>1. ID(log[i].msg) = ID(call[p].msg)
      BY Zenon, <2>2, <2>4, <2>5, <2>7
    <3>2. clock - log[i].stamp > DuplicateTTL
      BY Zenon, <2>1, <2>5, <3>1
    <3>3. QED
      BY Zenon, <2>2, <2>5, <2>7, <3>2
  <2>8. QED
    BY <2>2, <2>3, <2>6, <2>7
<1>3. QED
  BY Zenon, <1>1, <1>2, StepKinds, RejectsEffect DEF Quiet

(* Duplicate suppression for every configuration: a message is never        *)
(* accepted twice within DuplicateTTL of the reading of its first           *)
(* acceptance, although submitSigned reads the clock outside the lock.      *)
THEOREM TopicDuplicateWindow == Spec => []DuplicateWindow
<1> DEFINE Inv == SeenUntilWindowPasses /\ DuplicateWindow
<1>1. Init => Inv
  <2> SUFFICES ASSUME Init PROVE Inv
    BY Zenon
  <2>1. 1..Len(log) = {}
    BY DEF Init
  <2>2. QED
    BY Zenon, <2>1 DEF SeenUntilWindowPasses, DuplicateWindow
<1>2. TypeOK /\ ReadingsOrdered /\ Inv /\ [Next]_vars => Inv'
  BY Zenon, SeenStep, DuplicateWindowStep
<1>3. Inv => DuplicateWindow
  BY Zenon
<1> HIDE DEF Inv
<1>4. QED
  BY <1>1, <1>2, <1>3, TopicTypeOK, TopicReadingsOrdered, PTL DEF Spec

LEMMA QueuedAreSeenStep ==
  ASSUME TypeOK, ReadingsOrdered, QueuedAreSeen, UniqueQueued, [Next]_vars
  PROVE  QueuedAreSeen' /\ UniqueQueued'
<1> SUFFICES ASSUME LongWindow
             PROVE  /\ \A i \in queue' : /\ ID(log'[i].msg) \in DOMAIN seen'
                                        /\ seen'[ID(log'[i].msg)] = log'[i].stamp
                    /\ \A i, j \in queue' : ID(log'[i].msg) = ID(log'[j].msg) => i = j
  BY Zenon DEF QueuedAreSeen, UniqueQueued, LongWindow
<1>0. /\ \A i \in queue : /\ ID(log[i].msg) \in DOMAIN seen
                         /\ seen[ID(log[i].msg)] = log[i].stamp
      /\ \A i, j \in queue : ID(log[i].msg) = ID(log[j].msg) => i = j
  BY Zenon DEF QueuedAreSeen, UniqueQueued, LongWindow
<1>1. CASE Quiet
  BY Zenon, <1>0, <1>1 DEF Quiet
<1>2. ASSUME NEW now PROVE pruneQueue(now) \subseteq queue
  BY Zenon DEF pruneQueue
<1>3. ASSUME NEW p \in Callers, Rejects(p)
      PROVE  /\ \A i \in queue' : /\ ID(log'[i].msg) \in DOMAIN seen'
                                 /\ seen'[ID(log'[i].msg)] = log'[i].stamp
             /\ \A i, j \in queue' : ID(log'[i].msg) = ID(log'[j].msg) => i = j
  <2>1. \A i \in pruneQueue(call[p].stamp) :
          /\ ID(log[i].msg) \in DOMAIN pruneSeen(call[p].stamp)
          /\ pruneSeen(call[p].stamp)[ID(log[i].msg)] = log[i].stamp
    BY Zenon, <1>3, PruneQueueSeen, StampNotAhead
  <2>2. /\ log' = log /\ seen' = pruneSeen(call[p].stamp)
        /\ queue' = pruneQueue(call[p].stamp) /\ queue' \subseteq queue
    BY Zenon, <1>2, <1>3, RejectsEffect
  <2>3. \A i \in queue' : /\ ID(log'[i].msg) \in DOMAIN seen'
                          /\ seen'[ID(log'[i].msg)] = log'[i].stamp
    BY Zenon, <2>1, <2>2
  <2>4. \A i, j \in queue' : ID(log'[i].msg) = ID(log'[j].msg) => i = j
    BY Zenon, <1>0, <2>2
  <2>5. QED
    BY Zenon, <2>3, <2>4
<1>4. ASSUME NEW p \in Callers, AdmitAccept(p)
      PROVE  /\ \A i \in queue' : /\ ID(log'[i].msg) \in DOMAIN seen'
                                 /\ seen'[ID(log'[i].msg)] = log'[i].stamp
             /\ \A i, j \in queue' : ID(log'[i].msg) = ID(log'[j].msg) => i = j
  <2> DEFINE s == pruneSeen(call[p].stamp)
             q == pruneQueue(call[p].stamp)
             id == ID(call[p].msg)
             n == Len(log) + 1
  <2>1. \A i \in q : ID(log[i].msg) \in DOMAIN s /\ s[ID(log[i].msg)] = log[i].stamp
    BY Zenon, <1>4, PruneQueueSeen, StampNotAhead
  <2>2. /\ id \notin DOMAIN s /\ queue' = q \cup {n}
        /\ seen' = recordSeen(s, id, call[p].stamp)
    BY Zenon, <1>4, AcceptEffect
  <2>3. q \subseteq queue /\ q \subseteq 1..Len(log)
    BY Zenon, <1>2 DEF TypeOK
  <2>4. /\ \A i \in q : log'[i] = log[i]
        /\ log'[n].msg = call[p].msg /\ log'[n].stamp = call[p].stamp
    BY Zenon, <1>4, <2>3, AcceptLog
  <2> HIDE DEF s, q, id, n
  <2>5. id \in DOMAIN seen' /\ seen'[id] = call[p].stamp
    BY <2>2, RecordSeenFacts
  <2>6. \A i \in q : /\ ID(log[i].msg) \in DOMAIN seen'
                    /\ seen'[ID(log[i].msg)] = log[i].stamp
                    /\ ID(log[i].msg) # id
    BY <2>1, <2>2, RecordSeenFacts
  <2>7. ID(log'[n].msg) = id
    BY Zenon, <2>4 DEF id
  <2>8. \A i \in queue' : /\ ID(log'[i].msg) \in DOMAIN seen'
                         /\ seen'[ID(log'[i].msg)] = log'[i].stamp
    BY Zenon, <2>2, <2>4, <2>5, <2>6, <2>7
  <2>9. \A i, j \in queue' : ID(log'[i].msg) = ID(log'[j].msg) => i = j
    BY <1>0, <2>2, <2>3, <2>4, <2>6, <2>7
  <2>10. QED
    BY Zenon, <2>8, <2>9
<1>5. QED
  BY Zenon, <1>1, <1>3, <1>4, StepKinds

(* No message is queued twice when the duplicate window outlasts every      *)
(* lifetime, for every configuration of that kind.                          *)
THEOREM TopicUniqueQueued == Spec => []UniqueQueued
<1> DEFINE Inv == QueuedAreSeen /\ UniqueQueued
<1>1. Init => Inv
  BY Zenon DEF Init, QueuedAreSeen, UniqueQueued
<1>2. TypeOK /\ ReadingsOrdered /\ Inv /\ [Next]_vars => Inv'
  BY Zenon, QueuedAreSeenStep
<1>3. Inv => UniqueQueued
  BY Zenon
<1> HIDE DEF Inv
<1>4. QED
  BY <1>1, <1>2, <1>3, TopicTypeOK, TopicReadingsOrdered, PTL DEF Spec
-----------------------------------------------------------------------------
(* The queue *)

(* The queue never outgrows MaxMessages, whatever the number of callers. *)
THEOREM TopicQueueBounded == Spec => []QueueBounded
<1>1. Init => QueueBounded
  BY FS_EmptySet, ConfigAssumption DEF Init, QueueBounded
<1>2. ASSUME TypeOK, QueueBounded, [Next]_vars PROVE QueueBounded'
  <2>1. IsFiniteSet(queue)
    <3>1. IsFiniteSet(1..Len(log))
      BY <1>2, LogTypes, FS_Interval
    <3>2. QED
      BY Zenon, <1>2, <3>1, FS_Subset DEF TypeOK
  <2>2. ASSUME NEW q \in SUBSET queue
        PROVE  IsFiniteSet(q) /\ Cardinality(q) \in Nat /\ Cardinality(q) <= MaxMessages
    <3>1. /\ IsFiniteSet(q) /\ Cardinality(q) <= Cardinality(queue)
          /\ Cardinality(q) \in Nat /\ Cardinality(queue) \in Nat
      BY Zenon, <2>1, FS_Subset, FS_CardinalityType
    <3>2. QED
      BY <1>2, <3>1, ConfigAssumption DEF QueueBounded
  <2>3. ASSUME NEW now PROVE pruneQueue(now) \in SUBSET queue
    BY Zenon DEF pruneQueue
  <2>4. CASE Quiet
    BY Zenon, <2>2, <2>4 DEF Quiet, QueueBounded
  <2>5. ASSUME NEW p \in Callers, Rejects(p) PROVE QueueBounded'
    BY Zenon, <2>2, <2>3, <2>5, RejectsEffect DEF QueueBounded
  <2>6. ASSUME NEW p \in Callers, AdmitAccept(p) PROVE QueueBounded'
    <3> DEFINE q == pruneQueue(call[p].stamp)
    <3>1. IsFiniteSet(q) /\ Cardinality(q) \in Nat /\ Cardinality(q) < MaxMessages
      BY Zenon, <2>2, <2>3, <2>6, AcceptEffect DEF hasRoom
    <3>2. queue' = q \cup {Len(log) + 1}
      BY Zenon, <2>6, AcceptEffect
    <3> HIDE DEF q
    <3>3. Cardinality(queue') = Cardinality(q) \/ Cardinality(queue') = Cardinality(q) + 1
      BY <3>1, <3>2, FS_AddElement, Zenon
    <3>4. QED
      BY <3>1, <3>3, ConfigAssumption DEF QueueBounded
  <2>7. QED
    BY Zenon, <1>2, <2>4, <2>5, <2>6, StepKinds
<1>3. QED
  BY <1>1, <1>2, TopicTypeOK, PTL DEF Spec

(* The queue shrinks only by pruning: with the clock, or with the reading   *)
(* of a call in its locked section.                                         *)
LEMMA QueueShrinks ==
  ASSUME TypeOK, ReadingsOrdered, [Next]_vars, NEW i \in queue \ queue'
  PROVE  \E now \in Nat :
           /\ now <= clock /\ ~validateMessageTTL(log[i].msg, now)
           /\ \/ now = clock
              \/ \E p \in Callers : /\ call[p].pc = "admit" /\ call'[p].pc = "idle"
                                    /\ call[p].stamp = now
<1>0. clock \in Nat
  BY Zenon, LogTypes
<1>1. CASE ReadQueue
  BY <1>0, <1>1 DEF ReadQueue, pruneQueue
<1>2. CASE Tick \/ close \/ UNCHANGED vars
  BY Zenon, <1>2 DEF Tick, close, vars
<1>3. ASSUME NEW s \in Subs, SubStep(s) PROVE FALSE
  BY Zenon, <1>3 DEF SubStep, Subscribe, CloseSubscription, unsubscribe, Receive
<1>4. ASSUME NEW p \in Callers, AdmitAccept(p) \/ Rejects(p)
      PROVE  /\ call[p].stamp \in Nat /\ call[p].stamp <= clock
             /\ ~validateMessageTTL(log[i].msg, call[p].stamp)
             /\ call[p].pc = "admit" /\ call'[p].pc = "idle"
  <2>1. call[p].stamp \in Nat /\ call[p].stamp <= clock
    BY Zenon, <1>4, StampNotAhead
  <2>2. pruneQueue(call[p].stamp) \subseteq queue'
    BY Zenon, <1>4, AcceptEffect, RejectsEffect
  <2>3. ~validateMessageTTL(log[i].msg, call[p].stamp)
    BY Zenon, <2>2 DEF pruneQueue
  <2>4. call[p].pc = "admit" /\ call'[p].pc = "idle"
    <3>1. /\ call[p].pc = "admit"
          /\ \E r \in Results : call' = [call EXCEPT ![p] = Returned(call[p].op, r)]
      BY Zenon, <1>4 DEF AdmitAccept, Rejects, AdmitDuplicate, AdmitFull, mayAdmit, Return,
         Results
    <3>2. call \in [Callers -> Call]
      BY Zenon DEF TypeOK
    <3>3. QED
      BY <3>1, <3>2 DEF Returned
  <2>5. QED
    BY Zenon, <2>1, <2>3, <2>4
<1>5. ASSUME NEW p \in Callers, CallStep(p), ~AdmitAccept(p), ~Rejects(p)
      PROVE  FALSE
  BY Zenon, <1>5, CallStepFrame DEF Rejects
<1>6. QED
  BY Zenon, <1>1, <1>2, <1>3, <1>4, <1>5 DEF Next

(* A message removed with a reading taken no earlier than its validation    *)
(* has expired; the clock has then passed its expiry too.                   *)
LEMMA RemovedIsExpired ==
  ASSUME TypeOK, ReadingsOrdered, NEW i \in queue, NEW now \in Nat, now <= clock,
         ~validateMessageTTL(log[i].msg, now), log[i].checked <= now
  PROVE  Expired(log[i].msg, clock)
<1> DEFINE e == log[i]
<1>1. e \in Entry /\ EntryReadings(e, clock)
  BY DEF TypeOK, ReadingsOrdered
<1>2. ~TTLDisabled /\ (Expired(e.msg, now) \/ TooFar(e.msg, now))
  BY Zenon DEF validateMessageTTL
<1>3. e.checked <= now
  BY Zenon
<1> HIDE DEF e
<1>4. e.checked \in Nat /\ e.msg.exp \in Nat /\ clock \in Nat
  BY Zenon, <1>1, LogTypes DEF Entry, Message
<1>5. Unix(e.checked) \in Nat /\ Unix(now) \in Nat /\ Unix(clock) \in Nat
  BY Zenon, <1>4, UnixNat
<1>6. Unix(e.checked) <= Unix(now) /\ Unix(now) <= Unix(clock)
  BY Zenon, <1>3, <1>4, UnixMonotone
<1>7. ~(e.msg.exp > Latest(e.checked))
  BY Zenon, <1>1, <1>2 DEF EntryReadings, NotTooFar, TooFar
<1>8. ~TooFar(e.msg, now)
  <2>1. Latest(e.checked) <= Latest(now) /\ Latest(e.checked) \in Nat /\ Latest(now) \in Nat
    BY Zenon, <1>3, <1>4, LatestMonotone, LatestNat
  <2>2. QED
    BY <1>4, <1>7, <2>1 DEF TooFar
<1>9. Expired(e.msg, now)
  BY Zenon, <1>2, <1>8
<1>10. Expired(e.msg, clock)
  BY <1>4, <1>5, <1>6, <1>9 DEF Expired
<1>11. QED
  BY Zenon, <1>10 DEF e

(* Retention: an accepted message leaves the queue only expired, or         *)
(* overtaken by a submission that read the clock before it was validated.   *)
THEOREM TopicRetained == Spec => RetainedUnlessOvertaken
<1> DEFINE A == \A i \in queue \ queue' :
                  \/ Expired(log[i].msg, clock)
                  \/ \E p \in Callers : /\ call[p].pc = "admit" /\ call'[p].pc = "idle"
                                        /\ call[p].stamp < log[i].checked
<1>1. ASSUME TypeOK, ReadingsOrdered, [Next]_vars PROVE A
  <2> SUFFICES ASSUME NEW i \in queue \ queue'
               PROVE  \/ Expired(log[i].msg, clock)
                      \/ \E p \in Callers : /\ call[p].pc = "admit" /\ call'[p].pc = "idle"
                                            /\ call[p].stamp < log[i].checked
    BY Zenon
  <2>1. PICK now \in Nat :
           /\ now <= clock /\ ~validateMessageTTL(log[i].msg, now)
           /\ \/ now = clock
              \/ \E p \in Callers : /\ call[p].pc = "admit" /\ call'[p].pc = "idle"
                                    /\ call[p].stamp = now
    BY Zenon, <1>1, QueueShrinks
  <2>2. i \in 1..Len(log) /\ log[i].checked \in Nat /\ clock \in Nat
    BY Zenon, <1>1, LogTypes DEF TypeOK
  <2>3. CASE log[i].checked <= now
    BY Zenon, <1>1, <2>1, <2>3, RemovedIsExpired
  <2>4. CASE now < log[i].checked
    <3>1. log[i].checked <= clock
      <4>1. EntryReadings(log[i], clock) /\ log[i].stamp \in Nat /\ log[i].at \in Nat
        BY Zenon, <1>1, <2>2, LogTypes DEF ReadingsOrdered
      <4>2. QED
        BY <2>2, <4>1 DEF EntryReadings
    <3>2. QED
      BY <2>1, <2>2, <2>4, <3>1
  <2>5. QED
    BY <2>2, <2>3, <2>4
<1>2. QED
  BY <1>1, TopicTypeOK, TopicReadingsOrdered, PTL DEF Spec, RetainedUnlessOvertaken
-----------------------------------------------------------------------------
(* Subscribers: the order of delivery *)

(* Nothing is received that was not accepted. *)
DeliveryBounds == DeliveryInOrder /\ \A s \in Subs : last[s] <= Len(log)

LEMMA DeliveryKinds ==
  ASSUME TypeOK, [Next]_vars
  PROVE  \/ UNCHANGED <<buf, last, log>>
         \/ \E p \in Callers : AdmitAccept(p)
         \/ \E s \in Subs : Receive(s)
<1>1. CASE Tick \/ ReadQueue \/ close \/ UNCHANGED vars
  BY <1>1, Zenon DEF Tick, ReadQueue, close, closeChannels, vars, subVars
<1>2. ASSUME NEW p \in Callers, CallStep(p), ~AdmitAccept(p)
      PROVE  UNCHANGED <<buf, last, log>>
  BY Zenon, <1>2, CallStepFrame
<1>3. ASSUME NEW s \in Subs, SubStep(s), ~Receive(s)
      PROVE  UNCHANGED <<buf, last, log>>
  BY <1>3, Zenon DEF SubStep, Subscribe, CloseSubscription, unsubscribe, closeChannels
<1>4. QED
  BY Zenon, <1>1, <1>2, <1>3 DEF Next

LEMMA DeliveryStep ==
  ASSUME TypeOK, DeliveryBounds, [Next]_vars
  PROVE  DeliveryBounds'
<1>1. buf \in [Subs -> Seq(Nat)] /\ last \in [Subs -> Nat] /\ Len(log) \in Nat
  BY DEF TypeOK
<1>2. CASE UNCHANGED <<buf, last, log>>
  BY Zenon, <1>2 DEF DeliveryBounds, DeliveryInOrder
<1>3. ASSUME NEW p \in Callers, AdmitAccept(p)
      PROVE  DeliveryBounds'
  <2>1. Len(log') = Len(log) + 1 /\ last' = last
    BY Zenon, <1>3, AcceptedEntry DEF AdmitAccept
  <2>2. ASSUME NEW s \in Subs
        PROVE  buf'[s] = buf[s] \/ buf'[s] = Append(buf[s], Len(log) + 1)
    BY Zenon, <1>3 DEF AdmitAccept, fanout
  <2>3. ASSUME NEW s \in Subs, NEW k \in 1..Len(buf'[s])
        PROVE  /\ last'[s] < buf'[s][k] /\ buf'[s][k] <= Len(log')
               /\ \A l \in 1..(k - 1) : buf'[s][l] < buf'[s][k]
    <3> DEFINE b == buf[s]
               n == Len(log) + 1
    <3>1. /\ b \in Seq(Nat) /\ last[s] \in Nat /\ last[s] <= Len(log)
          /\ \A i \in 1..Len(b) : /\ last[s] < b[i] /\ b[i] <= Len(log)
                                  /\ \A l \in 1..(i - 1) : b[l] < b[i]
      BY Zenon, <1>1 DEF DeliveryBounds, DeliveryInOrder
    <3>2. \A i \in 1..Len(b) : b[i] \in Nat
      BY <3>1
    <3>3. CASE buf'[s] = b
      BY <1>1, <2>1, <2>3, <3>1, <3>2, <3>3
    <3>4. CASE buf'[s] = Append(b, n)
      <4> HIDE DEF b
      <4>1. /\ Len(buf'[s]) = Len(b) + 1 /\ buf'[s][Len(b) + 1] = n
            /\ \A i \in 1..Len(b) : buf'[s][i] = b[i]
        BY <3>1, <3>4
      <4>2. CASE k = Len(b) + 1
        <5>1. ASSUME NEW l \in 1..(k - 1) PROVE buf'[s][l] < n
          <6>1. l \in 1..Len(b) /\ buf'[s][l] = b[l] /\ b[l] <= Len(log) /\ b[l] \in Nat
            BY <3>1, <3>2, <4>1, <4>2
          <6>2. QED
            BY <1>1, <6>1
        <5>2. last'[s] < n /\ n <= Len(log')
          BY <1>1, <2>1, <3>1
        <5>3. QED
          BY Zenon, <4>1, <4>2, <5>1, <5>2
      <4>3. CASE k \in 1..Len(b)
        <5>1. /\ buf'[s][k] = b[k] /\ last[s] < b[k] /\ b[k] <= Len(log) /\ b[k] \in Nat
              /\ \A l \in 1..(k - 1) : b[l] < b[k]
          BY Zenon, <3>1, <3>2, <4>1, <4>3
        <5>2. \A l \in 1..(k - 1) : l \in 1..Len(b) /\ buf'[s][l] = b[l]
          BY <3>1, <4>1, <4>3
        <5>3. QED
          BY <1>1, <2>1, <5>1, <5>2
      <4>4. Len(b) \in Nat /\ k \in 1..(Len(b) + 1)
        <5>1. Len(b) \in Nat
          BY <3>1
        <5>2. QED
          BY Zenon, <2>3, <4>1, <5>1
      <4>5. k = Len(b) + 1 \/ k \in 1..Len(b)
        BY <4>4
      <4>6. QED
        BY Zenon, <4>2, <4>3, <4>5
    <3>5. QED
      BY Zenon, <2>2, <3>3, <3>4
  <2>4. \A s \in Subs : last'[s] <= Len(log')
    BY <1>1, <2>1 DEF DeliveryBounds
  <2>5. QED
    BY Zenon, <2>3, <2>4 DEF DeliveryBounds, DeliveryInOrder
<1>4. ASSUME NEW s \in Subs, Receive(s)
      PROVE  DeliveryBounds'
  <2> DEFINE b == buf[s]
  <2>1. /\ log' = log /\ b # <<>> /\ buf' = [buf EXCEPT ![s] = Tail(b)]
        /\ last' = [last EXCEPT ![s] = Head(b)]
    BY Zenon, <1>4 DEF Receive
  <2>2. \A t \in Subs \ {s} : buf'[t] = buf[t] /\ last'[t] = last[t]
    BY Zenon, <1>1, <2>1
  <2>3. /\ b \in Seq(Nat)
        /\ \A i \in 1..Len(b) : b[i] <= Len(log) /\ \A l \in 1..(i - 1) : b[l] < b[i]
    BY Zenon, <1>1 DEF DeliveryBounds, DeliveryInOrder
  <2>4. buf'[s] = Tail(b) /\ last'[s] = Head(b)
    BY Zenon, <1>1, <2>1
  <2> HIDE DEF b
  <2>5. /\ Head(b) = b[1] /\ 1 \in 1..Len(b) /\ Len(Tail(b)) = Len(b) - 1
        /\ \A i \in 1..(Len(b) - 1) : Tail(b)[i] = b[i + 1] /\ i + 1 \in 1..Len(b)
    BY <2>1, <2>3
  <2>6. ASSUME NEW k \in 1..Len(Tail(b))
        PROVE  /\ Head(b) < Tail(b)[k] /\ Tail(b)[k] <= Len(log)
               /\ \A l \in 1..(k - 1) : Tail(b)[l] < Tail(b)[k]
    <3>1. k \in 1..(Len(b) - 1) /\ Tail(b)[k] = b[k + 1] /\ k + 1 \in 1..Len(b)
      BY Zenon, <2>3, <2>5, <2>6
    <3>2. 1 \in 1..((k + 1) - 1) /\ \A l \in 1..((k + 1) - 1) : b[l] < b[k + 1]
      BY <2>3, <3>1
    <3>3. ASSUME NEW l \in 1..(k - 1) PROVE Tail(b)[l] < Tail(b)[k]
      <4>1. l \in 1..(Len(b) - 1) /\ l + 1 \in 1..((k + 1) - 1)
        BY <3>1, <2>3
      <4>2. QED
        BY Zenon, <2>5, <3>1, <3>2, <4>1
    <3>4. QED
      BY Zenon, <2>3, <2>5, <3>1, <3>2, <3>3
  <2>7. Head(b) <= Len(log)
    BY Zenon, <2>3, <2>5
  <2>8. \A t \in Subs : last'[t] <= Len(log')
    BY Zenon, <2>1, <2>2, <2>4, <2>7 DEF DeliveryBounds
  <2>9. DeliveryInOrder'
    <3>1. ASSUME NEW t \in Subs, NEW k \in 1..Len(buf'[t])
          PROVE  /\ last'[t] < buf'[t][k] /\ buf'[t][k] <= Len(log')
                 /\ \A l \in 1..(k - 1) : buf'[t][l] < buf'[t][k]
      <4>1. CASE t = s
        BY Zenon, <2>1, <2>4, <2>6, <3>1, <4>1
      <4>2. CASE t # s
        BY Zenon, <2>1, <2>2, <3>1, <4>2 DEF DeliveryBounds, DeliveryInOrder
      <4>3. QED
        BY Zenon, <4>1, <4>2
    <3>2. QED
      BY Zenon, <3>1 DEF DeliveryInOrder
  <2>10. QED
    BY Zenon, <2>8, <2>9 DEF DeliveryBounds
<1>5. QED
  BY Zenon, <1>2, <1>3, <1>4, DeliveryKinds

(* Each subscriber receives messages in the order of acceptance, each at    *)
(* most once, however slowly it reads: the send in submitSigned is under    *)
(* the topic's lock and skips a full channel.                               *)
THEOREM TopicDeliveryInOrder == Spec => []DeliveryInOrder
<1>1. Init => DeliveryBounds
  BY DEF Init, DeliveryBounds, DeliveryInOrder
<1>2. TypeOK /\ DeliveryBounds /\ [Next]_vars => DeliveryBounds'
  BY Zenon, DeliveryStep
<1>3. DeliveryBounds => DeliveryInOrder
  BY Zenon DEF DeliveryBounds
<1>4. QED
  BY <1>1, <1>2, <1>3, TopicTypeOK, PTL DEF Spec
-----------------------------------------------------------------------------
(* publish: the expiry it chooses *)

(* DefaultTTL is within MaxTTL as the validator takes it. *)
DefaultWithin == MaxTTLTruncated => DefaultTTL <= Unix(MaxTTL) * TicksPerSecond

(* The default lifetime ends within the longest one allowed. *)
LEMMA ExpiresAtNotTooFar ==
  ASSUME DefaultWithin, NEW now \in Nat
  PROVE  ExpiresAt(now) \in Nat /\ ExpiresAt(now) <= Latest(now)
<1> DEFINE k == Unix(MaxTTL)
<1>1. k \in Nat
  BY Zenon, UnixNat, ConfigAssumption
<1>2. Unix(now + k * TicksPerSecond) = Unix(now) + k
  BY Zenon, <1>1, UnixShift
<1>3. MaxTTLTruncated => DefaultTTL <= k * TicksPerSecond
  BY Zenon DEF DefaultWithin
<1>4. Latest(now) = IF MaxTTLTruncated THEN Unix(now) + k ELSE Unix(now + MaxTTL)
  BY Zenon DEF Latest
<1> HIDE DEF k
<1>5. /\ now + DefaultTTL \in Nat /\ now + MaxTTL \in Nat /\ now + k * TicksPerSecond \in Nat
      /\ now + DefaultTTL <= now + MaxTTL
      /\ MaxTTLTruncated => now + DefaultTTL <= now + k * TicksPerSecond
  BY <1>1, <1>3, ConfigAssumption
<1>6. /\ Unix(now + DefaultTTL) <= Unix(now + MaxTTL)
      /\ MaxTTLTruncated => Unix(now + DefaultTTL) <= Unix(now) + k
  BY Zenon, <1>2, <1>5, UnixMonotone
<1>7. QED
  BY Zenon, <1>4, <1>5, <1>6, UnixNat DEF ExpiresAt

(* A message waiting for its signature is within the TTL policy. *)
InTime(c, now) ==
  /\ c.pc = "sign" => c.msg.exp <= Latest(now)
  /\ c.result = "too_far" => c.op = "submit"
PublishedInTime == DefaultWithin => \A p \in Callers : InTime(call[p], clock)

LEMMA ReturnedInTime ==
  ASSUME NEW now, NEW op, NEW r, r = "too_far" => op = "submit"
  PROVE  InTime(Returned(op, r), now)
  BY Zenon DEF InTime, Returned

LEMMA RunningInTime ==
  ASSUME NEW now, NEW pc, NEW op, NEW m, NEW checked, NEW stamp,
         pc = "sign" => m.exp <= Latest(now)
  PROVE  InTime(Running(pc, op, m, checked, stamp), now)
  BY Zenon DEF InTime, Running

LEMMA InTimeStep ==
  ASSUME TypeOK, DefaultWithin, PublishedInTime, NEW p \in Callers, CallStep(p)
  PROVE  InTime(call'[p], clock)
<1>1. clock \in Nat /\ call[p] \in Call /\ InTime(call[p], clock)
  BY Zenon DEF TypeOK, PublishedInTime
<1>2. ASSUME NEW b \in Bodies, Publish(p, b)
      PROVE  InTime(call'[p], clock)
  <2> DEFINE r == NewMessagePayloadResult(b, clock)
             m == [body |-> b, exp |-> ExpiresAt(clock), sig |-> FALSE]
  <2>1. call'[p] = IF r = "ok" THEN Running("sign", "publish", m, 0, 0)
                   ELSE Returned("publish", r)
    BY Zenon, <1>2 DEF Publish, TypeOK
  <2>2. r # "too_far"
    BY Zenon DEF NewMessagePayloadResult
  <2>3. m.exp <= Latest(clock)
    BY Zenon, <1>1, ExpiresAtNotTooFar
  <2> HIDE DEF m, r
  <2>4. QED
    BY Zenon, <2>1, <2>2, <2>3, ReturnedInTime, RunningInTime
<1>3. ASSUME NEW m \in Wire, NEW claim \in Claims, SubmitSigned(p, m, claim)
      PROVE  InTime(call'[p], clock)
  <2> DEFINE r == ValidateResult(m, claim, clock)
  <2>1. call'[p] = IF r = "ok" THEN Running("stamp", "submit", m, clock, 0)
                   ELSE Returned("submit", r)
    BY Zenon, <1>3 DEF SubmitSigned, Validate, TypeOK
  <2> HIDE DEF r
  <2>2. QED
    BY Zenon, <2>1, ReturnedInTime, RunningInTime
<1>4. ASSUME NEW sig \in BOOLEAN, SignReturn(p, sig)
      PROVE  InTime(call'[p], clock)
  <2> DEFINE m == [body |-> call[p].msg.body, exp |-> call[p].msg.exp, sig |-> sig]
             r == ValidateResult(m, "match", clock)
  <2>1. call'[p] = IF r = "ok" THEN Running("stamp", "publish", m, clock, 0)
                   ELSE Returned("publish", r)
    BY Zenon, <1>4 DEF SignReturn, Validate, TypeOK
  <2>2. m.exp <= Latest(clock) /\ m.exp \in Nat
    BY Zenon, <1>1, <1>4 DEF SignReturn, InTime, Call, Message
  <2>3. Latest(clock) \in Nat
    BY Zenon, <1>1, LatestNat
  <2>4. ~TooFar(m, clock)
    BY <2>2, <2>3 DEF TooFar
  <2>5. r # "too_far"
    BY Zenon, <2>4 DEF ValidateResult
  <2> HIDE DEF m, r
  <2>6. QED
    BY Zenon, <2>1, <2>5, ReturnedInTime, RunningInTime
<1>5. CASE SignFail(p)
  <2>1. call'[p] = Returned("publish", "sign")
    BY Zenon, <1>5 DEF SignFail, TypeOK
  <2>2. QED
    BY Zenon, <2>1, ReturnedInTime
<1>6. CASE Stamp(p)
  <2>1. call'[p] = Running("admit", call[p].op, call[p].msg, call[p].checked, clock)
    BY Zenon, <1>6 DEF Stamp, TypeOK
  <2>2. QED
    BY <2>1, RunningInTime
<1>7. CASE AdmitClosed(p) \/ AdmitDuplicate(p) \/ AdmitFull(p) \/ AdmitAccept(p)
  <2>1. \E r \in {"closed", "duplicate", "full", "ok"} : call'[p] = Returned(call[p].op, r)
    BY Zenon, <1>7 DEF AdmitClosed, AdmitDuplicate, AdmitFull, AdmitAccept, Return, TypeOK
  <2>2. QED
    BY Zenon, <2>1, ReturnedInTime
<1>8. QED
  BY Zenon, <1>2, <1>3, <1>4, <1>5, <1>6, <1>7 DEF CallStep

LEMMA PublishedInTimeStep ==
  ASSUME TypeOK, PublishedInTime, [Next]_vars
  PROVE  PublishedInTime'
<1> SUFFICES ASSUME DefaultWithin PROVE PublishedInTime'
  BY Zenon DEF PublishedInTime
<1>1. clock \in Nat /\ call \in [Callers -> Call]
  BY Zenon DEF TypeOK
<1>2. ASSUME call' = call, clock' \in Nat, clock <= clock'
      PROVE  PublishedInTime'
  <2>1. Latest(clock) <= Latest(clock') /\ Latest(clock) \in Nat /\ Latest(clock') \in Nat
    BY Zenon, <1>1, <1>2, LatestMonotone, LatestNat
  <2>2. ASSUME NEW p \in Callers PROVE InTime(call[p], clock')
    <3>1. InTime(call[p], clock) /\ call[p].msg.exp \in Nat
      BY Zenon, <1>1 DEF PublishedInTime, Call, Message
    <3>2. QED
      BY <2>1, <3>1 DEF InTime
  <2>3. QED
    BY Zenon, <1>2, <2>2 DEF PublishedInTime
<1>3. CASE Tick \/ ReadQueue \/ close \/ (\E s \in Subs : SubStep(s)) \/ UNCHANGED vars
  <2>1. call' = call /\ (clock' = clock \/ clock' = clock + 1)
    BY <1>3, Zenon DEF Tick, ReadQueue, close, SubStep, Subscribe, CloseSubscription,
       unsubscribe, Receive, vars
  <2>2. QED
    BY <1>1, <1>2, <2>1
<1>4. ASSUME NEW p \in Callers, CallStep(p)
      PROVE  PublishedInTime'
  <2>1. InTime(call'[p], clock)
    BY Zenon, <1>4, InTimeStep
  <2>2. clock' = clock /\ \A q \in Callers : q # p => call'[q] = call[q]
    BY Zenon, <1>4, CallStepFrame
  <2>3. ASSUME NEW q \in Callers PROVE InTime(call'[q], clock')
    BY Zenon, <2>1, <2>2 DEF PublishedInTime
  <2>4. QED
    BY Zenon, <2>3 DEF PublishedInTime
<1>5. QED
  BY Zenon, <1>3, <1>4 DEF Next

(* A message built by publish is never refused as too far in the future,    *)
(* however long the signer takes: NewMessagePayload adds DefaultTTL before  *)
(* it truncates, and DefaultTTL is at most MaxTTL.  Any Duration will do    *)
(* for either, unless the validator cuts MaxTTL to whole seconds; then      *)
(* DefaultTTL has to be within those.                                       *)
THEOREM TopicPublishNeverTooFar == Spec => []PublishNeverTooFar
<1>1. Init => PublishedInTime
  BY ReturnedInTime DEF Init, PublishedInTime
<1>2. TypeOK /\ PublishedInTime /\ [Next]_vars => PublishedInTime'
  BY Zenon, PublishedInTimeStep
<1>3. PublishedInTime => PublishNeverTooFar
  BY Zenon DEF PublishedInTime, DefaultWithin, InTime, PublishNeverTooFar
<1>4. QED
  BY <1>1, <1>2, <1>3, TopicTypeOK, PTL DEF Spec
=============================================================================
