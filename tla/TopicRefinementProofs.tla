----------------------- MODULE TopicRefinementProofs ------------------------
(* Topic implements TopicService, for every value of the constants. *)
EXTENDS TopicRefinement, TopicProofs

-----------------------------------------------------------------------------
(* Two more invariants *)

(* A call that is under way has no answer yet. *)
Unanswered == \A p \in Callers : call[p].pc # "idle" => call[p].result = "none"

(* The call a step of p leaves p in. *)
LEMMA UnansweredCall ==
  ASSUME TypeOK, NEW p \in Callers, CallStep(p)
  PROVE  call'[p].pc # "idle" => call'[p].result = "none"
<1>1. call \in [Callers -> Call]
  BY DEF TypeOK
<1>2. ASSUME NEW c, call' = [call EXCEPT ![p] = c] PROVE call'[p] = c
  BY <1>1, <1>2
<1>3. \A op, r : Returned(op, r).pc = "idle"
  BY DEF Returned
<1>4. \A pc, op, m, checked, stamp :
        Running(pc, op, m, checked, stamp).result = "none"
  BY DEF Running
<1>5. ASSUME NEW op, NEW m, NEW claim, Validate(p, op, m, claim)
      PROVE  call'[p].pc # "idle" => call'[p].result = "none"
  BY <1>2, <1>3, <1>4, <1>5, Zenon DEF Validate
<1>6. ASSUME NEW b \in Bodies, Publish(p, b)
      PROVE  call'[p].pc # "idle" => call'[p].result = "none"
  <2> DEFINE r == NewMessagePayloadResult(b, clock)
             m == [body |-> b, exp |-> ExpiresAt(clock), sig |-> FALSE]
  <2>1. CASE r = "ok"
    <3>1. call' = [call EXCEPT ![p] = Running("sign", "publish", m, 0, 0)]
      BY <1>6, <2>1 DEF Publish
    <3>2. QED
      BY <1>2, <1>4, <3>1, Zenon
  <2>2. CASE r # "ok"
    <3>1. call' = [call EXCEPT ![p] = Returned("publish", r)]
      BY <1>6, <2>2 DEF Publish
    <3>2. QED
      BY <1>2, <1>3, <3>1, Zenon
  <2>3. QED
    BY <2>1, <2>2
<1>7. CASE Stamp(p)
  <2> DEFINE c == Running("admit", call[p].op, call[p].msg, call[p].checked, clock)
  <2>1. call' = [call EXCEPT ![p] = c]
    BY <1>7 DEF Stamp
  <2>2. c.result = "none"
    BY <1>4
  <2> HIDE DEF c
  <2>3. QED
    BY <1>2, <2>1, <2>2, Zenon
<1>8. ASSUME NEW op, NEW r, call' = [call EXCEPT ![p] = Returned(op, r)]
      PROVE  call'[p].pc = "idle"
  BY <1>2, <1>3, <1>8, Zenon
<1>9. QED
  BY <1>5, <1>6, <1>7, <1>8, Zenon DEF CallStep, SubmitSigned, SignReturn, SignFail,
     AdmitClosed, AdmitDuplicate, AdmitFull, AdmitAccept, Return

LEMMA UnansweredStep == TypeOK /\ Unanswered /\ [Next]_vars => Unanswered'
<1> SUFFICES ASSUME TypeOK, Unanswered, [Next]_vars PROVE Unanswered'
  OBVIOUS
<1>1. CASE UNCHANGED call
  BY <1>1 DEF Unanswered
<1>2. CASE Tick \/ ReadQueue \/ close \/ UNCHANGED vars
  BY <1>1, <1>2 DEF Tick, ReadQueue, close, vars
<1>3. ASSUME NEW s \in Subs, SubStep(s) PROVE Unanswered'
  BY <1>1, <1>3 DEF SubStep, Subscribe, CloseSubscription, unsubscribe, Receive
<1>4. ASSUME NEW p \in Callers, CallStep(p) PROVE Unanswered'
  BY <1>4, UnansweredCall, CallStepFrame DEF Unanswered
<1>5. QED
  BY <1>2, <1>3, <1>4 DEF Next

(* What stands in the seen map after pruning and recording. *)
LEMMA SeenOnlyAcceptedStep ==
  ASSUME TypeOK, SeenOnlyAccepted, [Next]_vars
  PROVE  SeenOnlyAccepted'
<1>1. CASE Quiet
  BY <1>1 DEF SeenOnlyAccepted, Quiet
<1>2. ASSUME NEW p \in Callers, Rejects(p) PROVE SeenOnlyAccepted'
  BY <1>2, RejectsEffect, PruneSeenFacts DEF SeenOnlyAccepted
<1>3. ASSUME NEW p \in Callers, AdmitAccept(p) PROVE SeenOnlyAccepted'
  <2> DEFINE s == pruneSeen(call[p].stamp)
             new == ID(call[p].msg)
             n == Len(log) + 1
  <2>1. seen' = recordSeen(s, new, call[p].stamp)
    BY <1>3, AcceptEffect
  <2>2. /\ Len(log) \in Nat /\ Len(log') = n /\ \A i \in 1..Len(log) : log'[i] = log[i]
        /\ ID(log'[n].msg) = new /\ log'[n].stamp = call[p].stamp
    BY <1>3, AcceptLog
  <2>3. \A id \in DOMAIN s :
          \E i \in 1..Len(log) : ID(log[i].msg) = id /\ log[i].stamp = s[id]
    BY PruneSeenFacts DEF SeenOnlyAccepted
  <2> HIDE DEF s, new
  <2>4. /\ DOMAIN seen' = DOMAIN s \cup {new} /\ seen'[new] = call[p].stamp
        /\ \A id \in DOMAIN s : id # new => seen'[id] = s[id]
    BY <2>1 DEF recordSeen
  <2>5. ASSUME NEW id \in DOMAIN seen'
        PROVE  \E i \in 1..Len(log') : ID(log'[i].msg) = id /\ log'[i].stamp = seen'[id]
    <3>1. CASE id = new
      BY <2>2, <2>4, <3>1
    <3>2. CASE id # new
      <4>1. PICK i \in 1..Len(log) : ID(log[i].msg) = id /\ log[i].stamp = seen'[id]
        BY <2>3, <2>4, <3>2
      <4>2. i \in 1..Len(log') /\ log'[i] = log[i]
        BY <2>2, <4>1
      <4>3. QED
        BY <4>1, <4>2
    <3>3. QED
      BY <3>1, <3>2
  <2>6. QED
    BY <2>5 DEF SeenOnlyAccepted
<1>4. QED
  BY <1>1, <1>2, <1>3, StepKinds

(* Only accepted messages are remembered: a refusal leaves no trace in the  *)
(* seen map, so the message can be submitted again (src/topic.go, the order *)
(* of the checks in submitSigned).                                          *)
THEOREM TopicSeenOnlyAccepted == Spec => []SeenOnlyAccepted
<1>1. Init => SeenOnlyAccepted
  BY DEF Init, SeenOnlyAccepted
<1>2. TypeOK /\ SeenOnlyAccepted /\ [Next]_vars => SeenOnlyAccepted'
  BY SeenOnlyAcceptedStep
<1>3. QED
  BY <1>1, <1>2, TopicTypeOK, PTL DEF Spec
-----------------------------------------------------------------------------
(* The callers, seen from the service *)

(* A step of p's call is a move of p. *)
LEMMA MovesOf ==
  ASSUME TypeOK, TypeOK', NEW p \in Callers, NEW c, call'[p] = c,
         \A q \in Callers : q # p => call'[q] = call[q],
         NEW phase, NEW answer, phaseOf(c.pc) = phase, c.result = answer,
         phase = "out" => callerOf(c) = Service!Out(answer)
  PROVE  /\ Service!Moves(p, phase, answer)
         /\ Caller'[p] = callerOf(c) /\ Caller[p] = callerOf(call[p])
<1>1. Caller' = [q \in Callers |-> callerOf(call'[q])]
  BY DEF Caller
<1>2. Caller' = [Caller EXCEPT ![p] = Caller'[p]]
  BY <1>1, Zenon DEF Caller
<1>3. Caller'[p] = callerOf(c) /\ Caller[p] = callerOf(call[p])
  BY <1>1 DEF Caller
<1>4. callerOf(c).phase = phase /\ callerOf(c).answer = answer
  BY DEF callerOf
<1>5. QED
  BY <1>2, <1>3, <1>4 DEF Service!Moves

LEMMA ReturnMoves ==
  ASSUME TypeOK, TypeOK', NEW p \in Callers, NEW op, NEW r,
         call' = [call EXCEPT ![p] = Returned(op, r)]
  PROVE  Service!Moves(p, "out", r) /\ Caller[p] = callerOf(call[p])
<1>1. call'[p] = Returned(op, r) /\ \A q \in Callers : q # p => call'[q] = call[q]
  BY DEF TypeOK
<1>2. callerOf(Returned(op, r)) = Service!Out(r)
  BY DEF callerOf, phaseOf, Returned, Service!Out
<1>3. phaseOf(Returned(op, r).pc) = "out" /\ Returned(op, r).result = r
  BY DEF phaseOf, Returned
<1>4. QED
  BY <1>1, <1>2, <1>3, MovesOf

(* What a caller is by its pc. *)
LEMMA PhaseOf ==
  ASSUME NEW p \in Callers
  PROVE  /\ Caller[p].phase = phaseOf(call[p].pc) /\ Caller[p].id = ID(call[p].msg)
         /\ Caller[p].since = call[p].checked
         /\ phaseOf("idle") = "out" /\ phaseOf("sign") = "signing"
         /\ phaseOf("stamp") = "in" /\ phaseOf("admit") = "in"
  BY DEF Caller, callerOf, phaseOf

(* What a call that has not been stamped leaves alone. *)
ServiceFrame == UNCHANGED <<clock, closed, Accepted, queue, subscribers, buf, last>>

LEMMA FrameOf ==
  ASSUME UNCHANGED <<clock, closed, queue, seen, subVars, log>>
  PROVE  ServiceFrame
  BY DEF ServiceFrame, Accepted, subVars

LEMMA ValidatePrepares ==
  ASSUME TypeOK, TypeOK', NEW p \in Callers, NEW op, NEW m, NEW claim,
         Validate(p, op, m, claim), ServiceFrame, call[p].pc \in {"idle", "sign"},
         call[p].pc = "sign" => ID(m) = ID(call[p].msg)
  PROVE  Service!Prepares(p)
<1> DEFINE r == ValidateResult(m, claim, clock)
<1>0. Caller[p].phase \in {"out", "signing"}
  BY PhaseOf
<1>1. CASE r = "ok"
  <2> DEFINE c == Running("stamp", op, m, clock, 0)
  <2>1. call'[p] = c /\ \A q \in Callers : q # p => call'[q] = call[q]
    BY <1>1 DEF Validate, TypeOK
  <2>2. /\ phaseOf(c.pc) = "in" /\ c.result = "none"
        /\ callerOf(c).since = clock /\ callerOf(c).id = ID(m)
    BY DEF Running, phaseOf, callerOf
  <2>3. Service!Moves(p, "in", "none") /\ Caller'[p] = callerOf(c)
    BY <2>1, <2>2, MovesOf
  <2>4. Caller[p].phase = "signing" => Caller[p].id = ID(m)
    BY PhaseOf
  <2>5. QED
    BY <1>0, <2>2, <2>3, <2>4 DEF Service!Prepares, ServiceFrame
<1>2. CASE r # "ok"
  <2>1. r \in Service!Checks
    BY <1>2 DEF ValidateResult, Service!Checks
  <2>2. call' = [call EXCEPT ![p] = Returned(op, r)]
    BY <1>2 DEF Validate
  <2>3. Service!Moves(p, "out", r)
    BY <2>2, ReturnMoves, Zenon
  <2>4. QED
    BY <1>0, <2>1, <2>3 DEF Service!Prepares, ServiceFrame
<1>3. QED
  BY <1>1, <1>2

(* Before the lock a call only prepares. *)
LEMMA PreparesOf ==
  ASSUME TypeOK, TypeOK', NEW p \in Callers,
         \/ \E b \in Bodies : Publish(p, b)
         \/ \E m \in Wire, claim \in Claims : SubmitSigned(p, m, claim)
         \/ SignFail(p)
         \/ \E sig \in BOOLEAN : SignReturn(p, sig)
  PROVE  Service!Prepares(p)
<1>1. ASSUME NEW b \in Bodies, Publish(p, b) PROVE Service!Prepares(p)
  <2> DEFINE r == NewMessagePayloadResult(b, clock)
             m == [body |-> b, exp |-> ExpiresAt(clock), sig |-> FALSE]
             c == Running("sign", "publish", m, 0, 0)
  <2>1. ServiceFrame /\ Caller[p].phase = "out"
    BY <1>1, FrameOf, PhaseOf DEF Publish
  <2>2. CASE r = "ok"
    <3>1. call'[p] = c /\ \A q \in Callers : q # p => call'[q] = call[q]
      BY <1>1, <2>2 DEF Publish, TypeOK
    <3>2. phaseOf(c.pc) = "signing" /\ c.result = "none"
      BY DEF Running, phaseOf
    <3>3. Service!Moves(p, "signing", "none")
      BY <3>1, <3>2, MovesOf
    <3>4. QED
      BY <2>1, <3>3 DEF Service!Prepares, ServiceFrame
  <2>3. CASE r # "ok"
    <3>1. r \in Service!Checks
      BY <2>3 DEF NewMessagePayloadResult, Service!Checks
    <3>2. call' = [call EXCEPT ![p] = Returned("publish", r)]
      BY <1>1, <2>3 DEF Publish
    <3>3. Service!Moves(p, "out", r)
      BY <3>2, ReturnMoves, Zenon
    <3>4. QED
      BY <2>1, <3>1, <3>3 DEF Service!Prepares, ServiceFrame
  <2>4. QED
    BY <2>2, <2>3
<1>2. ASSUME NEW m \in Wire, NEW claim \in Claims, SubmitSigned(p, m, claim)
      PROVE  Service!Prepares(p)
  BY SMTT(30), <1>2, FrameOf, ValidatePrepares DEF SubmitSigned
<1>3. CASE SignFail(p)
  <2>1. ServiceFrame /\ Caller[p].phase = "signing"
    BY <1>3, FrameOf, PhaseOf DEF SignFail
  <2>2. Service!Moves(p, "out", "sign")
    BY <1>3, ReturnMoves, Zenon DEF SignFail
  <2>3. "sign" \in Service!Checks
    BY DEF Service!Checks
  <2>4. QED
    BY <2>1, <2>2, <2>3 DEF Service!Prepares, ServiceFrame
<1>4. ASSUME NEW sig \in BOOLEAN, SignReturn(p, sig) PROVE Service!Prepares(p)
  <2> DEFINE m == [body |-> call[p].msg.body, exp |-> call[p].msg.exp, sig |-> sig]
  <2>1. ID(m) = ID(call[p].msg)
    BY DEF ID
  <2>2. call[p].pc = "sign" /\ Validate(p, "publish", m, "match") /\ ServiceFrame
    BY <1>4, FrameOf DEF SignReturn
  <2> HIDE DEF m
  <2>3. QED
    BY <2>1, <2>2, ValidatePrepares
<1>5. QED
  BY <1>1, <1>2, <1>3, <1>4

(* The second reading of the clock is invisible. *)
LEMMA StampStutters ==
  ASSUME TypeOK, Unanswered, NEW p \in Callers, Stamp(p)
  PROVE  UNCHANGED Service!vars
<1> DEFINE c == Running("admit", call[p].op, call[p].msg, call[p].checked, clock)
<1>1. /\ call[p].pc = "stamp" /\ call[p].result = "none"
      /\ call' = [call EXCEPT ![p] = c] /\ call \in [Callers -> Call]
  BY DEF Stamp, Unanswered, TypeOK
<1>2. callerOf(c) = callerOf(call[p])
  BY <1>1 DEF callerOf, phaseOf, Running
<1> HIDE DEF c
<1>3. \A q \in Callers : callerOf(call'[q]) = callerOf(call[q])
  BY <1>1, <1>2
<1>4. UNCHANGED Caller
  BY <1>3 DEF Caller
<1>5. ServiceFrame
  BY FrameOf DEF Stamp
<1>6. QED
  BY <1>4, <1>5 DEF Service!vars, ServiceFrame
-----------------------------------------------------------------------------
(* The locked section *)

(* An acceptance, seen from the service. *)
LEMMA AcceptedFacts ==
  ASSUME TypeOK
  PROVE  /\ Len(log) \in Nat /\ Len(Accepted) = Len(log)
         /\ DOMAIN Accepted = 1..Len(log)
         /\ \A i \in 1..Len(log) : /\ Accepted[i].id = ID(log[i].msg)
                                   /\ Accepted[i].date = log[i].stamp
<1>1. Len(log) \in Nat
  BY LogTypes
<1>2. QED
  BY <1>1 DEF Accepted, acceptedOf

LEMMA OverIsExpired ==
  \A m, now : Service!Over(ID(m), now) <=> Expired(m, now)
  BY DEF Service!Over, Expired, ID, Unix

(* What the locked section of p knows of its own call. *)
LEMMA InLock ==
  ASSUME TypeOK, ReadingsOrdered, NEW p \in Callers,
         AdmitAccept(p) \/ Rejects(p)
  PROVE  /\ Caller[p].phase = "in" /\ Caller[p].id = ID(call[p].msg) /\ ~closed
         /\ Caller[p].since = call[p].checked
         /\ call[p].checked \in Nat /\ call[p].stamp \in Nat /\ clock \in Nat
         /\ call[p].checked <= call[p].stamp /\ call[p].stamp <= clock
<1>1. call[p].pc = "admit" /\ ~closed
  BY DEF AdmitAccept, Rejects, AdmitDuplicate, AdmitFull, mayAdmit
<1>2. call[p] \in Call /\ CallReadings(call[p], clock) /\ clock \in Nat
  BY DEF TypeOK, ReadingsOrdered
<1>3. call[p].checked \in Nat /\ call[p].stamp \in Nat
  BY <1>2 DEF Call
<1>4. call[p].checked <= call[p].stamp /\ call[p].stamp <= clock
  BY <1>1, <1>2 DEF CallReadings
<1>5. QED
  BY <1>1, <1>2, <1>3, <1>4, PhaseOf

(* What p's locked section takes from the queue, p may take. *)
LEMMA LockLoses ==
  ASSUME TypeOK, ReadingsOrdered, NEW p \in Callers, AdmitAccept(p) \/ Rejects(p),
         NEW i \in queue \ pruneQueue(call[p].stamp)
  PROVE  Service!MayLose(p, i)
<1>1. i \in 1..Len(log) /\ ~validateMessageTTL(log[i].msg, call[p].stamp)
  BY DEF TypeOK, pruneQueue
<1>2. /\ Caller[p].since = call[p].checked
      /\ call[p].checked \in Nat /\ call[p].stamp \in Nat /\ clock \in Nat
      /\ call[p].checked <= call[p].stamp /\ call[p].stamp <= clock
  BY InLock
<1>3. log[i].checked \in Nat /\ log[i].stamp \in Nat
  BY <1>1, LogTypes
<1>4. log[i].checked <= log[i].stamp
  BY <1>1 DEF ReadingsOrdered, EntryReadings
<1>5. Accepted[i].id = ID(log[i].msg) /\ Accepted[i].date = log[i].stamp
  BY <1>1, AcceptedFacts
<1>6. CASE log[i].checked <= call[p].stamp
  <2>1. Expired(log[i].msg, clock)
    BY <1>1, <1>2, <1>6, RemovedIsExpired
  <2>2. QED
    BY <1>5, <2>1, OverIsExpired DEF Service!MayLose
<1>7. CASE call[p].stamp < log[i].checked
  <2>1. call[p].checked < log[i].stamp
    BY <1>2, <1>3, <1>4, <1>7
  <2>2. QED
    BY <1>2, <1>5, <2>1 DEF Service!MayLose
<1>8. QED
  BY <1>2, <1>3, <1>6, <1>7

(* An ID that pruneSeen leaves out is fresh. *)
LEMMA FreshOf ==
  ASSUME TypeOK, ReadingsOrdered, SeenUntilWindowPasses, NEW p \in Callers,
         AdmitAccept(p) \/ Rejects(p),
         ID(call[p].msg) \notin DOMAIN pruneSeen(call[p].stamp)
  PROVE  Service!Fresh(p)
<1>1. ASSUME NEW i \in 1..Len(log), ID(log[i].msg) = ID(call[p].msg)
      PROVE  clock - log[i].stamp > DuplicateTTL
  <2>1. RememberedIn(pruneSeen(call[p].stamp), log[i])
    BY PruneSeenWindow, StampNotAhead
  <2>2. QED
    BY <1>1, <2>1 DEF RememberedIn
<1>2. Caller[p].id = ID(call[p].msg)
  BY PhaseOf
<1>3. QED
  BY <1>1, <1>2, AcceptedFacts DEF Service!Fresh

LEMMA RefusesDuplicateOf ==
  ASSUME TypeOK, TypeOK', ReadingsOrdered, SeenOnlyAccepted, NEW p \in Callers,
         AdmitDuplicate(p)
  PROVE  Service!RefusesDuplicate(p)
<1>0. Rejects(p)
  BY DEF Rejects
<1>1. Service!Moves(p, "out", "duplicate")
  BY ReturnMoves, Zenon DEF AdmitDuplicate, Return
<1>2. /\ Caller[p].phase = "in" /\ Caller[p].id = ID(call[p].msg) /\ ~closed
      /\ Caller[p].since = call[p].checked
      /\ call[p].checked \in Nat /\ call[p].stamp \in Nat
      /\ call[p].checked <= call[p].stamp
  BY <1>0, InLock
<1>3. PICK i \in 1..Len(log) :
         /\ ID(log[i].msg) = ID(call[p].msg)
         /\ ~(call[p].stamp - log[i].stamp > DuplicateTTL)
  <2> DEFINE id == ID(call[p].msg)
  <2>1. id \in DOMAIN pruneSeen(call[p].stamp)
    BY DEF AdmitDuplicate
  <2>2. id \in DOMAIN seen /\ ~(call[p].stamp - seen[id] > DuplicateTTL)
    BY <2>1, PruneSeenFacts
  <2>3. QED
    BY <2>2 DEF SeenOnlyAccepted
<1>4. log[i].stamp \in Nat /\ DuplicateTTL \in Nat
  BY LogTypes, ConfigAssumption
<1>5. call[p].checked - log[i].stamp <= DuplicateTTL
  BY <1>2, <1>3, <1>4
<1>6. /\ i \in DOMAIN Accepted /\ Accepted[i].id = Caller[p].id
      /\ Caller[p].since - Accepted[i].date <= DuplicateTTL
  BY <1>2, <1>3, <1>5, AcceptedFacts
<1>7. queue' = pruneQueue(call[p].stamp) /\ queue' \subseteq queue
  BY DEF AdmitDuplicate, pruneQueue
<1>8. \A j \in queue \ queue' : Service!MayLose(p, j)
  BY <1>0, <1>7, LockLoses
<1>9. UNCHANGED <<clock, closed, Accepted, subscribers, buf, last>>
  BY DEF AdmitDuplicate, subVars, Accepted
<1>10. QED
  BY <1>1, <1>2, <1>6, <1>7, <1>8, <1>9 DEF Service!RefusesDuplicate

(* The size of the queue is the same to the service. *)
LEMMA SameCardinality == \A S : Service!Cardinality(S) = Cardinality(S)
  BY DEF Service!Cardinality, Cardinality

LEMMA RefusesFullOf ==
  ASSUME TypeOK, TypeOK', ReadingsOrdered, SeenUntilWindowPasses,
         NEW p \in Callers, AdmitFull(p)
  PROVE  Service!RefusesFull(p)
<1>0. Rejects(p)
  BY DEF Rejects
<1>1. Service!Moves(p, "out", "full")
  BY ReturnMoves, Zenon DEF AdmitFull, Return
<1>2. Caller[p].phase = "in" /\ ~closed
  BY <1>0, InLock
<1>3. Service!Fresh(p)
  BY <1>0, FreshOf DEF AdmitFull
<1>4. /\ queue' = pruneQueue(call[p].stamp) /\ queue' \subseteq queue
      /\ ~(Cardinality(queue') < MaxMessages)
  BY DEF AdmitFull, pruneQueue, hasRoom
<1>5. \A j \in queue \ queue' : Service!MayLose(p, j)
  BY <1>0, <1>4, LockLoses
<1>6. Cardinality(queue') >= MaxMessages
  <2>1. IsFiniteSet(1..Len(log'))
    BY LogTypes, FS_Interval
  <2>2. IsFiniteSet(queue')
    BY <2>1, FS_Subset DEF TypeOK
  <2>3. Cardinality(queue') \in Nat
    BY <2>2, FS_CardinalityType
  <2>4. QED
    BY <1>4, <2>3, ConfigAssumption
<1>7. UNCHANGED <<clock, closed, Accepted, subscribers, buf, last>>
  BY DEF AdmitFull, subVars, Accepted
<1>8. QED
  BY <1>1, <1>2, <1>3, <1>4, <1>5, <1>6, <1>7, SameCardinality
     DEF Service!RefusesFull

(* The accepted messages grow by the one of the call. *)
LEMMA AcceptedGrows ==
  ASSUME TypeOK, TypeOK', NEW p \in Callers, AdmitAccept(p)
  PROVE  Accepted' = Append(Accepted, [id |-> ID(call[p].msg), date |-> call[p].stamp])
<1> DEFINE a == [id |-> ID(call[p].msg), date |-> call[p].stamp]
           n == Len(log) + 1
<1>1. /\ Len(log) \in Nat /\ Len(log') = n /\ \A i \in 1..Len(log) : log'[i] = log[i]
      /\ log'[n].msg = call[p].msg /\ log'[n].stamp = call[p].stamp
  BY AcceptLog
<1>2. acceptedOf(log'[n]) = a
  BY <1>1 DEF acceptedOf
<1>3. Accepted' = [i \in 1..n |-> acceptedOf(log'[i])]
  BY <1>1 DEF Accepted
<1> HIDE DEF a
<1>4. Append(Accepted, a) = [i \in 1..n |-> IF i = n THEN a ELSE Accepted[i]]
  <2> DEFINE S == {Accepted[i] : i \in 1..Len(log)} \cup {a}
  <2>1. Accepted = [i \in 1..Len(log) |-> Accepted[i]]
    BY DEF Accepted
  <2>2. Accepted \in Seq(S) /\ a \in S /\ Len(Accepted) = Len(log)
    BY <1>1, <2>1, AcceptedFacts
  <2> HIDE DEF S
  <2>3. /\ Append(Accepted, a) \in Seq(S) /\ Len(Append(Accepted, a)) = n
        /\ \A i \in 1..Len(log) : Append(Accepted, a)[i] = Accepted[i]
        /\ Append(Accepted, a)[n] = a
    BY <1>1, <2>2
  <2>4. Append(Accepted, a) = [i \in 1..n |-> Append(Accepted, a)[i]]
    <3> DEFINE q == Append(Accepted, a)
    <3>1. q \in Seq(S) /\ Len(q) = n
      BY <2>3
    <3> HIDE DEF q, n
    <3>2. q = [i \in 1..n |-> q[i]]
      BY <3>1
    <3>3. QED
      BY <3>2, Zenon DEF q
  <2>5. \A i \in 1..n : Append(Accepted, a)[i] = IF i = n THEN a ELSE Accepted[i]
    BY <1>1, <2>3
  <2>6. QED
    BY <2>4, <2>5
<1>5. \A i \in 1..n : acceptedOf(log'[i]) = IF i = n THEN a ELSE Accepted[i]
  BY <1>1, <1>2 DEF Accepted
<1>6. QED
  BY <1>3, <1>4, <1>5 DEF a

LEMMA AcceptsOf ==
  ASSUME TypeOK, TypeOK', ReadingsOrdered, SeenUntilWindowPasses, QueueBounded',
         NEW p \in Callers, AdmitAccept(p)
  PROVE  Service!Accepts(p)
<1> DEFINE n == Len(log) + 1
<1>1. Service!Moves(p, "out", "ok")
  BY ReturnMoves, Zenon DEF AdmitAccept, Return
<1>2. /\ Caller[p].phase = "in" /\ Caller[p].id = ID(call[p].msg) /\ ~closed
      /\ Caller[p].since = call[p].checked
      /\ call[p].checked \in Nat /\ call[p].stamp \in Nat /\ clock \in Nat
      /\ call[p].checked <= call[p].stamp /\ call[p].stamp <= clock
  BY InLock
<1>3. Service!Fresh(p)
  BY FreshOf, AcceptEffect
<1>4. \E date \in Caller[p].since..clock :
         Accepted' = Append(Accepted, [id |-> Caller[p].id, date |-> date])
  <2>1. call[p].stamp \in Caller[p].since..clock
    BY <1>2
  <2>2. QED
    BY <1>2, <2>1, AcceptedGrows
<1>5. /\ queue' = pruneQueue(call[p].stamp) \cup {n}
      /\ n \in queue' /\ queue' \subseteq queue \cup {n}
  BY AcceptEffect, Zenon DEF pruneQueue
<1>6. \A j \in queue \ queue' : Service!MayLose(p, j)
  BY <1>5, LockLoses
<1>7. Service!Cardinality(queue') <= MaxMessages
  BY SameCardinality DEF QueueBounded
<1>8. fanout(n) /\ UNCHANGED <<clock, closed, subscribers, last>>
  BY DEF AdmitAccept
<1>9. Len(Accepted) + 1 = n
  BY AcceptedFacts
<1>10. QED
  BY <1>1, <1>2, <1>3, <1>4, <1>5, <1>6, <1>7, <1>8, <1>9
     DEF Service!Accepts, fanout
-----------------------------------------------------------------------------
(* The refinement *)

LEMMA CallStepRefines ==
  ASSUME TypeOK, TypeOK', Unanswered, ReadingsOrdered, SeenUntilWindowPasses,
         SeenOnlyAccepted, QueueBounded', NEW p \in Callers, CallStep(p)
  PROVE  Service!Next \/ UNCHANGED Service!vars
<1>1. CASE Stamp(p)
  BY <1>1, StampStutters
<1>2. CASE AdmitClosed(p)
  <2>1. Service!Moves(p, "out", "closed")
    BY <1>2, ReturnMoves, Zenon DEF AdmitClosed, Return
  <2>2. Caller[p].phase = "in" /\ closed /\ ServiceFrame
    BY <1>2, PhaseOf, FrameOf DEF AdmitClosed
  <2>3. Service!RefusesClosed(p)
    BY <2>1, <2>2 DEF Service!RefusesClosed, ServiceFrame
  <2>4. QED
    BY <2>3 DEF Service!Next
<1>3. CASE AdmitDuplicate(p) \/ AdmitFull(p) \/ AdmitAccept(p)
  BY <1>3, RefusesDuplicateOf, RefusesFullOf, AcceptsOf DEF Service!Next
<1>4. QED
  BY <1>1, <1>2, <1>3, PreparesOf DEF CallStep, Service!Next

LEMMA SubStepRefines ==
  ASSUME TypeOK, NEW s \in Subs, SubStep(s)
  PROVE  Service!Next \/ UNCHANGED Service!vars
<1>1. UNCHANGED <<clock, closed, Accepted, queue, Caller>>
  BY DEF SubStep, Subscribe, CloseSubscription, unsubscribe, Receive, Accepted, Caller
<1>2. CASE Subscribe(s) /\ ~closed
  <2>1. Service!Subscribes(s)
    BY <1>1, <1>2 DEF Subscribe, Service!Subscribes
  <2>2. QED
    BY <2>1 DEF Service!Next
<1>3. CASE (Subscribe(s) /\ closed) \/ CloseSubscription(s)
  BY <1>1, <1>3 DEF Subscribe, CloseSubscription, closeChannels, Service!vars
<1>4. CASE unsubscribe(s)
  <2>1. Service!Leaves(s)
    BY <1>1, <1>4 DEF unsubscribe, closeChannels, Service!Leaves
  <2>2. QED
    BY <2>1 DEF Service!Next
<1>5. CASE Receive(s)
  <2>1. Service!Takes(s)
    BY <1>1, <1>5 DEF Receive, Service!Takes
  <2>2. QED
    BY <2>1 DEF Service!Next
<1>6. QED
  BY <1>2, <1>3, <1>4, <1>5 DEF SubStep

LEMMA NextRefines ==
  ASSUME TypeOK, TypeOK', Unanswered, ReadingsOrdered, SeenUntilWindowPasses,
         SeenOnlyAccepted, QueueBounded', [Next]_vars
  PROVE  [Service!Next]_(Service!vars)
<1>1. CASE Tick
  <2>1. Service!TimePasses
    BY <1>1 DEF Tick, Service!TimePasses, subVars, Accepted, Caller, TypeOK
  <2>2. QED
    BY <2>1 DEF Service!Next
<1>2. CASE ReadQueue
  <2>1. queue' = pruneQueue(clock) /\ queue' \subseteq queue
    BY <1>2 DEF ReadQueue, pruneQueue
  <2>2. ASSUME NEW i \in queue \ queue' PROVE Service!Over(Accepted[i].id, clock)
    <3>1. i \in 1..Len(log) /\ ~validateMessageTTL(log[i].msg, clock) /\ clock \in Nat
      BY <2>1 DEF TypeOK, pruneQueue
    <3>2. log[i].checked <= clock
      <4>1. /\ EntryReadings(log[i], clock) /\ log[i].checked \in Nat
            /\ log[i].stamp \in Nat /\ log[i].at \in Nat
        BY <3>1, LogTypes DEF ReadingsOrdered
      <4>2. QED
        BY <3>1, <4>1 DEF EntryReadings
    <3>3. Expired(log[i].msg, clock)
      BY <3>1, <3>2, RemovedIsExpired
    <3>4. QED
      BY <3>1, <3>3, AcceptedFacts, OverIsExpired
  <2>3. Service!Reads
    BY <1>2, <2>1, <2>2 DEF ReadQueue, subVars, Accepted, Caller, Service!Reads
  <2>4. QED
    BY <2>3 DEF Service!Next
<1>3. CASE close
  <2>1. Service!Closes
    BY <1>3 DEF close, closeChannels, Accepted, Caller, Service!Closes
  <2>2. QED
    BY <2>1 DEF Service!Next
<1>4. CASE UNCHANGED vars
  BY <1>4 DEF vars, Accepted, Caller, Service!vars
<1>5. QED
  BY <1>1, <1>2, <1>3, <1>4, CallStepRefines, SubStepRefines DEF Next

LEMMA InitRefines == Init => Service!Init
<1> SUFFICES ASSUME Init PROVE Service!Init
  OBVIOUS
<1>1. Accepted = <<>>
  BY DEF Init, Accepted
<1>2. callerOf(Returned("submit", "none")) = Service!Out("none")
  BY DEF callerOf, phaseOf, Returned, Service!Out
<1>3. Caller = [p \in Callers |-> Service!Out("none")]
  BY <1>2 DEF Init, Caller
<1>4. QED
  BY <1>1, <1>3 DEF Init, Service!Init

(* The topic keeps its promise for every configuration: whatever the        *)
(* interleaving of callers, signers, peers, subscribers and Shutdown, each  *)
(* step of topic.go is a step of TopicService or invisible to it.           *)
THEOREM TopicImplementsService == Spec => ImplementsService
<1>1. Init => SeenUntilWindowPasses /\ Unanswered
  <2> SUFFICES ASSUME Init PROVE SeenUntilWindowPasses /\ Unanswered
    OBVIOUS
  <2>1. 1..Len(log) = {} /\ \A p \in Callers : call[p].pc = "idle"
    BY DEF Init, Returned
  <2>2. QED
    BY <2>1 DEF SeenUntilWindowPasses, Unanswered
<1>2. TypeOK /\ ReadingsOrdered /\ SeenUntilWindowPasses /\ [Next]_vars
        => SeenUntilWindowPasses'
  BY SeenStep
<1>3. /\ TypeOK /\ TypeOK' /\ Unanswered /\ ReadingsOrdered
      /\ SeenUntilWindowPasses /\ SeenOnlyAccepted /\ QueueBounded' /\ [Next]_vars
      => [Service!Next]_(Service!vars)
  BY NextRefines
<1>4. QED
  BY <1>1, <1>2, <1>3, InitRefines, UnansweredStep, TopicTypeOK,
     TopicReadingsOrdered, TopicSeenOnlyAccepted, TopicQueueBounded, PTL
     DEF Spec, ImplementsService, Service!Spec
=============================================================================
