-------------------------------- MODULE Topic --------------------------------
(***************************************************************************)
(* One topic of a dmq Manager (src/topic.go): the in-memory queue, the     *)
(* seen map used for duplicate suppression, and the local subscribers.     *)
(*                                                                         *)
(* Several goroutines run publish/submitSigned at once.  Only the section  *)
(* between t.mu.Lock() and t.mu.Unlock() is atomic: the clock is read for  *)
(* the TTL check, read again for `now`, and only then is the lock taken,   *)
(* so a call is a sequence of steps (pc) with the clock and the other      *)
(* callers running in between.                                             *)
(*                                                                         *)
(* A message is [body, exp, sig]: its body, the wire ExpiresAt in seconds, *)
(* and whether the configured authenticator verifies it.  Its              *)
(* deterministic ID is the part that is hashed, [body, exp].  Accepted     *)
(* messages are numbered by `log`, a history variable; the queue slice and *)
(* the subscriber channels hold acceptance numbers, and the order of the   *)
(* slice is the order of the numbers.                                      *)
(***************************************************************************)
EXTENDS Integers, Sequences, FiniteSets

CONSTANTS
  Callers,           \* goroutines calling Publish, SubmitSigned, SubmitRemote
  Bodies,            \* message bodies
  Oversized,         \* the bodies longer than MaxMessageBodyBytes
  Subs,              \* subscription IDs handed out by nextSubID
  TicksPerSecond,    \* clock resolution: the clock counts ticks
  MaxMessages,       \* QueueConfig.MaxMessages
  SubscriberBuffer,  \* QueueConfig.SubscriberBuffer
  DuplicateTTL,      \* QueueConfig.DuplicateTTL, in ticks
  DefaultTTL,        \* TTLPolicy.DefaultTTL, in ticks
  MaxTTL,            \* TTLPolicy.MaxTTL, in ticks
  TTLDisabled,       \* TTLPolicy.Disable
  AuthRequired,      \* AuthenticationConfig.Required
  SignerPresent,     \* TopicConfig.Signer # nil
  ExpiryInclusive,   \* does the TTL validator reject at ExpiresAt itself
  MaxTTLTruncated,   \* does it cut MaxTTL to whole seconds
  MaxExpiresAt,      \* MaxMessageExpiresAtUnix
  Wire,              \* the messages callers submit ready-signed
  MaxClock,          \* bound: the last clock reading
  MaxCalls           \* bound: publish and submit calls ever made

(* What defaultTopicConfig guarantees of a registered topic's settings. *)
ASSUME ConfigAssumption ==
  /\ Bodies # {} /\ Oversized \subseteq Bodies
  /\ TicksPerSecond \in Nat \ {0}
  /\ MaxMessages \in Nat \ {0}
  /\ SubscriberBuffer \in Nat \ {0}
  /\ DuplicateTTL \in Nat \ {0}
  /\ DefaultTTL \in Nat \ {0}
  /\ MaxTTL \in Nat \ {0}
  /\ DefaultTTL <= MaxTTL
  /\ TTLDisabled \in BOOLEAN /\ AuthRequired \in BOOLEAN
  /\ SignerPresent \in BOOLEAN
  /\ ExpiryInclusive \in BOOLEAN /\ MaxTTLTruncated \in BOOLEAN
  /\ MaxExpiresAt \in Nat /\ MaxClock \in Nat /\ MaxCalls \in Nat

VARIABLES
  clock,        \* what Clock.Now() returns, in ticks
  closed,       \* topicRuntime.closed
  queue,        \* acceptance numbers of the queued messages
  seen,         \* topicRuntime.seen: ID -> time of acceptance
  subscribers,  \* keys of topicRuntime.subscribers
  buf,          \* the messages waiting in each subscription's channel
  open,         \* whether that channel is still open
  last,         \* history: the last message received from it
  sub,          \* life cycle of each Subscription
  call,         \* the call each caller is in
  calls,        \* number of calls made (for MaxCalls)
  panicked,     \* a goroutine closed or sent on a closed channel
  log           \* history: every accepted message, in order of acceptance

vars == <<clock, closed, queue, seen, subscribers, buf, open, last,
          sub, call, calls, panicked, log>>
subVars == <<subscribers, buf, open, last, sub, panicked>>
-----------------------------------------------------------------------------
(* Data *)

Message == [body : Bodies, exp : Nat, sig : BOOLEAN]
Id == [body : Bodies, exp : Nat]
ID(m) == [body |-> m.body, exp |-> m.exp]

ASSUME WireAssumption == Wire \subseteq Message

NoMessage == [body |-> CHOOSE b \in Bodies : TRUE, exp |-> 0, sig |-> FALSE]

(* The message ID field of a submitted message: absent, equal to the        *)
(* computed ID, or different from it.                                       *)
Claims == {"absent", "match", "other"}

Results == {"none", "ok", "no_signer", "too_large", "expiry_range", "sign",
            "id_mismatch", "expired", "too_far", "unauthentic",
            "closed", "duplicate", "full"}

Entry == [msg : Message, checked : Nat, stamp : Nat, at : Nat]
Call == [pc : {"idle", "sign", "stamp", "admit"}, op : {"publish", "submit"},
         msg : Message, checked : Nat, stamp : Nat, result : Results]

Returned(op, r) == [pc |-> "idle", op |-> op, msg |-> NoMessage,
                    checked |-> 0, stamp |-> 0, result |-> r]
Running(pc, op, m, checked, stamp) ==
  [pc |-> pc, op |-> op, msg |-> m, checked |-> checked, stamp |-> stamp,
   result |-> "none"]
-----------------------------------------------------------------------------
(* Time.  Unix truncates an instant or a duration to whole seconds; the TTL *)
(* validator (gOuroboros) compares whole seconds.                           *)

Unix(t) == t \div TicksPerSecond

Expired(m, now) ==
  m.exp < Unix(now) \/ (ExpiryInclusive /\ m.exp = Unix(now))

(* The last second that MaxTTL allows.  The validator takes any Duration;   *)
(* whether it adds MaxTTL to the instant or, in whole seconds, to the       *)
(* second is its own affair.                                                *)
Latest(now) ==
  IF MaxTTLTruncated THEN Unix(now) + Unix(MaxTTL) ELSE Unix(now + MaxTTL)
TooFar(m, now) == m.exp > Latest(now)

validateMessageTTL(m, now) == TTLDisabled \/ (~Expired(m, now) /\ ~TooFar(m, now))

(* Variant: rounds the expiry up to the next second. *)
ExpiresAtRoundedUp(now) == Unix(now + DefaultTTL + TicksPerSecond - 1)

(* ExpiresAt adds the TTL before it truncates to seconds. *)
ExpiresAt(now) == Unix(now + DefaultTTL)

NewMessagePayloadResult(b, now) ==
  IF ~SignerPresent THEN "no_signer"
  ELSE IF b \in Oversized THEN "too_large"
  ELSE IF Unix(now) > MaxExpiresAt \/ ExpiresAt(now) > MaxExpiresAt
       THEN "expiry_range"
  ELSE "ok"

(* The checks submitSigned makes before it takes the lock, in order. *)
ValidateResult(m, claim, now) ==
  IF m.body \in Oversized THEN "too_large"
  ELSE IF claim = "other" THEN "id_mismatch"
  ELSE IF ~TTLDisabled /\ Expired(m, now) THEN "expired"
  ELSE IF ~TTLDisabled /\ TooFar(m, now) THEN "too_far"
  ELSE IF AuthRequired /\ ~m.sig THEN "unauthentic"
  ELSE "ok"

(* Variant: forgets an ID one instant too early. *)
pruneSeenAtLimit(now) ==
  [id \in {i \in DOMAIN seen : ~(now - seen[i] >= DuplicateTTL)} |-> seen[id]]
(* Variant: drops a message in its last second. *)
pruneQueueAtExpiry(now) == {i \in queue : log[i].msg.exp > Unix(now)}
(* Variant: submissions do not prune the queue. *)
pruneQueueSkipped(now) == queue

pruneSeen(now) ==
  [id \in {i \in DOMAIN seen : ~(now - seen[i] > DuplicateTTL)} |-> seen[id]]
pruneQueue(now) == {i \in queue : validateMessageTTL(log[i].msg, now)}
-----------------------------------------------------------------------------
Init ==
  /\ clock = 0
  /\ closed = FALSE
  /\ queue = {}
  /\ seen = [id \in {} |-> 0]
  /\ subscribers = {}
  /\ buf = [s \in Subs |-> <<>>]
  /\ open = [s \in Subs |-> TRUE]
  /\ last = [s \in Subs |-> 0]
  /\ sub = [s \in Subs |-> "none"]
  /\ call = [p \in Callers |-> Returned("submit", "none")]
  /\ calls = 0
  /\ panicked = FALSE
  /\ log = <<>>

Tick ==
  /\ clock < MaxClock
  /\ clock' = clock + 1
  /\ UNCHANGED <<closed, queue, seen, subVars, call, calls, log>>
-----------------------------------------------------------------------------
(* publish and submitSigned *)

(* publish up to the call of Signer.Sign: the expiry is fixed here. *)
Publish(p, b) ==
  /\ call[p].pc = "idle" /\ calls < MaxCalls
  /\ calls' = calls + 1
  /\ LET r == NewMessagePayloadResult(b, clock)
     IN call' = [call EXCEPT ![p] =
          IF r = "ok"
          THEN Running("sign", "publish",
                 [body |-> b, exp |-> ExpiresAt(clock), sig |-> FALSE], 0, 0)
          ELSE Returned("publish", r)]
  /\ UNCHANGED <<clock, closed, queue, seen, subVars, log>>

(* submitSigned from its start to the end of the authentication. *)
Validate(p, op, m, claim) ==
  LET r == ValidateResult(m, claim, clock)
  IN call' = [call EXCEPT ![p] =
       IF r = "ok"
       THEN Running("stamp", op, m, clock, 0)
       ELSE Returned(op, r)]

(* Signer.Sign returns an error, or a message that enters submitSigned. *)
SignFail(p) ==
  /\ call[p].pc = "sign"
  /\ call' = [call EXCEPT ![p] = Returned("publish", "sign")]
  /\ UNCHANGED <<clock, closed, queue, seen, subVars, calls, log>>

SignReturn(p, sig) ==
  /\ call[p].pc = "sign"
  /\ LET m == [body |-> call[p].msg.body, exp |-> call[p].msg.exp, sig |-> sig]
     IN Validate(p, "publish", m, "match")
  /\ UNCHANGED <<clock, closed, queue, seen, subVars, calls, log>>

SubmitSigned(p, m, claim) ==
  /\ call[p].pc = "idle" /\ calls < MaxCalls
  /\ calls' = calls + 1
  /\ Validate(p, "submit", m, claim)
  /\ UNCHANGED <<clock, closed, queue, seen, subVars, log>>

(* now := t.clock.Now(), before t.mu.Lock(). *)
Stamp(p) ==
  /\ call[p].pc = "stamp"
  /\ LET c == call[p]
     IN call' = [call EXCEPT ![p] =
                   Running("admit", c.op, c.msg, c.checked, clock)]
  /\ UNCHANGED <<clock, closed, queue, seen, subVars, calls, log>>

Return(p, r) == call' = [call EXCEPT ![p] = Returned(call[p].op, r)]

(* The locked section of submitSigned: four ways out. *)
(* Variant: the closed flag is not looked at again under the lock. *)
mayAdmitWhenClosed(p) == call[p].pc = "admit"
mayAdmit(p) == call[p].pc = "admit" /\ ~closed
hasRoom(q) == Cardinality(q) < MaxMessages

AdmitClosed(p) ==
  /\ call[p].pc = "admit" /\ closed
  /\ Return(p, "closed")
  /\ UNCHANGED <<clock, closed, queue, seen, subVars, calls, log>>

(* Variant: the ID is looked up before the seen map is pruned. *)
AdmitDuplicateUnpruned(p) ==
  /\ mayAdmit(p)
  /\ ID(call[p].msg) \in DOMAIN seen
  /\ seen' = pruneSeen(call[p].stamp)
  /\ queue' = pruneQueue(call[p].stamp)
  /\ Return(p, "duplicate")
  /\ UNCHANGED <<clock, closed, subVars, calls, log>>

AdmitDuplicate(p) ==
  /\ mayAdmit(p)
  /\ seen' = pruneSeen(call[p].stamp)
  /\ queue' = pruneQueue(call[p].stamp)
  /\ ID(call[p].msg) \in DOMAIN seen'
  /\ Return(p, "duplicate")
  /\ UNCHANGED <<clock, closed, subVars, calls, log>>

(* Variant: the ID is recorded as seen before the capacity check. *)
AdmitFullRecorded(p) ==
  /\ mayAdmit(p)
  /\ queue' = pruneQueue(call[p].stamp)
  /\ ID(call[p].msg) \notin DOMAIN pruneSeen(call[p].stamp)
  /\ ~hasRoom(queue')
  /\ seen' = [i \in DOMAIN pruneSeen(call[p].stamp) \cup {ID(call[p].msg)} |->
                 IF i = ID(call[p].msg) THEN call[p].stamp ELSE seen[i]]
  /\ Return(p, "full")
  /\ UNCHANGED <<clock, closed, subVars, calls, log>>

AdmitFull(p) ==
  /\ mayAdmit(p)
  /\ seen' = pruneSeen(call[p].stamp)
  /\ queue' = pruneQueue(call[p].stamp)
  /\ ID(call[p].msg) \notin DOMAIN seen'
  /\ ~hasRoom(queue')
  /\ Return(p, "full")
  /\ UNCHANGED <<clock, closed, subVars, calls, log>>

(* seen with the ID of an accepted message recorded at `now`. *)
recordSeen(s, id, now) ==
  [i \in DOMAIN s \cup {id} |-> IF i = id THEN now ELSE s[i]]

(* Variant: sends to a full channel as well. *)
fanoutOverCapacity(n) ==
  buf' = [s \in Subs |-> IF s \in subscribers /\ Len(buf[s]) <= SubscriberBuffer
                         THEN Append(buf[s], n) ELSE buf[s]]
(* Variant: the newest message overtakes the ones still buffered. *)
fanoutNewestFirst(n) ==
  buf' = [s \in Subs |-> IF s \in subscribers /\ Len(buf[s]) < SubscriberBuffer
                         THEN <<n>> \o buf[s] ELSE buf[s]]

(* The non-blocking send of acceptance n to every subscriber. *)
fanout(n) ==
  buf' = [s \in Subs |-> IF s \in subscribers /\ Len(buf[s]) < SubscriberBuffer
                         THEN Append(buf[s], n) ELSE buf[s]]

AdmitAccept(p) ==
  LET c == call[p]
      s == pruneSeen(c.stamp)
      q == pruneQueue(c.stamp)
      n == Len(log) + 1
  IN /\ mayAdmit(p)
     /\ ID(c.msg) \notin DOMAIN s
     /\ hasRoom(q)
     /\ seen' = recordSeen(s, ID(c.msg), c.stamp)
     /\ queue' = q \cup {n}
     /\ log' = Append(log, [msg |-> c.msg, checked |-> c.checked,
                            stamp |-> c.stamp, at |-> clock])
     /\ fanout(n)
     /\ panicked' = (panicked \/ \E t \in subscribers : ~open[t])
     /\ Return(p, "ok")
     /\ UNCHANGED <<clock, closed, subscribers, open, last, sub, calls>>
-----------------------------------------------------------------------------
(* messageIDs and messagesByIDs, the reads of the message-submission        *)
(* protocol: both take the lock, read the clock under it and prune.         *)
ReadQueue ==
  /\ queue' = pruneQueue(clock)
  /\ UNCHANGED <<clock, closed, seen, subVars, call, calls, log>>
-----------------------------------------------------------------------------
(* Subscriptions *)

(* close(ch) on the channels of S. *)
closeChannels(S) ==
  /\ open' = [s \in Subs |-> open[s] /\ s \notin S]
  /\ panicked' = (panicked \/ \E s \in S : ~open[s])
  /\ UNCHANGED <<buf, last>>

Subscribe(s) ==
  /\ sub[s] = "none"
  /\ \/ /\ closed
        /\ sub' = [sub EXCEPT ![s] = "closed"]
        /\ closeChannels({s})
        /\ UNCHANGED subscribers
     \/ /\ ~closed
        /\ sub' = [sub EXCEPT ![s] = "active"]
        /\ subscribers' = subscribers \cup {s}
        /\ UNCHANGED <<buf, open, last, panicked>>
  /\ UNCHANGED <<clock, closed, queue, seen, call, calls, log>>

(* Subscription.Close: the compare-and-swap, then unsubscribe under the     *)
(* topic lock.  A second Close fails the compare-and-swap and changes       *)
(* nothing.                                                                 *)
CloseSubscription(s) ==
  /\ sub[s] = "active"
  /\ sub' = [sub EXCEPT ![s] = "closing"]
  /\ UNCHANGED <<clock, closed, queue, seen, subscribers, buf, open, last,
                 panicked, call, calls, log>>

(* Variant: closes the channel without looking it up in the map. *)
unsubscribeUnchecked(s) ==
  /\ sub[s] = "closing"
  /\ sub' = [sub EXCEPT ![s] = "closed"]
  /\ subscribers' = subscribers \ {s}
  /\ closeChannels({s})
  /\ UNCHANGED <<clock, closed, queue, seen, call, calls, log>>

unsubscribe(s) ==
  /\ sub[s] = "closing"
  /\ sub' = [sub EXCEPT ![s] = "closed"]
  /\ subscribers' = subscribers \ {s}
  /\ closeChannels({s} \cap subscribers)
  /\ UNCHANGED <<clock, closed, queue, seen, call, calls, log>>

(* The application receives the next message of Subscription.C. *)
Receive(s) ==
  /\ buf[s] # <<>>
  /\ buf' = [buf EXCEPT ![s] = Tail(@)]
  /\ last' = [last EXCEPT ![s] = Head(buf[s])]
  /\ UNCHANGED <<clock, closed, queue, seen, subscribers, open, sub, call,
                 calls, panicked, log>>

(* topicRuntime.close, called by Manager.Shutdown. *)
close ==
  /\ ~closed
  /\ closed' = TRUE
  /\ closeChannels(subscribers)
  /\ subscribers' = {}
  /\ UNCHANGED <<clock, queue, seen, sub, call, calls, log>>
-----------------------------------------------------------------------------
CallStep(p) ==
  \/ \E b \in Bodies : Publish(p, b)
  \/ \E m \in Wire, claim \in Claims : SubmitSigned(p, m, claim)
  \/ SignFail(p)
  \/ \E sig \in BOOLEAN : SignReturn(p, sig)
  \/ Stamp(p)
  \/ AdmitClosed(p) \/ AdmitDuplicate(p) \/ AdmitFull(p) \/ AdmitAccept(p)

SubStep(s) ==
  Subscribe(s) \/ CloseSubscription(s) \/ unsubscribe(s) \/ Receive(s)

Next ==
  \/ Tick
  \/ ReadQueue
  \/ close
  \/ \E p \in Callers : CallStep(p)
  \/ \E s \in Subs : SubStep(s)

Spec == Init /\ [][Next]_vars
-----------------------------------------------------------------------------
(* Properties *)

(* Every variable has its type; a channel never holds more than its         *)
(* capacity (make(chan Message, SubscriberBuffer)).                         *)
TypeOK ==
  /\ clock \in Nat
  /\ closed \in BOOLEAN
  /\ log \in Seq(Entry)
  /\ queue \subseteq 1..Len(log)
  /\ DOMAIN seen \subseteq Id
  /\ seen \in [DOMAIN seen -> Nat]
  /\ subscribers \subseteq Subs
  /\ buf \in [Subs -> Seq(Nat)]
  /\ \A s \in Subs : Len(buf[s]) <= SubscriberBuffer
  /\ open \in [Subs -> BOOLEAN]
  /\ last \in [Subs -> Nat]
  /\ sub \in [Subs -> {"none", "active", "closing", "closed"}]
  /\ call \in [Callers -> Call]
  /\ calls \in Nat
  /\ panicked \in BOOLEAN

(* The queue holds at most MaxMessages messages, whatever the interleaving  *)
(* of submitters (the check and the append are one locked section).         *)
QueueBounded == Cardinality(queue) <= MaxMessages

(* No goroutine ever closes a closed channel or sends on one: submitSigned, *)
(* Subscription.Close, subscribe and topicRuntime.close may interleave in   *)
(* any order.                                                               *)
NoPanic == ~panicked

(* Duplicate suppression: an ID accepted with the clock reading `stamp` is  *)
(* not accepted again until more than DuplicateTTL after that reading.  The *)
(* second acceptance is dated by the real clock, not by its own, possibly   *)
(* older, reading.                                                          *)
DuplicateWindow ==
  \A i, j \in 1..Len(log) :
    i < j /\ ID(log[i].msg) = ID(log[j].msg)
      => log[j].at - log[i].stamp > DuplicateTTL

(* When the duplicate window outlasts every message lifetime, the queue     *)
(* never holds two copies of one message: pruneSeenLocked forgets an ID     *)
(* only when pruneQueueLocked, run with the same `now`, drops the message.  *)
UniqueQueued ==
  ~TTLDisabled /\ DuplicateTTL >= MaxTTL + TicksPerSecond
    => \A i, j \in queue : ID(log[i].msg) = ID(log[j].msg) => i = j

(* The seen map holds accepted messages only: a submission turned away as   *)
(* invalid, expired or because the queue is full leaves no trace, so the    *)
(* same message can be submitted again.                                     *)
SeenOnlyAccepted ==
  \A id \in DOMAIN seen :
    \E i \in 1..Len(log) : ID(log[i].msg) = id /\ log[i].stamp = seen[id]

(* Each subscriber is handed messages in the order of acceptance, each at   *)
(* most once; a full buffer leaves gaps but never reorders.                 *)
DeliveryInOrder ==
  \A s \in Subs : \A k \in 1..Len(buf[s]) :
    /\ last[s] < buf[s][k]
    /\ buf[s][k] <= Len(log)
    /\ \A l \in 1..(k - 1) : buf[s][l] < buf[s][k]

(* A message built by publish is never refused as too far in the future:    *)
(* ExpiresAt rounds down, MaxTTL is at least DefaultTTL and the clock does  *)
(* not run backward, however long the signer takes.  With a validator that  *)
(* cuts MaxTTL to whole seconds, DefaultTTL must be within what is left: a  *)
(* MaxTTL raised to a DefaultTTL of 1.5 s is 1 s to it.                     *)
PublishNeverTooFar ==
  (MaxTTLTruncated => DefaultTTL <= Unix(MaxTTL) * TicksPerSecond)
    => \A p \in Callers : call[p].result = "too_far" => call[p].op = "submit"

(* A message leaves the queue only when it has expired, or in the locked    *)
(* section of a submission whose `now` was read before the message itself   *)
(* was validated.                                                           *)
RetainedUnlessOvertaken ==
  [][\A i \in queue \ queue' :
       \/ Expired(log[i].msg, clock)
       \/ \E p \in Callers : /\ call[p].pc = "admit" /\ call'[p].pc = "idle"
                             /\ call[p].stamp < log[i].checked]_vars

(* Expired messages are what pruning removes: an accepted message stays in  *)
(* the topic queue for as long as it has not expired.                       *)
RetainedWhileLive ==
  [][\A i \in queue \ queue' : Expired(log[i].msg, clock)]_vars
=============================================================================
