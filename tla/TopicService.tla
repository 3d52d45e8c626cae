---------------------------- MODULE TopicService ----------------------------
(***************************************************************************)
(* What a topic promises its callers and subscribers (src/topic.go,        *)
(* src/manager.go), without the seen map, the clock readings and the lock  *)
(* of its implementation.  A call is answered in one step.  An accepted    *)
(* message bears the date of some instant of its call; a live message is   *)
(* lost only to a call that was under way at that date.                    *)
(***************************************************************************)
EXTENDS Integers, Sequences, FiniteSets

CONSTANTS
  Callers, Subs,
  MaxMessages, SubscriberBuffer, DuplicateTTL,   \* QueueConfig
  TicksPerSecond, ExpiryInclusive,               \* how expiry is decided
  NoId                                           \* the ID of no message

VARIABLES
  clock,
  closed,
  accepted,    \* sequence of [id, date]
  held,        \* the acceptances whose messages are in the queue
  subscribed,
  inbox,       \* the acceptances waiting for each subscriber
  taken,       \* the last acceptance each subscriber has received
  caller       \* each caller: [phase, id, since, answer]

vars == <<clock, closed, accepted, held, subscribed, inbox, taken, caller>>

Over(id, now) ==
  \/ id.exp < now \div TicksPerSecond
  \/ ExpiryInclusive /\ id.exp = now \div TicksPerSecond

(* The answers given before the message reaches the topic. *)
Checks == {"no_signer", "too_large", "expiry_range", "sign", "id_mismatch",
           "expired", "too_far", "unauthentic"}

Out(answer) == [phase |-> "out", id |-> NoId, since |-> 0, answer |-> answer]

Init ==
  /\ clock = 0 /\ closed = FALSE
  /\ accepted = <<>> /\ held = {}
  /\ subscribed = {} /\ inbox = [s \in Subs |-> <<>>] /\ taken = [s \in Subs |-> 0]
  /\ caller = [p \in Callers |-> Out("none")]

TimePasses ==
  /\ clock' \in Nat /\ clock' >= clock
  /\ UNCHANGED <<closed, accepted, held, subscribed, inbox, taken, caller>>
-----------------------------------------------------------------------------
(* Only p's call moves, to the given phase and answer. *)
Moves(p, phase, answer) ==
  /\ caller' = [caller EXCEPT ![p] = caller'[p]]
  /\ caller'[p].phase = phase /\ caller'[p].answer = answer
  /\ phase = "out" => caller'[p] = Out(answer)

(* A call that is being signed, or checked, and reaches the topic or not. *)
Prepares(p) ==
  /\ \/ caller[p].phase = "out" /\ Moves(p, "signing", "none")
     \/ /\ caller[p].phase \in {"out", "signing"} /\ Moves(p, "in", "none")
        /\ caller'[p].since = clock
        /\ caller[p].phase = "signing" => caller'[p].id = caller[p].id
     \/ /\ caller[p].phase \in {"out", "signing"}
        /\ \E r \in Checks : Moves(p, "out", r)
  /\ UNCHANGED <<clock, closed, accepted, held, subscribed, inbox, taken>>

(* What an answer to p may take from the queue. *)
MayLose(p, i) ==
  Over(accepted[i].id, clock) \/ caller[p].since < accepted[i].date

(* The caller's ID has not been accepted within the window. *)
Fresh(p) ==
  \A i \in DOMAIN accepted :
    accepted[i].id = caller[p].id => clock - accepted[i].date > DuplicateTTL

RefusesClosed(p) ==
  /\ caller[p].phase = "in" /\ closed /\ Moves(p, "out", "closed")
  /\ UNCHANGED <<clock, closed, accepted, held, subscribed, inbox, taken>>

(* There was an acceptance whose window had not ended when the call began. *)
RefusesDuplicate(p) ==
  /\ caller[p].phase = "in" /\ ~closed /\ Moves(p, "out", "duplicate")
  /\ \E i \in DOMAIN accepted :
       /\ accepted[i].id = caller[p].id
       /\ caller[p].since - accepted[i].date <= DuplicateTTL
  /\ held' \subseteq held /\ \A i \in held \ held' : MayLose(p, i)
  /\ UNCHANGED <<clock, closed, accepted, subscribed, inbox, taken>>

RefusesFull(p) ==
  /\ caller[p].phase = "in" /\ ~closed /\ Moves(p, "out", "full")
  /\ Fresh(p)
  /\ held' \subseteq held /\ \A i \in held \ held' : MayLose(p, i)
  /\ Cardinality(held') >= MaxMessages
  /\ UNCHANGED <<clock, closed, accepted, subscribed, inbox, taken>>

(* Every subscriber with room is told. *)
Accepts(p) ==
  LET n == Len(accepted) + 1 IN
  /\ caller[p].phase = "in" /\ ~closed /\ Moves(p, "out", "ok")
  /\ Fresh(p)
  /\ \E date \in caller[p].since..clock :
       accepted' = Append(accepted, [id |-> caller[p].id, date |-> date])
  /\ n \in held' /\ held' \subseteq held \cup {n}
  /\ \A i \in held \ held' : MayLose(p, i)
  /\ Cardinality(held') <= MaxMessages
  /\ inbox' = [s \in Subs |-> IF s \in subscribed /\ Len(inbox[s]) < SubscriberBuffer
                              THEN Append(inbox[s], n) ELSE inbox[s]]
  /\ UNCHANGED <<clock, closed, subscribed, taken>>
-----------------------------------------------------------------------------
(* A peer reads the queue: what has expired is gone. *)
Reads ==
  /\ held' \subseteq held /\ \A i \in held \ held' : Over(accepted[i].id, clock)
  /\ UNCHANGED <<clock, closed, accepted, subscribed, inbox, taken, caller>>

Subscribes(s) ==
  /\ ~closed /\ subscribed' = subscribed \cup {s}
  /\ UNCHANGED <<clock, closed, accepted, held, inbox, taken, caller>>

Leaves(s) ==
  /\ subscribed' = subscribed \ {s}
  /\ UNCHANGED <<clock, closed, accepted, held, inbox, taken, caller>>

Takes(s) ==
  /\ inbox[s] # <<>>
  /\ taken' = [taken EXCEPT ![s] = Head(inbox[s])]
  /\ inbox' = [inbox EXCEPT ![s] = Tail(@)]
  /\ UNCHANGED <<clock, closed, accepted, held, subscribed, caller>>

Closes ==
  /\ ~closed /\ closed' = TRUE /\ subscribed' = {}
  /\ UNCHANGED <<clock, accepted, held, inbox, taken, caller>>

Next ==
  \/ TimePasses \/ Reads \/ Closes
  \/ \E p \in Callers : \/ Prepares(p) \/ RefusesClosed(p) \/ RefusesDuplicate(p)
                        \/ RefusesFull(p) \/ Accepts(p)
  \/ \E s \in Subs : Subscribes(s) \/ Leaves(s) \/ Takes(s)

Spec == Init /\ [][Next]_vars
=============================================================================
