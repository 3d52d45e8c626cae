-------------------------- MODULE SubmissionProofs --------------------------
(***************************************************************************)
(* Proofs about module Submission: what is announced, acknowledged and     *)
(* passed over, for any messages, connections and request count.           *)
(***************************************************************************)
EXTENDS Submission, FiniteSetTheorems, TLAPS

(* Without sharing, a flow serves the connection it is named after, and a   *)
(* connection that is not up carries nothing.                               *)
OwnFlow(c) ==
  /\ rflows[c] \in {NoFlow, c} /\ sflows[c] \in {NoFlow, c}
  /\ replier[c].pc # "off" => replier[c].flow = c
  /\ status[c] # "up" => wire[c] = Silence
  /\ status[c] = "new" =>
       /\ rpc[c] = "idle" /\ replier[c].pc = "off" /\ said[c] = {}
       /\ rflows[c] = NoFlow /\ unacked[c] = 0

(* The protocol's turn: on a connection that is up, either a message is in  *)
(* transit, or the goroutine of replyIDs runs, or R is at work.             *)
OneTurn(c) ==
  status[c] = "up" =>
    /\ rpc[c] # "idle" => wire[c] = Silence /\ replier[c].pc = "off"
    /\ replier[c].pc # "off" => wire[c] = Silence

(* Who knows of the IDs that are not acknowledged: nobody but `outstanding` *)
(* while the messages are fetched.                                          *)
AcksKnown(c) ==
  status[c] = "up" /\ ~ctxDone["R"] =>
    /\ rpc[c] = "start" => rflows[c] = NoFlow /\ unacked[c] = 0
    /\ replier[c].pc # "off" => unacked[c] = 0
    /\ wire[c].type = "requestIds" => wire[c].ack = unacked[c]
    /\ wire[c].type = "replyIds" => Cardinality(wire[c].ids) = unacked[c]
    /\ wire[c].type \in {"requestMessages", "replyMessages"} \/ rpc[c] = "submit"
         => rflows[c] = c /\ outstanding[c] = unacked[c]

FlowInv == \A c \in Conns : OwnFlow(c) /\ OneTurn(c) /\ AcksKnown(c)

(* Every acceptance in A is of a remembered ID, or later than all said. *)
KnownOrLater(c, A) ==
  \A i \in A : slog[i] \in announced[c] \/ \A k \in said[c] : k < i

(* This holds of S's queue, and, between the two halves of newIDs, of what  *)
(* was read of it; what was not read then came later.                       *)
AnnouncedUpTo(c) ==
  /\ status[c] = "up" /\ sflows[c] = NoFlow => said[c] = {} /\ replier[c].pc = "off"
  /\ announced[c] \subseteq IdsOf(said[c])
  /\ KnownOrLater(c, live)
  /\ replier[c].pc = "mark" =>
       /\ KnownOrLater(c, replier[c].queued)
       /\ \A i \in live \ replier[c].queued, k \in said[c] \cup replier[c].queued : k < i

AnnounceInv == ~ctxDone["S"] => \A c \in Conns : AnnouncedUpTo(c)

-----------------------------------------------------------------------------
(* Messages and batches *)

LEMMA MessageType ==
  /\ Silence \in Message
  /\ \A n \in 0..RequestCount : RequestIds(n) \in Message
  /\ \A b \in Batch : ReplyIds(b) \in Message
  /\ \A b \in SUBSET Numbers : ReplyMessages(b) \in Message
  /\ \A w \in Wanted : RequestMessages(w) \in Message
  BY Zenon DEF Message, Silence, RequestIds, ReplyIds, ReplyMessages, RequestMessages

LEMMA MessageFields ==
  ASSUME NEW msg \in Message
  PROVE  /\ msg.type = "requestIds" => msg.ack \in 0..RequestCount
         /\ msg.type = "replyIds" => msg.ids \in Batch
         /\ msg.type = "requestMessages" => msg.ids \in Wanted
         /\ msg.type = "replyMessages" => msg.ids \in SUBSET Numbers
  BY DEF Message, Silence

LEMMA Finite ==
  ASSUME TypeOK, NEW b \in SUBSET Numbers
  PROVE  IsFiniteSet(b) /\ Cardinality(b) \in Nat
<1>1. Len(slog) \in Nat
  BY DEF TypeOK
<1>2. IsFiniteSet(Numbers)
  BY <1>1, FS_Interval DEF Numbers
<1>3. IsFiniteSet(b)
  BY Zenon, <1>2, FS_Subset
<1> QED
  BY Zenon, <1>3, FS_CardinalityType

LEMMA IdsOfType ==
  ASSUME TypeOK, NEW b \in SUBSET Numbers
  PROVE  IdsOf(b) \in SUBSET Ids
  BY DEF TypeOK, IdsOf, Numbers

LEMMA WantedType ==
  ASSUME TypeOK, NEW b \in Batch, NEW v \in SUBSET IdsOf(b)
  PROVE  v \in Wanted
<1>1. b \in SUBSET Numbers /\ Cardinality(b) <= RequestCount
  BY Zenon DEF Batch
<1>2. IsFiniteSet(b) /\ Cardinality(b) \in Nat
  BY Zenon, <1>1, Finite
<1> DEFINE f == [i \in b |-> slog[i]]
<1>3. f \in Surjection(b, IdsOf(b))
  BY Zenon DEF IdsOf, Surjection
<1>4. IsFiniteSet(IdsOf(b)) /\ Cardinality(IdsOf(b)) <= Cardinality(b)
  BY Zenon, <1>2, <1>3, FS_Surjection
<1>5. IsFiniteSet(v) /\ Cardinality(v) <= Cardinality(IdsOf(b))
  BY Zenon, <1>4, FS_Subset
<1>6. Cardinality(v) \in Nat /\ Cardinality(IdsOf(b)) \in Nat
  BY Zenon, <1>4, <1>5, FS_CardinalityType
<1>7. v \in SUBSET Ids
  BY Zenon, <1>1, IdsOfType
<1> QED
  BY <1>1, <1>2, <1>4, <1>5, <1>6, <1>7, SubmissionAssumption DEF Wanted

-----------------------------------------------------------------------------
(* Types *)

Replier ==
  [pc : {"off", "read", "mark", "wait"}, flow : Conns \cup {NoFlow}, queued : SUBSET Numbers]

LEMMA SameNumbers ==
  ASSUME slog' = slog
  PROVE  Numbers' = Numbers /\ Message' = Message
  BY Zenon DEF Numbers, Message, Batch

LEMMA FlowType ==
  ASSUME TypeOK, NEW c \in Conns
  PROVE  /\ Key(c) \in Keys
         /\ forConnection(sflows, c) \in Conns /\ forConnection(rflows, c) \in Conns
         /\ unacknowledged(c) \in 0..RequestCount
<1>1. Key(c) \in Keys
  BY Zenon DEF Keys
<1>2. forConnection(sflows, c) \in Conns /\ forConnection(rflows, c) \in Conns
  BY Zenon, <1>1 DEF TypeOK, forConnection
<1> QED
  BY <1>1, <1>2, SubmissionAssumption DEF TypeOK, unacknowledged

LEMMA SendType ==
  ASSUME TypeOK, NEW c \in Conns, NEW msg \in Message, send(c, msg)
  PROVE  wire' \in [Conns -> Message]
  BY Zenon, MessageType DEF TypeOK, send

LEMMA RequestIDsType ==
  ASSUME TypeOK, NEW c \in Conns, NEW had \in 0..RequestCount, requestIDs(c, had)
  PROVE  /\ rflows' \in [Keys -> Conns \cup {NoFlow}]
         /\ outstanding' \in [Conns -> 0..RequestCount]
         /\ wire' \in [Conns -> Message]
<1>1. wire' \in [Conns -> Message]
  BY Zenon, SendType, MessageType DEF requestIDs
<1>2. rflows' \in [Keys -> Conns \cup {NoFlow}]
  BY Zenon, FlowType DEF requestIDs, TypeOK
<1>3. outstanding' \in [Conns -> 0..RequestCount]
  BY FlowType, SubmissionAssumption DEF requestIDs, TypeOK
<1> QED
  BY Zenon, <1>1, <1>2, <1>3

LEMMA SubmitType ==
  ASSUME TypeOK, NEW m \in Ids, NEW turnedAway \in [Conns -> SUBSET Ids], submit(m, turnedAway)
  PROVE  rseen' \subseteq accepted' /\ accepted' \subseteq Ids /\ refused' \in [Conns -> SUBSET Ids]
<1>1. refused' = refused \/ refused' = turnedAway
  BY Zenon DEF submit, topicR
<1>2. \/ rseen' \subseteq rseen /\ accepted' = accepted
      \/ rseen' \subseteq rseen \cup {m} /\ accepted' = accepted \cup {m}
  BY Zenon DEF submit, topicR
<1> QED
  BY Zenon, <1>1, <1>2 DEF TypeOK

LEMMA TypeInit == Init => TypeOK
<1> SUFFICES ASSUME Init PROVE TypeOK
  BY Zenon
<1>1. wire \in [Conns -> Message]
  BY Zenon, MessageType DEF Init
<1>2. outstanding \in [Conns -> 0..RequestCount] /\ unacked \in [Conns -> 0..(2 * RequestCount)]
  BY SubmissionAssumption DEF Init
<1>3. slog \in Seq(Ids)
  BY DEF Init
<1>4. replier \in [Conns -> Replier]
  BY Zenon DEF Init, NoReplier, Replier
<1> QED
  BY Zenon, <1>1, <1>2, <1>3, <1>4 DEF Init, TypeOK, Replier

(* The numbers grow with the log. *)
LEMMA TypeAccept ==
  ASSUME TypeOK, NEW m \in Ids, NEW old, AcceptAtSender(m, old)
  PROVE  TypeOK'
<1>1. slog \in Seq(Ids) /\ slog' = Append(slog, m)
  BY Zenon DEF TypeOK, AcceptAtSender
<1>2. slog' \in Seq(Ids) /\ Numbers' = Numbers \cup {Len(slog) + 1}
  BY <1>1 DEF Numbers
<1>3. squeue' \subseteq Numbers' /\ lost' \subseteq Ids
  <2>1. squeue' \subseteq squeue \cup {Len(slog) + 1}
    BY Zenon DEF AcceptAtSender, pruneQueue
  <2>2. lost' = lost \cup (old \cap IdsOf(live)) /\ squeue \subseteq Numbers /\ lost \subseteq Ids
    BY Zenon DEF AcceptAtSender, dropped, TypeOK
  <2>3. live \in SUBSET Numbers
    BY Zenon, <2>2 DEF live
  <2> QED
    BY Zenon, <1>2, <2>1, <2>2, <2>3, IdsOfType
<1>4. Message \subseteq Message'
  <2>1. Batch \subseteq Batch'
    BY Zenon, <1>2 DEF Batch
  <2> QED
    BY Zenon, <1>2, <2>1 DEF Message
<1>5. Replier \subseteq Replier'
  BY Zenon, <1>2 DEF Replier
<1>6. UNCHANGED <<status, wire, ctxDone, expired, flowS, topicR, flowR, unacked>>
  BY Zenon DEF AcceptAtSender
<1>7. wire' \in [Conns -> Message'] /\ replier' \in [Conns -> Replier']
  BY Zenon, <1>4, <1>5, <1>6 DEF TypeOK, flowS, Replier
<1>8. said' \in [Conns -> SUBSET Numbers'] /\ inbox' \in [Conns -> SUBSET Numbers']
  BY Zenon, <1>2, <1>6 DEF TypeOK, flowS, flowR
<1> QED
  BY Zenon, <1>2, <1>3, <1>6, <1>7, <1>8 DEF TypeOK, flowS, flowR, topicR, Replier

LEMMA TypeStep ==
  ASSUME TypeOK, [Next]_vars
  PROVE  TypeOK'
<1> USE DEF flowS, flowR, topicR, topicS
<1>1. ASSUME NEW m \in Ids, Expire(m)
      PROVE  TypeOK'
  <2>1. expired' \subseteq Ids
    BY Zenon, <1>1 DEF Expire, TypeOK
  <2> QED
    BY Zenon, <1>1, <2>1, SameNumbers DEF Expire, TypeOK
<1>2. ASSUME NEW m \in Ids, SubmitElsewhere(m)
      PROVE  TypeOK'
  <2>1. refused \in [Conns -> SUBSET Ids]
    BY Zenon DEF TypeOK
  <2>2. rseen' \subseteq accepted' /\ accepted' \subseteq Ids /\ refused' \in [Conns -> SUBSET Ids]
    BY Zenon, <1>2, <2>1, SubmitType DEF SubmitElsewhere
  <2> QED
    BY Zenon, <1>2, <2>2, SameNumbers DEF SubmitElsewhere, TypeOK
<1>3. ASSUME NEW c \in Conns, Connect(c)
      PROVE  TypeOK'
  BY Zenon, <1>3, SameNumbers DEF Connect, TypeOK
<1>4. ASSUME NEW c \in Conns, Disconnect(c)
      PROVE  TypeOK'
  <2>1. wire' \in [Conns -> Message]
    BY Zenon, <1>4, MessageType DEF Disconnect, TypeOK
  <2> QED
    BY Zenon, <1>4, <2>1, SameNumbers DEF Disconnect, TypeOK
<1>5. ASSUME NEW c \in Conns, OnRequestIds(c)
      PROVE  TypeOK'
  <2>1. wire' \in [Conns -> Message]
    BY Zenon, <1>5, SendType, MessageType DEF OnRequestIds
  <2>2. sflows' \in [Keys -> Conns \cup {NoFlow}]
    BY Zenon, <1>5, FlowType DEF OnRequestIds, TypeOK
  <2>3. announced' \in [Conns -> SUBSET Ids]
    BY Zenon, <1>5, FlowType DEF OnRequestIds, TypeOK
  <2>4. replier' \in [Conns -> Replier]
    BY Zenon, <1>5, FlowType DEF OnRequestIds, TypeOK, Replier
  <2>5. unacked' \in [Conns -> 0..(2 * RequestCount)]
    <3>1. wire[c].ack \in 0..RequestCount
      BY Zenon, <1>5, MessageFields DEF OnRequestIds, TypeOK
    <3>2. unacked \in [Conns -> 0..(2 * RequestCount)]
      BY Zenon DEF TypeOK
    <3> QED
      BY <1>5, <3>1, <3>2, SubmissionAssumption DEF OnRequestIds
  <2> QED
    BY Zenon, <1>5, <2>1, <2>2, <2>3, <2>4, <2>5, SameNumbers DEF OnRequestIds, TypeOK, Replier
<1>6. ASSUME NEW c \in Conns, ReadQueue(c)
      PROVE  TypeOK'
  <2>1. live \in SUBSET Numbers
    BY Zenon DEF live, TypeOK
  <2>2. replier \in [Conns -> Replier]
    BY Zenon DEF TypeOK, Replier
  <2>3. replier' \in [Conns -> Replier]
    BY Zenon, <1>6, <2>1, <2>2 DEF ReadQueue, Replier
  <2> QED
    BY Zenon, <1>6, <2>3, SameNumbers DEF ReadQueue, TypeOK, Replier
<1>7. ASSUME NEW c \in Conns, Announce(c)
      PROVE  TypeOK'
  <2> DEFINE f == replier[c].flow
             Q == replier[c].queued
  <2>1. PICK batch \in SUBSET Q :
          /\ newIDs(announced[f], Q, batch)
          /\ announced' = [announced EXCEPT ![f] = remember(@, Q, batch)]
          /\ IF mayReply(batch)
             THEN /\ send(c, ReplyIds(batch))
                  /\ replier' = [replier EXCEPT ![c] = NoReplier]
                  /\ said' = IF ctxDone["S"] THEN said ELSE [said EXCEPT ![c] = @ \cup batch]
                  /\ unacked' = [unacked EXCEPT ![c] =
                                   AtMost(2 * RequestCount, @ + Cardinality(batch))]
             ELSE /\ replier' = [replier EXCEPT ![c].pc = "wait", ![c].queued = {}]
                  /\ UNCHANGED <<wire, said, unacked>>
    BY Zenon, <1>7 DEF Announce
  <2>2. Q \in SUBSET Numbers
    BY Zenon DEF TypeOK
  <2>3. batch \in SUBSET Numbers /\ batch \in Batch /\ IdsOf(batch) \in SUBSET Ids
    BY Zenon, <2>1, <2>2, IdsOfType DEF newIDs, Batch
  <2>4. announced' \in [Conns -> SUBSET Ids]
    BY Zenon, <2>1, <2>3 DEF TypeOK, remember
  <2>5. wire' \in [Conns -> Message]
    <3>1. ReplyIds(batch) \in Message
      BY Zenon, <2>3, MessageType
    <3> QED
      BY Zenon, <2>1, <3>1, SendType DEF TypeOK
  <2>6. replier' \in [Conns -> Replier]
    <3>1. replier \in [Conns -> Replier]
      BY Zenon DEF TypeOK, Replier
    <3>2. \/ replier' = [replier EXCEPT ![c] = NoReplier]
          \/ replier' = [replier EXCEPT ![c].pc = "wait", ![c].queued = {}]
      BY Zenon, <2>1
    <3> QED
      BY <3>1, <3>2 DEF NoReplier, Replier
  <2>7. said' \in [Conns -> SUBSET Numbers]
    <3>1. said \in [Conns -> SUBSET Numbers]
      BY Zenon DEF TypeOK
    <3>2. said' = said \/ said' = [said EXCEPT ![c] = @ \cup batch]
      BY Zenon, <2>1
    <3>3. said[c] \cup batch \in SUBSET Numbers
      BY Zenon, <2>3, <3>1
    <3> QED
      BY Zenon, <3>1, <3>2, <3>3
  <2>8. unacked' \in [Conns -> 0..(2 * RequestCount)]
    <3>1. unacked \in [Conns -> 0..(2 * RequestCount)] /\ Cardinality(batch) \in Nat
      BY Zenon, <2>3, Finite DEF TypeOK
    <3>2. \/ unacked' = unacked
          \/ unacked' = [unacked EXCEPT ![c] = AtMost(2 * RequestCount, @ + Cardinality(batch))]
      BY Zenon, <2>1
    <3> QED
      BY <3>1, <3>2, SubmissionAssumption DEF AtMost
  <2> QED
    BY Zenon, <1>7, <2>4, <2>5, <2>6, <2>7, <2>8, SameNumbers DEF Announce, TypeOK, Replier
<1>8. ASSUME NEW c \in Conns, StopHolding(c)
      PROVE  TypeOK'
  <2>1. replier' \in [Conns -> Replier]
    BY Zenon, <1>8 DEF StopHolding, TypeOK, NoReplier, Replier
  <2> QED
    BY Zenon, <1>8, <2>1, SameNumbers DEF StopHolding, TypeOK, Replier
<1>9. ASSUME NEW c \in Conns, OnRequestMessages(c)
      PROVE  TypeOK'
  <2> DEFINE b == {i \in live : slog[i] \in wire[c].ids}
  <2>1. send(c, ReplyMessages(b))
    BY Zenon, <1>9 DEF OnRequestMessages
  <2>2. b \in SUBSET Numbers
    BY Zenon DEF live, TypeOK
  <2>3. ReplyMessages(b) \in Message
    BY Zenon, <2>2, MessageType
  <2>4. wire' \in [Conns -> Message]
    BY Zenon, <2>1, <2>3, SendType
  <2> QED
    BY Zenon, <1>9, <2>4, SameNumbers DEF OnRequestMessages, TypeOK
<1>10. ASSUME NEW c \in Conns, StartPull(c) \/ RequestAgain(c)
      PROVE  TypeOK'
  <2>1. unacknowledged(c) \in 0..RequestCount /\ requestIDs(c, unacknowledged(c))
    BY Zenon, <1>10, FlowType DEF StartPull, RequestAgain
  <2> QED
    BY Zenon, <1>10, <2>1, RequestIDsType, SameNumbers DEF StartPull, RequestAgain, TypeOK
<1>11. ASSUME NEW c \in Conns, OnReplyIds(c)
      PROVE  TypeOK'
  <2> DEFINE batch == wire[c].ids
             wanted == IdsOf(batch) \ rseen
             f == forConnection(rflows, c)
  <2>1. batch \in Batch /\ Cardinality(batch) \in 0..RequestCount
    <3>1. batch \in Batch
      BY Zenon, <1>11, MessageFields DEF OnReplyIds, TypeOK
    <3>2. Cardinality(batch) \in Nat /\ Cardinality(batch) <= RequestCount
      BY Zenon, <3>1, Finite DEF Batch
    <3> QED
      BY <3>1, <3>2, SubmissionAssumption
  <2>2. CASE wanted # {}
    <3>1. /\ rflows' = [rflows EXCEPT ![Key(c)] = f]
          /\ outstanding' = [outstanding EXCEPT ![f] = Cardinality(batch)]
          /\ send(c, RequestMessages(wanted))
      BY Zenon, <1>11, <2>2 DEF OnReplyIds, countIDs
    <3>2. wanted \in Wanted
      BY Zenon, <2>1, WantedType
    <3>3. wire' \in [Conns -> Message]
      BY Zenon, <3>1, <3>2, SendType, MessageType
    <3>4. /\ rflows' \in [Keys -> Conns \cup {NoFlow}]
          /\ outstanding' \in [Conns -> 0..RequestCount]
      BY Zenon, <2>1, <3>1, FlowType DEF TypeOK
    <3> QED
      BY Zenon, <1>11, <3>3, <3>4, SameNumbers DEF OnReplyIds, TypeOK
  <2>3. CASE wanted = {}
    <3>1. requestIDs(c, Cardinality(batch))
      BY Zenon, <1>11, <2>3 DEF OnReplyIds, countIDs
    <3> QED
      BY Zenon, <1>11, <2>1, <3>1, RequestIDsType, SameNumbers DEF OnReplyIds, TypeOK
  <2> QED
    BY Zenon, <2>2, <2>3
<1>12. ASSUME NEW c \in Conns, OnReplyMessages(c)
      PROVE  TypeOK'
  <2>1. wire[c].ids \in SUBSET Numbers
    BY Zenon, <1>12, MessageFields DEF OnReplyMessages, TypeOK
  <2>2. wire' \in [Conns -> Message]
    BY Zenon, <1>12, SendType, MessageType DEF OnReplyMessages
  <2> QED
    BY Zenon, <1>12, <2>1, <2>2, SameNumbers DEF OnReplyMessages, TypeOK
<1>13. ASSUME NEW c \in Conns, SubmitNext(c)
      PROVE  TypeOK'
  <2>1. PICK i \in inbox[c] :
          /\ submit(slog[i], [refused EXCEPT ![c] = @ \cup {slog[i]}])
          /\ inbox' = [inbox EXCEPT ![c] = @ \ {i}]
    BY Zenon, <1>13 DEF SubmitNext
  <2>2. i \in Numbers /\ inbox' \in [Conns -> SUBSET Numbers]
    BY Zenon, <2>1 DEF TypeOK
  <2>3. slog[i] \in Ids
    BY <2>2 DEF TypeOK, Numbers
  <2>4. [refused EXCEPT ![c] = @ \cup {slog[i]}] \in [Conns -> SUBSET Ids]
    BY Zenon, <2>3 DEF TypeOK
  <2>5. rseen' \subseteq accepted' /\ accepted' \subseteq Ids /\ refused' \in [Conns -> SUBSET Ids]
    BY Zenon, <2>1, <2>3, <2>4, SubmitType
  <2> QED
    BY Zenon, <1>13, <2>2, <2>5, SameNumbers DEF SubmitNext, TypeOK
<1>14. ASSUME NEW n \in {"S", "R"}, CancelContext(n)
      PROVE  TypeOK'
  BY Zenon, <1>14, SameNumbers DEF CancelContext, TypeOK
<1>15. ASSUME NEW k \in Keys, DropSenderFlow(k) \/ DropReceiverFlow(k)
      PROVE  TypeOK'
  BY Zenon, <1>15, SameNumbers DEF DropSenderFlow, DropReceiverFlow, TypeOK
<1>16. ASSUME NEW old, RefuseAtSender(old)
      PROVE  TypeOK'
  <2>1. squeue' \subseteq Numbers
    BY Zenon, <1>16 DEF RefuseAtSender, pruneQueue, TypeOK
  <2>2. live \in SUBSET Numbers
    BY Zenon DEF live, TypeOK
  <2>3. lost' \subseteq Ids
    BY Zenon, <1>16, <2>2, IdsOfType DEF RefuseAtSender, dropped, TypeOK
  <2> QED
    BY Zenon, <1>16, <2>1, <2>3, SameNumbers DEF RefuseAtSender, TypeOK
<1>17. CASE UNCHANGED vars
  BY Zenon, <1>17, SameNumbers DEF vars, TypeOK
<1> HIDE DEF flowS, flowR, topicR, topicS
<1> QED
  BY Zenon, <1>1, <1>2, <1>3, <1>4, <1>5, <1>6, <1>7, <1>8, <1>9, <1>10, <1>11, <1>12, <1>13,
     <1>14, <1>15, <1>16, <1>17, TypeAccept DEF Next, SenderStep, ReceiverStep

(* The state is well formed: the request count of newIDs bounds every reply *)
(* of IDs, every request for messages and every acknowledgement, however    *)
(* often S accepts an ID again.                                             *)
THEOREM SubmissionTypeOK == Spec => []TypeOK
<1>1. TypeOK /\ [Next]_vars => TypeOK'
  BY Zenon, TypeStep
<1> QED
  BY <1>1, TypeInit, PTL DEF Spec

-----------------------------------------------------------------------------
(* What each operation does to its connection, when flows are not shared *)

ConnState(c) ==
  <<status[c], wire[c], sflows[c], announced[c], replier[c], said[c], rflows[c],
    outstanding[c], rpc[c], unacked[c]>>

(* A step of connection c alone. *)
Local(c) ==
  /\ UNCHANGED <<ctxDone, expired, slog, squeue>>
  /\ \A d \in Conns \ {c} : ConnState(d)' = ConnState(d)

LEMMA Unshared ==
  ASSUME ~SharedFlows
  PROVE  Keys = Conns /\ \A c \in Conns : Key(c) = c /\ c # NoFlow
  BY Zenon, SubmissionAssumption DEF Keys, Key, NoFlow

LEMMA OwnFlowIsUsed ==
  ASSUME ~SharedFlows, NEW c \in Conns, OwnFlow(c)
  PROVE  /\ forConnection(rflows, c) = c /\ forConnection(sflows, c) = c
         /\ created(rflows, c) <=> rflows[c] = NoFlow
         /\ created(sflows, c) <=> sflows[c] = NoFlow
         /\ wire[c].type # "silence" => status[c] = "up"
  BY Unshared DEF forConnection, created, OwnFlow, Silence

LEMMA ConnectEffect ==
  ASSUME TypeOK, ~SharedFlows, NEW c \in Conns, Connect(c)
  PROVE  /\ Local(c)
         /\ status[c] = "new" /\ status'[c] = "up" /\ rpc'[c] = "start"
         /\ UNCHANGED <<wire[c], sflows[c], announced[c], replier[c], said[c], rflows[c],
                        outstanding[c], unacked[c]>>
  BY Zenon DEF TypeOK, Connect, Local, ConnState, topicS, flowS

LEMMA DisconnectEffect ==
  ASSUME TypeOK, ~SharedFlows, NEW c \in Conns, Disconnect(c)
  PROVE  /\ Local(c)
         /\ status[c] = "up" /\ status'[c] = "down" /\ wire'[c] = Silence
         /\ UNCHANGED <<sflows[c], announced[c], replier[c], said[c], rflows[c],
                        outstanding[c], rpc[c], unacked[c]>>
  BY Zenon DEF TypeOK, Disconnect, Local, ConnState, topicS, flowS, flowR

LEMMA DropEffect ==
  ASSUME TypeOK, ~SharedFlows, NEW c \in Conns, OwnFlow(c),
         DropSenderFlow(c) \/ DropReceiverFlow(c)
  PROVE  /\ Local(c)
         /\ \/ /\ sflows'[c] = NoFlow /\ rflows'[c] = rflows[c]
               /\ status[c] = "down" \/ ctxDone["S"]
            \/ /\ rflows'[c] = NoFlow /\ sflows'[c] = sflows[c]
               /\ status[c] = "down" \/ ctxDone["R"]
         /\ UNCHANGED <<status[c], wire[c], announced[c], replier[c], said[c],
                        outstanding[c], rpc[c], unacked[c]>>
<1>1. Keys = Conns
  BY Zenon, Unshared
<1>2. CASE DropSenderFlow(c)
  BY Zenon, <1>1, <1>2 DEF TypeOK, DropSenderFlow, mayDrop, OwnFlow, Local, ConnState, topicS, flowR
<1>3. CASE DropReceiverFlow(c)
  BY Zenon, <1>1, <1>3 DEF TypeOK, DropReceiverFlow, mayDrop, OwnFlow, Local, ConnState, topicS, flowS
<1> QED
  BY Zenon, <1>2, <1>3

LEMMA OnRequestIdsEffect ==
  ASSUME TypeOK, ~SharedFlows, NEW c \in Conns, OwnFlow(c), OnRequestIds(c)
  PROVE  /\ Local(c)
         /\ wire[c].type = "requestIds" /\ status[c] = "up" /\ wire'[c] = Silence
         /\ sflows'[c] = c
         /\ announced'[c] = IF sflows[c] = NoFlow THEN {} ELSE announced[c]
         /\ replier'[c] = [pc |-> "read", flow |-> c, queued |-> {}]
         /\ unacked'[c] = IF wire[c].ack >= unacked[c] THEN 0 ELSE unacked[c] - wire[c].ack
         /\ UNCHANGED <<status[c], said[c], rflows[c], outstanding[c], rpc[c]>>
<1>1. Keys = Conns /\ Key(c) = c
  BY Zenon, Unshared
<1>2. /\ sflows' = [sflows EXCEPT ![c] = c]
      /\ announced' = IF sflows[c] = NoFlow THEN [announced EXCEPT ![c] = {}] ELSE announced
      /\ replier' = [replier EXCEPT ![c] = [pc |-> "read", flow |-> c, queued |-> {}]]
      /\ wire[c].type = "requestIds" /\ status[c] = "up"
  BY Zenon, <1>1, OwnFlowIsUsed DEF OnRequestIds
<1>3. /\ unacked' = [unacked EXCEPT ![c] = IF wire[c].ack >= unacked[c] THEN 0
                                          ELSE unacked[c] - wire[c].ack]
      /\ wire' = [wire EXCEPT ![c] = Silence]
      /\ UNCHANGED <<status, ctxDone, expired, topicS, said, flowR>>
  BY Zenon, <1>2 DEF OnRequestIds, send
<1>4. /\ sflows'[c] = c /\ \A d \in Conns \ {c} : sflows'[d] = sflows[d]
      /\ replier'[c] = [pc |-> "read", flow |-> c, queued |-> {}]
      /\ \A d \in Conns \ {c} : replier'[d] = replier[d]
      /\ wire'[c] = Silence /\ \A d \in Conns \ {c} : wire'[d] = wire[d]
  BY Zenon, <1>1, <1>2, <1>3 DEF TypeOK
<1>5. /\ unacked'[c] = IF wire[c].ack >= unacked[c] THEN 0 ELSE unacked[c] - wire[c].ack
      /\ \A d \in Conns \ {c} : unacked'[d] = unacked[d]
  BY Zenon, <1>3 DEF TypeOK
<1>6. /\ announced'[c] = IF sflows[c] = NoFlow THEN {} ELSE announced[c]
      /\ \A d \in Conns \ {c} : announced'[d] = announced[d]
  BY Zenon, <1>2 DEF TypeOK
<1>7. Local(c)
  BY Zenon, <1>3, <1>4, <1>5, <1>6 DEF Local, ConnState, topicS, flowR
<1> QED
  BY Zenon, <1>2, <1>3, <1>4, <1>5, <1>6, <1>7 DEF flowR

LEMMA ReadQueueEffect ==
  ASSUME TypeOK, ~SharedFlows, NEW c \in Conns, ReadQueue(c)
  PROVE  /\ Local(c)
         /\ replier[c].pc \in {"read", "wait"}
         /\ replier'[c].pc = "mark" /\ replier'[c].flow = replier[c].flow
         /\ replier'[c].queued = live
         /\ UNCHANGED <<status[c], wire[c], sflows[c], announced[c], said[c], rflows[c],
                        outstanding[c], rpc[c], unacked[c]>>
<1>1. replier \in [Conns -> Replier]
  BY Zenon DEF TypeOK, Replier
<1>2. /\ replier[c].pc \in {"read", "wait"}
      /\ replier' = [replier EXCEPT ![c].pc = "mark", ![c].queued = live]
  BY Zenon DEF ReadQueue
<1>3. /\ replier'[c].pc = "mark" /\ replier'[c].flow = replier[c].flow
      /\ replier'[c].queued = live /\ \A d \in Conns \ {c} : replier'[d] = replier[d]
  BY Zenon, <1>1, <1>2 DEF Replier
<1> QED
  BY Zenon, <1>2, <1>3 DEF ReadQueue, Local, ConnState, topicS, flowR

(* Announcing ids, and going on waiting. *)
LEMMA AnnounceEffect ==
  ASSUME TypeOK, ~SharedFlows, NEW c \in Conns, OwnFlow(c), Announce(c)
  PROVE  /\ Local(c)
         /\ replier[c].pc = "mark"
         /\ \E ids \in SUBSET replier[c].queued :
              /\ newIDs(announced[c], replier[c].queued, ids)
              /\ announced'[c] = remember(announced[c], replier[c].queued, ids)
              /\ \/ /\ ids # {} /\ replier'[c].pc = "off"
                    /\ wire'[c] = IF status[c] = "up" THEN ReplyIds(ids) ELSE Silence
                    /\ ~ctxDone["S"] => said'[c] = said[c] \cup ids
                    /\ unacked'[c] = AtMost(2 * RequestCount, unacked[c] + Cardinality(ids))
                 \/ /\ ids = {} /\ replier'[c].pc = "wait"
                    /\ replier'[c].flow = replier[c].flow
                    /\ UNCHANGED <<wire[c], said[c], unacked[c]>>
         /\ UNCHANGED <<status[c], sflows[c], rflows[c], outstanding[c], rpc[c]>>
<1> DEFINE Q == replier[c].queued
<1>1. replier[c].pc = "mark" /\ replier[c].flow = c
  BY Zenon DEF Announce, OwnFlow
<1>2. PICK ids \in SUBSET Q :
        /\ newIDs(announced[c], Q, ids)
        /\ announced' = [announced EXCEPT ![c] = remember(@, Q, ids)]
        /\ IF ids # {}
           THEN /\ send(c, ReplyIds(ids))
                /\ replier' = [replier EXCEPT ![c] = NoReplier]
                /\ said' = IF ctxDone["S"] THEN said ELSE [said EXCEPT ![c] = @ \cup ids]
                /\ unacked' = [unacked EXCEPT ![c] = AtMost(2 * RequestCount, @ + Cardinality(ids))]
           ELSE /\ replier' = [replier EXCEPT ![c].pc = "wait", ![c].queued = {}]
                /\ UNCHANGED <<wire, said, unacked>>
  BY Zenon, <1>1 DEF Announce, mayReply
<1>3. UNCHANGED <<status, ctxDone, expired, topicS, sflows, topicR, flowR>>
  BY Zenon DEF Announce
<1>4. /\ announced'[c] = remember(announced[c], Q, ids)
      /\ \A d \in Conns \ {c} : announced'[d] = announced[d]
  BY Zenon, <1>2 DEF TypeOK
<1>5. replier \in [Conns -> Replier]
  BY Zenon DEF TypeOK, Replier
<1> HIDE DEF Q
<1>6. CASE ids # {}
  <2>1. /\ replier'[c].pc = "off" /\ \A d \in Conns \ {c} : replier'[d] = replier[d]
    BY <1>2, <1>5, <1>6 DEF NoReplier
  <2>2. /\ wire'[c] = IF status[c] = "up" THEN ReplyIds(ids) ELSE Silence
        /\ \A d \in Conns \ {c} : wire'[d] = wire[d]
    BY Zenon, <1>2, <1>6 DEF TypeOK, send
  <2>3. /\ ~ctxDone["S"] => said'[c] = said[c] \cup ids
        /\ \A d \in Conns \ {c} : said'[d] = said[d]
    BY Zenon, <1>2, <1>6 DEF TypeOK
  <2>4. /\ unacked'[c] = AtMost(2 * RequestCount, unacked[c] + Cardinality(ids))
        /\ \A d \in Conns \ {c} : unacked'[d] = unacked[d]
    BY Zenon, <1>2, <1>6 DEF TypeOK
  <2>5. Local(c)
    BY Zenon, <1>3, <1>4, <2>1, <2>2, <2>3, <2>4 DEF Local, ConnState, topicS, flowR
  <2> QED
    BY Zenon, <1>1, <1>2, <1>3, <1>4, <1>6, <2>1, <2>2, <2>3, <2>4, <2>5 DEF flowR, Q
<1>7. CASE ids = {}
  <2>1. /\ replier'[c].pc = "wait" /\ replier'[c].flow = replier[c].flow
        /\ \A d \in Conns \ {c} : replier'[d] = replier[d]
    BY <1>2, <1>5, <1>7 DEF Replier
  <2>2. UNCHANGED <<wire, said, unacked>>
    BY Zenon, <1>2, <1>7
  <2>3. Local(c)
    BY Zenon, <1>3, <1>4, <2>1, <2>2 DEF Local, ConnState, topicS, flowR
  <2> QED
    BY Zenon, <1>1, <1>2, <1>3, <1>4, <1>7, <2>1, <2>2, <2>3 DEF flowR, Q
<1> QED
  BY Zenon, <1>6, <1>7

LEMMA StopHoldingEffect ==
  ASSUME TypeOK, ~SharedFlows, NEW c \in Conns, StopHolding(c)
  PROVE  /\ Local(c) /\ replier'[c].pc = "off"
         /\ UNCHANGED <<status[c], wire[c], sflows[c], announced[c], said[c], rflows[c],
                        outstanding[c], rpc[c], unacked[c]>>
  BY Zenon DEF TypeOK, StopHolding, NoReplier, Local, ConnState, topicS, flowR

LEMMA OnRequestMessagesEffect ==
  ASSUME TypeOK, ~SharedFlows, NEW c \in Conns, OwnFlow(c), OnRequestMessages(c)
  PROVE  /\ Local(c)
         /\ wire[c].type = "requestMessages" /\ status[c] = "up"
         /\ wire'[c].type = "replyMessages"
         /\ UNCHANGED <<status[c], sflows[c], announced[c], replier[c], said[c], rflows[c],
                        outstanding[c], rpc[c], unacked[c]>>
<1>1. wire[c].type = "requestMessages" /\ status[c] = "up"
  BY Zenon, OwnFlowIsUsed DEF OnRequestMessages
<1>2. PICK ids : send(c, ReplyMessages(ids))
  BY Zenon DEF OnRequestMessages
<1>3. wire'[c] = ReplyMessages(ids) /\ \A d \in Conns \ {c} : wire'[d] = wire[d]
  BY Zenon, <1>1, <1>2 DEF TypeOK, send
<1>4. wire'[c].type = "replyMessages"
  BY <1>3 DEF ReplyMessages
<1> QED
  BY Zenon, <1>1, <1>3, <1>4 DEF OnRequestMessages, Local, ConnState, topicS, flowS, flowR

(* requestIDs with what the flow holds, after StartPull or the messages. *)
LEMMA PullEffect ==
  ASSUME TypeOK, ~SharedFlows, NEW c \in Conns, OwnFlow(c), StartPull(c) \/ RequestAgain(c)
  PROVE  /\ Local(c)
         /\ rpc[c] \in {"start", "submit"} /\ rpc'[c] = "idle"
         /\ rflows'[c] = c
         /\ wire'[c] = IF status[c] = "up"
                       THEN RequestIds(IF rflows[c] = NoFlow THEN 0 ELSE outstanding[c])
                       ELSE Silence
         /\ UNCHANGED <<status[c], sflows[c], announced[c], replier[c], said[c], unacked[c]>>
<1>1. Keys = Conns /\ Key(c) = c
  BY Zenon, Unshared
<1>2. /\ rpc[c] \in {"start", "submit"} /\ rpc' = [rpc EXCEPT ![c] = "idle"]
      /\ rflows' = [rflows EXCEPT ![c] = c]
      /\ outstanding' = [outstanding EXCEPT ![c] = 0]
      /\ send(c, RequestIds(IF rflows[c] = NoFlow THEN 0 ELSE outstanding[c]))
  BY Zenon, <1>1, OwnFlowIsUsed DEF StartPull, RequestAgain, requestIDs, unacknowledged
<1>3. UNCHANGED <<status, ctxDone, expired, topicS, flowS, topicR, inbox, unacked>>
  BY Zenon DEF StartPull, RequestAgain
<1> QED
  BY Zenon, <1>1, <1>2, <1>3 DEF TypeOK, send, Local, ConnState, topicS, flowS

LEMMA OnReplyIdsEffect ==
  ASSUME TypeOK, ~SharedFlows, NEW c \in Conns, OwnFlow(c), OnReplyIds(c)
  PROVE  /\ Local(c)
         /\ wire[c].type = "replyIds" /\ status[c] = "up"
         /\ rflows'[c] = c
         /\ \/ wire'[c].type = "requestMessages" /\ outstanding'[c] = Cardinality(wire[c].ids)
            \/ wire'[c] = RequestIds(Cardinality(wire[c].ids))
         /\ UNCHANGED <<status[c], sflows[c], announced[c], replier[c], said[c], rpc[c],
                        unacked[c]>>
<1>1. Keys = Conns /\ Key(c) = c
  BY Zenon, Unshared
<1>2. wire[c].type = "replyIds" /\ status[c] = "up"
  BY Zenon, OwnFlowIsUsed DEF OnReplyIds
<1>3. /\ rflows' = [rflows EXCEPT ![c] = c]
      /\ \/ /\ outstanding' = [outstanding EXCEPT ![c] = Cardinality(wire[c].ids)]
            /\ \E w : wire' = [wire EXCEPT ![c] = RequestMessages(w)]
         \/ /\ outstanding' = [outstanding EXCEPT ![c] = 0]
            /\ wire' = [wire EXCEPT ![c] = RequestIds(Cardinality(wire[c].ids))]
  BY Zenon, <1>1, <1>2, OwnFlowIsUsed DEF OnReplyIds, requestIDs, countIDs, send
<1>4. UNCHANGED <<status, ctxDone, expired, topicS, flowS, topicR, rpc, inbox, unacked>>
  BY Zenon DEF OnReplyIds
<1> QED
  BY <1>1, <1>2, <1>3, <1>4 DEF TypeOK, RequestMessages, Local, ConnState, topicS, flowS

LEMMA OnReplyMessagesEffect ==
  ASSUME TypeOK, ~SharedFlows, NEW c \in Conns, OwnFlow(c), OnReplyMessages(c)
  PROVE  /\ Local(c)
         /\ wire[c].type = "replyMessages" /\ status[c] = "up"
         /\ wire'[c] = Silence /\ rpc'[c] = "submit"
         /\ UNCHANGED <<status[c], sflows[c], announced[c], replier[c], said[c], rflows[c],
                        outstanding[c], unacked[c]>>
<1>1. wire[c].type = "replyMessages" /\ status[c] = "up"
  BY Zenon, OwnFlowIsUsed DEF OnReplyMessages
<1> QED
  BY Zenon, <1>1 DEF TypeOK, OnReplyMessages, send, Local, ConnState, topicS, flowS

(* The other steps leave all connections as they are. *)
LEMMA ElsewhereEffect ==
  ASSUME TypeOK,
         \/ \E m \in Ids : Expire(m) \/ SubmitElsewhere(m)
         \/ \E m \in Ids, old \in SUBSET Overtaken : AcceptAtSender(m, old)
         \/ \E old \in SUBSET Overtaken : RefuseAtSender(old)
         \/ \E c \in Conns : SubmitNext(c)
         \/ \E n \in {"S", "R"} : CancelContext(n)
         \/ UNCHANGED vars
  PROVE  /\ \A c \in Conns : ConnState(c)' = ConnState(c)
         /\ \A n \in {"S", "R"} : ~ctxDone'[n] => ~ctxDone[n]
<1>1. UNCHANGED <<status, wire, flowS, rflows, outstanding, rpc, unacked>>
  BY Zenon DEF Expire, AcceptAtSender, RefuseAtSender, SubmitElsewhere, SubmitNext, CancelContext,
         vars, flowR
<1>2. UNCHANGED ctxDone \/ \E n \in {"S", "R"} : ctxDone' = [ctxDone EXCEPT ![n] = TRUE]
  BY Zenon DEF Expire, AcceptAtSender, RefuseAtSender, SubmitElsewhere, SubmitNext, CancelContext,
         vars
<1>3. ctxDone \in [{"S", "R"} -> BOOLEAN]
  BY Zenon DEF TypeOK
<1>4. \A n \in {"S", "R"} : ~ctxDone'[n] => ~ctxDone[n]
  BY <1>2, <1>3, Zenon
<1>5. \A c \in Conns : ConnState(c)' = ConnState(c)
  BY <1>1, Zenon DEF ConnState, topicS, flowS
<1> QED
  BY Zenon, <1>4, <1>5

(* The three of a connection by the values they are about. *)
Turn(c, st, w, sf, rf, pc, fl, sd, rc, out, un, done) ==
  /\ rf \in {NoFlow, c} /\ sf \in {NoFlow, c}
  /\ pc # "off" => fl = c
  /\ st # "up" => w = Silence
  /\ st = "new" => rc = "idle" /\ pc = "off" /\ sd = {} /\ rf = NoFlow /\ un = 0
  /\ st = "up" => /\ rc # "idle" => w = Silence /\ pc = "off"
                  /\ pc # "off" => w = Silence
  /\ st = "up" /\ ~done =>
       /\ rc = "start" => rf = NoFlow /\ un = 0
       /\ pc # "off" => un = 0
       /\ w.type = "requestIds" => w.ack = un
       /\ w.type = "replyIds" => Cardinality(w.ids) = un
       /\ w.type \in {"requestMessages", "replyMessages"} \/ rc = "submit"
            => rf = c /\ out = un

LEMMA MessageTypes ==
  /\ Silence.type = "silence"
  /\ \A n : RequestIds(n).type = "requestIds" /\ RequestIds(n).ack = n
  /\ \A b : ReplyIds(b).type = "replyIds" /\ ReplyIds(b).ids = b
  BY Zenon DEF Silence, RequestIds, ReplyIds

(* What keeps it: the connection comes up and goes down; *)
LEMMA TurnOfConnection ==
  ASSUME NEW c, NEW st, NEW w, NEW sf, NEW rf, NEW pc, NEW fl, NEW sd, NEW rc, NEW out, NEW un,
         NEW done, Turn(c, st, w, sf, rf, pc, fl, sd, rc, out, un, done)
  PROVE  /\ st = "new" => Turn(c, "up", w, sf, rf, pc, fl, sd, "start", out, un, done)
         /\ st = "up" => Turn(c, "down", Silence, sf, rf, pc, fl, sd, rc, out, un, done)
         /\ Turn(c, st, w, NoFlow, rf, pc, fl, sd, rc, out, un, done)
         /\ st = "down" \/ done => Turn(c, st, w, sf, NoFlow, pc, fl, sd, rc, out, un, done)
<1> USE MessageTypes DEF Turn
<1>1. st = "new" => Turn(c, "up", w, sf, rf, pc, fl, sd, "start", out, un, done)
  BY Zenon
<1>2. st = "up" => Turn(c, "down", Silence, sf, rf, pc, fl, sd, rc, out, un, done)
  BY Zenon
<1>3. Turn(c, st, w, NoFlow, rf, pc, fl, sd, rc, out, un, done)
  BY Zenon
<1>4. st = "down" \/ done => Turn(c, st, w, sf, NoFlow, pc, fl, sd, rc, out, un, done)
  BY Zenon
<1> HIDE DEF Turn
<1> QED
  BY Zenon, <1>1, <1>2, <1>3, <1>4

(* S gets a request; *)
LEMMA TurnOfRequest ==
  ASSUME NEW c, NEW st, NEW w, NEW sf, NEW rf, NEW pc, NEW fl, NEW sd, NEW rc, NEW out, NEW un,
         NEW done, Turn(c, st, w, sf, rf, pc, fl, sd, rc, out, un, done),
         w.type = "requestIds", st = "up"
  PROVE  /\ ~done => w.ack = un
         /\ \A u : (~done => u = 0) =>
              Turn(c, st, Silence, c, rf, "read", c, sd, rc, out, u, done)
  BY Zenon, MessageTypes DEF Turn

(* reads the queue, or waits for more; *)
LEMMA TurnOfQueue ==
  ASSUME NEW c, NEW st, NEW w, NEW sf, NEW rf, NEW pc, NEW fl, NEW sd, NEW rc, NEW out, NEW un,
         NEW done, Turn(c, st, w, sf, rf, pc, fl, sd, rc, out, un, done),
         pc # "off", NEW p \in {"mark", "wait"}
  PROVE  Turn(c, st, w, sf, rf, p, fl, sd, rc, out, un, done)
  BY Zenon, MessageTypes DEF Turn

(* gives up; *)
LEMMA TurnOfStop ==
  ASSUME NEW c, NEW st, NEW w, NEW sf, NEW rf, NEW pc, NEW fl, NEW sd, NEW rc, NEW out, NEW un,
         NEW done, Turn(c, st, w, sf, rf, pc, fl, sd, rc, out, un, done),
         NEW f
  PROVE  Turn(c, st, w, sf, rf, "off", f, sd, rc, out, un, done)
  BY Zenon, MessageTypes DEF Turn

(* gets a request for messages; *)
LEMMA TurnOfMessages ==
  ASSUME NEW c, NEW st, NEW w, NEW sf, NEW rf, NEW pc, NEW fl, NEW sd, NEW rc, NEW out, NEW un,
         NEW done, Turn(c, st, w, sf, rf, pc, fl, sd, rc, out, un, done),
         w.type = "requestMessages", st = "up", NEW v, v.type = "replyMessages"
  PROVE  Turn(c, st, v, sf, rf, pc, fl, sd, rc, out, un, done)
  BY Zenon, MessageTypes DEF Turn

(* R gets the messages. *)
LEMMA TurnOfReceipt ==
  ASSUME NEW c, NEW st, NEW w, NEW sf, NEW rf, NEW pc, NEW fl, NEW sd, NEW rc, NEW out, NEW un,
         NEW done, Turn(c, st, w, sf, rf, pc, fl, sd, rc, out, un, done),
         w.type = "replyMessages", st = "up"
  PROVE  Turn(c, st, Silence, sf, rf, pc, fl, sd, "submit", out, un, done)
  BY Zenon, MessageTypes DEF Turn

LEMMA FlowInit == Init /\ ~SharedFlows => FlowInv
  BY Unshared DEF Init, FlowInv, OwnFlow, OneTurn, AcksKnown, NoReplier, Silence

LEMMA FlowStep ==
  ASSUME TypeOK, ~SharedFlows, FlowInv, [Next]_vars
  PROVE  FlowInv'
<1> DEFINE At(c) == Turn(c, status[c], wire[c], sflows[c], rflows[c], replier[c].pc,
                         replier[c].flow, said[c], rpc[c], outstanding[c], unacked[c],
                         ctxDone["R"])
<1>a. ASSUME NEW c \in Conns
      PROVE  (OwnFlow(c) /\ OneTurn(c) /\ AcksKnown(c)) <=> At(c)
  BY Zenon DEF OwnFlow, OneTurn, AcksKnown, Turn
<1>b. ASSUME NEW c \in Conns
      PROVE  (OwnFlow(c) /\ OneTurn(c) /\ AcksKnown(c))' <=> At(c)'
  BY Zenon DEF OwnFlow, OneTurn, AcksKnown, Turn
<1>0. ASSUME NEW c \in Conns, ConnState(c)' = ConnState(c), ~ctxDone'["R"] => ~ctxDone["R"]
      PROVE  At(c)'
  <2>1. /\ status'[c] = status[c] /\ wire'[c] = wire[c] /\ sflows'[c] = sflows[c]
        /\ rflows'[c] = rflows[c] /\ replier'[c] = replier[c] /\ said'[c] = said[c]
        /\ rpc'[c] = rpc[c] /\ outstanding'[c] = outstanding[c] /\ unacked'[c] = unacked[c]
    BY Zenon, <1>0 DEF ConnState
  <2>2. At(c)
    BY Zenon, <1>a DEF FlowInv
  <2> QED
    BY Zenon, <1>0, <2>1, <2>2 DEF Turn
<1>1. ASSUME NEW c \in Conns, Local(c), At(c)'
      PROVE  FlowInv'
  <2>1. ASSUME NEW d \in Conns PROVE At(d)'
    <3>1. d # c => ConnState(d)' = ConnState(d)
      BY Zenon, <1>1 DEF Local
    <3>2. ctxDone' = ctxDone
      BY Zenon, <1>1 DEF Local
    <3> QED
      BY Zenon, <1>0, <1>1, <3>1, <3>2
  <2> QED
    BY Zenon, <1>b, <2>1 DEF FlowInv
<1>2. \A c \in Conns : At(c) /\ OwnFlow(c) /\ c # NoFlow
  BY Zenon, <1>a, Unshared DEF FlowInv
<1>c. ASSUME NEW c \in Conns, Local(c)
      PROVE  ctxDone' = ctxDone
  BY Zenon, <1>c DEF Local
<1>3. CASE \/ \E m \in Ids : Expire(m) \/ SubmitElsewhere(m)
           \/ \E m \in Ids, old \in SUBSET Overtaken : AcceptAtSender(m, old)
           \/ \E old \in SUBSET Overtaken : RefuseAtSender(old)
           \/ \E c \in Conns : SubmitNext(c)
           \/ \E n \in {"S", "R"} : CancelContext(n)
           \/ UNCHANGED vars
  <2>1. ASSUME NEW c \in Conns PROVE At(c)'
    BY Zenon, <1>0, <1>3, ElsewhereEffect
  <2> QED
    BY Zenon, <1>b, <2>1 DEF FlowInv
<1>4. ASSUME NEW c \in Conns, Connect(c)
      PROVE  FlowInv'
  <2>1. /\ Local(c) /\ status[c] = "new" /\ status'[c] = "up" /\ rpc'[c] = "start"
        /\ wire'[c] = wire[c] /\ sflows'[c] = sflows[c] /\ replier'[c] = replier[c]
        /\ said'[c] = said[c] /\ rflows'[c] = rflows[c] /\ outstanding'[c] = outstanding[c]
        /\ unacked'[c] = unacked[c]
    BY Zenon, <1>4, ConnectEffect
  <2> QED
    BY <1>1, <1>2, <1>c, <2>1, TurnOfConnection
<1>5. ASSUME NEW c \in Conns, Disconnect(c)
      PROVE  FlowInv'
  <2>1. /\ Local(c) /\ status[c] = "up" /\ status'[c] = "down" /\ wire'[c] = Silence
        /\ sflows'[c] = sflows[c] /\ replier'[c] = replier[c] /\ said'[c] = said[c]
        /\ rflows'[c] = rflows[c] /\ outstanding'[c] = outstanding[c] /\ rpc'[c] = rpc[c]
        /\ unacked'[c] = unacked[c]
    BY Zenon, <1>5, DisconnectEffect
  <2> QED
    BY <1>1, <1>2, <1>c, <2>1, TurnOfConnection
<1>6. ASSUME NEW c \in Conns, OnRequestIds(c)
      PROVE  FlowInv'
  <2>1. wire[c].ack \in Nat /\ unacked[c] \in Nat
    BY <1>6, MessageFields, SubmissionAssumption DEF OnRequestIds, TypeOK
  <2>2. /\ Local(c) /\ wire[c].type = "requestIds" /\ status[c] = "up" /\ wire'[c] = Silence
        /\ sflows'[c] = c /\ replier'[c] = [pc |-> "read", flow |-> c, queued |-> {}]
        /\ unacked'[c] = IF wire[c].ack >= unacked[c] THEN 0 ELSE unacked[c] - wire[c].ack
        /\ status'[c] = status[c] /\ rflows'[c] = rflows[c] /\ said'[c] = said[c]
        /\ outstanding'[c] = outstanding[c] /\ rpc'[c] = rpc[c]
    BY Zenon, <1>2, <1>6, OnRequestIdsEffect
  <2>3. replier'[c].pc = "read" /\ replier'[c].flow = c
    BY <2>2
  <2>4. ~ctxDone["R"] => wire[c].ack = unacked[c]
    BY <1>2, <2>2, TurnOfRequest
  <2>5. ~ctxDone["R"] => unacked'[c] = 0
    BY <2>1, <2>2, <2>4
  <2> QED
    BY <1>1, <1>2, <1>c, <2>2, <2>3, <2>5, TurnOfRequest
<1>7. ASSUME NEW c \in Conns, ReadQueue(c)
      PROVE  FlowInv'
  <2>1. /\ Local(c) /\ replier[c].pc \in {"read", "wait"}
        /\ replier'[c].pc = "mark" /\ replier'[c].flow = replier[c].flow
        /\ status'[c] = status[c] /\ wire'[c] = wire[c] /\ sflows'[c] = sflows[c]
        /\ said'[c] = said[c] /\ rflows'[c] = rflows[c] /\ outstanding'[c] = outstanding[c]
        /\ rpc'[c] = rpc[c] /\ unacked'[c] = unacked[c]
    BY Zenon, <1>7, ReadQueueEffect
  <2>2. replier[c].pc # "off" /\ "mark" \in {"mark", "wait"}
    BY Zenon, <2>1
  <2> QED
    BY Zenon, <1>1, <1>2, <1>c, <2>1, <2>2, TurnOfQueue
<1>8. ASSUME NEW c \in Conns, Announce(c)
      PROVE  FlowInv'
  <2>1. PICK ids \in SUBSET replier[c].queued :
              /\ newIDs(announced[c], replier[c].queued, ids)
              /\ \/ /\ replier'[c].pc = "off"
                    /\ wire'[c] = IF status[c] = "up" THEN ReplyIds(ids) ELSE Silence
                    /\ unacked'[c] = AtMost(2 * RequestCount, unacked[c] + Cardinality(ids))
                 \/ /\ replier'[c].pc = "wait"
                    /\ replier'[c].flow = replier[c].flow
                    /\ wire'[c] = wire[c] /\ said'[c] = said[c] /\ unacked'[c] = unacked[c]
    BY Zenon, <1>2, <1>8, AnnounceEffect
  <2>2. Cardinality(ids) \in Nat /\ Cardinality(ids) <= RequestCount
    <3>1. ids \in SUBSET Numbers
      BY Zenon, <2>1 DEF TypeOK
    <3> QED
      BY Zenon, <2>1, <3>1, Finite DEF newIDs
  <2>3. unacked[c] = 0 => AtMost(2 * RequestCount, unacked[c] + Cardinality(ids)) = Cardinality(ids)
    BY <2>2, SubmissionAssumption DEF AtMost
  <2>4. /\ Local(c) /\ replier[c].pc = "mark"
        /\ status'[c] = status[c] /\ sflows'[c] = sflows[c] /\ rflows'[c] = rflows[c]
        /\ outstanding'[c] = outstanding[c] /\ rpc'[c] = rpc[c]
    BY Zenon, <1>2, <1>8, AnnounceEffect
  <2>5. replier[c].pc # "off" /\ "wait" \in {"mark", "wait"}
    BY Zenon, <2>4
  <2>6. CASE /\ replier'[c].pc = "off"
             /\ wire'[c] = IF status[c] = "up" THEN ReplyIds(ids) ELSE Silence
             /\ unacked'[c] = AtMost(2 * RequestCount, unacked[c] + Cardinality(ids))
    <3>1. unacked[c] = 0 => unacked'[c] = Cardinality(ids)
      BY Zenon, <2>3, <2>6
    <3>2. status[c] # "up" => wire'[c] = Silence
      BY Zenon, <2>6
    <3>3. status[c] = "up" => /\ wire'[c].type = "replyIds"
                              /\ unacked[c] = 0 => unacked'[c] = Cardinality(wire'[c].ids)
      <4>1. status[c] = "up" => wire'[c].type = "replyIds" /\ wire'[c].ids = ids
        BY Zenon, <2>6, MessageTypes
      <4> QED
        BY Zenon, <3>1, <4>1
    <3>4. At(c) /\ replier[c].pc # "off"
      BY Zenon, <1>2, <2>5
    <3>5. Turn(c, status[c], wire'[c], sflows[c], rflows[c], "off", replier'[c].flow, said'[c],
               rpc[c], outstanding[c], unacked'[c], ctxDone["R"])
      BY Zenon, <3>2, <3>3, <3>4, MessageTypes DEF Turn
    <3> QED
      BY Zenon, <1>1, <1>c, <2>4, <2>6, <3>5
  <2>7. CASE /\ replier'[c].pc = "wait" /\ replier'[c].flow = replier[c].flow
             /\ wire'[c] = wire[c] /\ said'[c] = said[c] /\ unacked'[c] = unacked[c]
    BY Zenon, <1>1, <1>2, <1>c, <2>4, <2>5, <2>7, TurnOfQueue
  <2> QED
    BY Zenon, <2>1, <2>6, <2>7
<1>9. ASSUME NEW c \in Conns, StopHolding(c)
      PROVE  FlowInv'
  <2>1. /\ Local(c) /\ replier'[c].pc = "off"
        /\ status'[c] = status[c] /\ wire'[c] = wire[c] /\ sflows'[c] = sflows[c]
        /\ said'[c] = said[c] /\ rflows'[c] = rflows[c] /\ outstanding'[c] = outstanding[c]
        /\ rpc'[c] = rpc[c] /\ unacked'[c] = unacked[c]
    BY Zenon, <1>9, StopHoldingEffect
  <2> QED
    BY <1>1, <1>2, <1>c, <2>1, TurnOfStop
<1>10. ASSUME NEW c \in Conns, OnRequestMessages(c)
      PROVE  FlowInv'
  <2>1. /\ Local(c) /\ wire[c].type = "requestMessages" /\ status[c] = "up"
        /\ wire'[c].type = "replyMessages"
        /\ status'[c] = status[c] /\ sflows'[c] = sflows[c] /\ replier'[c] = replier[c]
        /\ said'[c] = said[c] /\ rflows'[c] = rflows[c] /\ outstanding'[c] = outstanding[c]
        /\ rpc'[c] = rpc[c] /\ unacked'[c] = unacked[c]
    BY Zenon, <1>2, <1>10, OnRequestMessagesEffect
  <2> QED
    BY Zenon, <1>1, <1>2, <1>c, <2>1, TurnOfMessages
<1>11. ASSUME NEW c \in Conns, StartPull(c) \/ RequestAgain(c)
      PROVE  FlowInv'
  <2>1. /\ Local(c) /\ rpc[c] \in {"start", "submit"} /\ rpc'[c] = "idle"
        /\ rflows'[c] = c
        /\ wire'[c] = IF status[c] = "up"
                      THEN RequestIds(IF rflows[c] = NoFlow THEN 0 ELSE outstanding[c])
                      ELSE Silence
        /\ status'[c] = status[c] /\ sflows'[c] = sflows[c] /\ replier'[c] = replier[c]
        /\ said'[c] = said[c] /\ unacked'[c] = unacked[c]
    BY Zenon, <1>2, <1>11, PullEffect
  <2>2. status[c] # "up" => wire'[c] = Silence
    BY Zenon, <2>1
  <2>3. status[c] = "up" => /\ wire'[c].type = "requestIds"
                            /\ wire'[c].ack = IF rflows[c] = NoFlow THEN 0 ELSE outstanding[c]
    <3> DEFINE ack == IF rflows[c] = NoFlow THEN 0 ELSE outstanding[c]
    <3>1. status[c] = "up" => wire'[c] = RequestIds(ack)
      BY Zenon, <2>1
    <3>2. RequestIds(ack).type = "requestIds" /\ RequestIds(ack).ack = ack
      BY Zenon, MessageTypes
    <3> HIDE DEF ack
    <3>3. status[c] = "up" => wire'[c].type = "requestIds" /\ wire'[c].ack = ack
      BY Zenon, <3>1, <3>2
    <3> QED
      BY Zenon, <3>3 DEF ack
  <2>4. Turn(c, status[c], wire'[c], sflows[c], c, replier[c].pc, replier[c].flow, said[c],
             "idle", outstanding'[c], unacked[c], ctxDone["R"])
    <3>1. At(c) /\ c # NoFlow /\ rpc[c] \in {"start", "submit"}
      BY Zenon, <1>2, <2>1
    <3> QED
      BY Zenon, <2>2, <2>3, <3>1, MessageTypes DEF Turn
  <2> QED
    BY Zenon, <1>1, <1>c, <2>1, <2>4
<1>12. ASSUME NEW c \in Conns, OnReplyIds(c)
      PROVE  FlowInv'
  <2>1. /\ Local(c) /\ wire[c].type = "replyIds" /\ status[c] = "up" /\ rflows'[c] = c
        /\ \/ wire'[c].type = "requestMessages" /\ outstanding'[c] = Cardinality(wire[c].ids)
           \/ wire'[c] = RequestIds(Cardinality(wire[c].ids))
        /\ status'[c] = status[c] /\ sflows'[c] = sflows[c] /\ replier'[c] = replier[c]
        /\ said'[c] = said[c] /\ rpc'[c] = rpc[c] /\ unacked'[c] = unacked[c]
    BY Zenon, <1>2, <1>12, OnReplyIdsEffect
  <2>2. \/ wire'[c].type = "requestMessages" /\ outstanding'[c] = Cardinality(wire[c].ids)
        \/ wire'[c].type = "requestIds" /\ wire'[c].ack = Cardinality(wire[c].ids)
    <3>1. /\ RequestIds(Cardinality(wire[c].ids)).type = "requestIds"
          /\ RequestIds(Cardinality(wire[c].ids)).ack = Cardinality(wire[c].ids)
      BY Zenon, MessageTypes
    <3> QED
      BY Zenon, <2>1, <3>1
  <2>3. Turn(c, status[c], wire'[c], sflows[c], c, replier[c].pc, replier[c].flow, said[c],
             rpc[c], outstanding'[c], unacked[c], ctxDone["R"])
    <3>1. At(c) /\ c # NoFlow /\ wire[c].type = "replyIds" /\ status[c] = "up"
      BY Zenon, <1>2, <2>1
    <3> QED
      BY Zenon, <2>2, <3>1, MessageTypes DEF Turn
  <2> QED
    BY Zenon, <1>1, <1>c, <2>1, <2>3
<1>13. ASSUME NEW c \in Conns, OnReplyMessages(c)
      PROVE  FlowInv'
  <2>1. /\ Local(c) /\ wire[c].type = "replyMessages" /\ status[c] = "up"
        /\ wire'[c] = Silence /\ rpc'[c] = "submit"
        /\ status'[c] = status[c] /\ sflows'[c] = sflows[c] /\ replier'[c] = replier[c]
        /\ said'[c] = said[c] /\ rflows'[c] = rflows[c] /\ outstanding'[c] = outstanding[c]
        /\ unacked'[c] = unacked[c]
    BY Zenon, <1>2, <1>13, OnReplyMessagesEffect
  <2>2. Turn(c, status[c], Silence, sflows[c], rflows[c], replier[c].pc, replier[c].flow,
             said[c], "submit", outstanding[c], unacked[c], ctxDone["R"])
    BY Zenon, <1>2, <2>1, TurnOfReceipt
  <2> QED
    BY Zenon, <1>1, <1>c, <2>1, <2>2
<1>14. ASSUME NEW c \in Conns, DropSenderFlow(c) \/ DropReceiverFlow(c)
      PROVE  FlowInv'
  <2>1. /\ Local(c)
        /\ \/ sflows'[c] = NoFlow /\ rflows'[c] = rflows[c]
           \/ /\ rflows'[c] = NoFlow /\ sflows'[c] = sflows[c]
              /\ status[c] = "down" \/ ctxDone["R"]
        /\ status'[c] = status[c] /\ wire'[c] = wire[c] /\ replier'[c] = replier[c]
        /\ said'[c] = said[c] /\ outstanding'[c] = outstanding[c]
        /\ rpc'[c] = rpc[c] /\ unacked'[c] = unacked[c]
    BY Zenon, <1>2, <1>14, DropEffect
  <2> QED
    BY <1>1, <1>2, <1>c, <2>1, TurnOfConnection
<1> HIDE DEF At
<1> QED
  BY Zenon, <1>3, <1>4, <1>5, <1>6, <1>7, <1>8, <1>9, <1>10, <1>11, <1>12, <1>13, <1>14, Unshared
     DEF Next, SenderStep, ReceiverStep

(* On connections with flows of their own, as the NodeToNodeService gives   *)
(* them, every request acknowledges exactly the IDs announced since the     *)
(* request before it while R's context lives (protocol.go:144-157, 244-281).*)
THEOREM SubmissionAcksWhatWasAnnounced == ~SharedFlows /\ Spec => []AcksWhatWasAnnounced
<1>1. FlowInv => AcksWhatWasAnnounced
  BY DEF FlowInv, OwnFlow, AcksKnown, AcksWhatWasAnnounced, Silence
<1>2. TypeOK /\ ~SharedFlows /\ FlowInv /\ [Next]_vars => FlowInv'
  BY Zenon, FlowStep
<1>3. CASE ~SharedFlows
  <2>1. Init => FlowInv
    BY Zenon, <1>3, FlowInit
  <2>2. TypeOK /\ FlowInv /\ [Next]_vars => FlowInv'
    BY Zenon, <1>2, <1>3
  <2> QED
    BY <1>1, <2>1, <2>2, SubmissionTypeOK, PTL DEF Spec
<1> QED
  BY Zenon, <1>3

-----------------------------------------------------------------------------
(* The order of announcements *)

(* Steps that neither announce nor read the queue, which may lose entries. *)
LEMMA StillAnnouncedUpTo ==
  ASSUME NEW c, AnnouncedUpTo(c), slog' = slog, live' \subseteq live,
         said'[c] = said[c],
         announced'[c] = announced[c] \/ (said[c] = {} /\ announced'[c] = {}),
         replier'[c].pc = "mark" => replier'[c] = replier[c],
         status'[c] = "up" /\ sflows'[c] = NoFlow => said[c] = {} /\ replier'[c].pc = "off"
  PROVE  AnnouncedUpTo(c)'
<1>1. IdsOf(said[c])' = IdsOf(said[c])
  BY Zenon DEF IdsOf
<1>2. announced'[c] \subseteq IdsOf(said[c])'
  BY Zenon, <1>1 DEF AnnouncedUpTo
<1>4. KnownOrLater(c, live)'
  BY Zenon DEF AnnouncedUpTo, KnownOrLater
<1>5. replier'[c].pc = "mark" => KnownOrLater(c, replier[c].queued)'
  BY Zenon DEF AnnouncedUpTo, KnownOrLater
<1> QED
  BY Zenon, <1>2, <1>4, <1>5 DEF AnnouncedUpTo

LEMMA AnnounceOthers ==
  ASSUME NEW c, ConnState(c)' = ConnState(c)
  PROVE  /\ said'[c] = said[c] /\ announced'[c] = announced[c] /\ replier'[c] = replier[c]
         /\ status'[c] = status[c] /\ sflows'[c] = sflows[c]
  BY Zenon DEF ConnState

(* An acceptance is later than all that was said or read. *)
LEMMA AcceptKeepsOrder ==
  ASSUME TypeOK, NEW m \in Ids, NEW old, AcceptAtSender(m, old), NEW c \in Conns,
         AnnouncedUpTo(c)
  PROVE  AnnouncedUpTo(c)'
<1> DEFINE n == Len(slog) + 1
           S == said[c]
           Q == replier[c].queued
<1>1. /\ slog' = Append(slog, m) /\ slog \in Seq(Ids) /\ expired' = expired
      /\ squeue' = pruneQueue(old) \cup {n} /\ squeue \subseteq Numbers
      /\ UNCHANGED <<said, announced, replier, status, sflows>>
  BY Zenon DEF AcceptAtSender, flowS, TypeOK
<1>2. \A i \in Numbers : slog'[i] = slog[i] /\ i < n
  BY <1>1 DEF Numbers
<1>3. live' \subseteq live \cup {n} /\ live \subseteq Numbers
  BY Zenon, <1>1, <1>2 DEF live, pruneQueue
<1>4. S \subseteq Numbers /\ Q \subseteq Numbers
  BY Zenon DEF TypeOK
<1>5. announced'[c] \subseteq IdsOf(said[c])'
  <2>1. IdsOf(said[c])' = IdsOf(said[c])
    BY Zenon, <1>1, <1>2, <1>4 DEF IdsOf
  <2> QED
    BY Zenon, <1>1, <2>1 DEF AnnouncedUpTo
<1>6. KnownOrLater(c, live)'
  BY Zenon, <1>1, <1>2, <1>3, <1>4 DEF AnnouncedUpTo, KnownOrLater
<1>7. replier[c].pc = "mark" =>
        /\ KnownOrLater(c, replier[c].queued)'
        /\ \A i \in live' \ Q, k \in S \cup Q : k < i
  BY Zenon, <1>1, <1>2, <1>3, <1>4 DEF AnnouncedUpTo, KnownOrLater
<1> HIDE DEF n
<1> QED
  BY Zenon, <1>1, <1>5, <1>6, <1>7 DEF AnnouncedUpTo

LEMMA ReadKeepsOrder ==
  ASSUME TypeOK, ~SharedFlows, NEW c \in Conns, ReadQueue(c), AnnouncedUpTo(c)
  PROVE  AnnouncedUpTo(c)'
<1>1. /\ slog' = slog /\ squeue' = squeue /\ expired' = expired
      /\ said'[c] = said[c] /\ announced'[c] = announced[c]
      /\ status'[c] = status[c] /\ sflows'[c] = sflows[c]
      /\ replier'[c].pc = "mark" /\ replier'[c].queued = live
      /\ replier[c].pc # "off"
  BY Zenon, ReadQueueEffect DEF Local
<1>2. live' = live
  BY Zenon, <1>1 DEF live
<1>3. announced'[c] \subseteq IdsOf(said[c])'
  BY Zenon, <1>1 DEF AnnouncedUpTo, IdsOf
<1>4. KnownOrLater(c, live)'
  BY Zenon, <1>1, <1>2 DEF AnnouncedUpTo, KnownOrLater
<1>5. KnownOrLater(c, replier[c].queued)'
  BY Zenon, <1>1, <1>2, <1>4 DEF KnownOrLater
<1> QED
  BY Zenon, <1>1, <1>2, <1>3, <1>4, <1>5 DEF AnnouncedUpTo

(* What newIDs announces is later than what has been said, and than what it *)
(* leaves for the next reply it is earlier.                                 *)
LEMMA AnnounceKeepsOrder ==
  ASSUME TypeOK, ~SharedFlows, NEW c \in Conns, OwnFlow(c), Announce(c), AnnouncedUpTo(c),
         ~ctxDone["S"]
  PROVE  /\ AnnouncedUpTo(c)'
         /\ wire'[c].type = "replyIds" => \/ wire[c].type = "replyIds"
                                          \/ \A i \in said[c], j \in wire'[c].ids : i < j
<1> DEFINE S == said[c]
           Q == replier[c].queued
           known == announced[c]
<1>1. /\ slog' = slog /\ squeue' = squeue /\ expired' = expired
      /\ status'[c] = status[c] /\ sflows'[c] = sflows[c]
      /\ replier[c].pc = "mark"
  BY Zenon, AnnounceEffect DEF Local
<1>2. PICK ids \in SUBSET Q :
        /\ newIDs(known, Q, ids) /\ announced'[c] = remember(known, Q, ids)
        /\ \/ /\ ids # {} /\ replier'[c].pc = "off" /\ said'[c] = S \cup ids
              /\ wire'[c] = IF status[c] = "up" THEN ReplyIds(ids) ELSE Silence
           \/ ids = {} /\ replier'[c].pc = "wait" /\ said'[c] = S /\ wire'[c] = wire[c]
  BY Zenon, AnnounceEffect
<1>3. said'[c] = S \cup ids /\ replier'[c].pc # "mark"
  BY Zenon, <1>2
<1>4. live' = live
  BY Zenon, <1>1 DEF live
<1>5. /\ \A i \in Q : slog[i] \in known \/ \A k \in S : k < i
      /\ \A i \in live : slog[i] \in known \/ \A k \in S : k < i
      /\ \A i \in live \ Q, k \in S \cup Q : k < i
      /\ known \subseteq IdsOf(S) /\ ~ (status[c] = "up" /\ sflows[c] = NoFlow)
  BY Zenon, <1>1 DEF AnnouncedUpTo, KnownOrLater
<1>6. /\ \A i \in ids : i \in Q /\ slog[i] \notin known
      /\ \A i \in Q \ ids : slog[i] \in known \/ \A k \in ids : k < i
      /\ announced'[c] = (known \cap IdsOf(Q)) \cup IdsOf(ids)
  BY Zenon, <1>2 DEF newIDs, remember, fresh
<1> HIDE DEF S, Q, known
<1>7. \A i \in S, j \in ids : i < j
  BY Zenon, <1>5, <1>6
<1>8. announced'[c] \subseteq IdsOf(said[c])'
  BY Zenon, <1>1, <1>3, <1>5, <1>6 DEF IdsOf
<1>9. ASSUME NEW i \in live PROVE slog[i] \in announced'[c] \/ \A k \in S \cup ids : k < i
  <2>1. CASE i \notin Q
    BY Zenon, <1>5, <1>6, <2>1
  <2>2. CASE i \in ids
    BY Zenon, <1>6, <2>2 DEF IdsOf
  <2>3. CASE i \in Q \ ids /\ slog[i] \in known
    BY Zenon, <1>6, <2>3 DEF IdsOf
  <2>4. CASE i \in Q \ ids /\ slog[i] \notin known
    BY Zenon, <1>5, <1>6, <2>4
  <2> QED
    BY Zenon, <2>1, <2>2, <2>3, <2>4
<1>10. KnownOrLater(c, live)'
  BY Zenon, <1>1, <1>3, <1>4, <1>9 DEF KnownOrLater
<1>11. AnnouncedUpTo(c)'
  BY Zenon, <1>1, <1>3, <1>5, <1>8, <1>10 DEF AnnouncedUpTo
<1>12. wire'[c].type = "replyIds" =>
         wire[c].type = "replyIds" \/ \A i \in said[c], j \in wire'[c].ids : i < j
  <2>1. Silence.type # "replyIds" /\ ReplyIds(ids).ids = ids
    BY Zenon, MessageTypes
  <2> QED
    BY Zenon, <1>2, <1>7, <2>1 DEF S
<1> QED
  BY Zenon, <1>11, <1>12

LEMMA AnnounceInit == Init => AnnounceInv
<1> SUFFICES ASSUME Init, NEW c \in Conns PROVE AnnouncedUpTo(c)
  BY Zenon DEF AnnounceInv
<1>1. said[c] = {} /\ announced[c] = {} /\ replier[c].pc = "off"
  BY Zenon DEF Init, NoReplier
<1> QED
  BY Zenon, <1>1 DEF AnnouncedUpTo, KnownOrLater

(* The steps of a connection other than newIDs. *)
OtherStep(c) ==
  \/ Connect(c) \/ Disconnect(c) \/ OnRequestIds(c) \/ StopHolding(c)
  \/ OnRequestMessages(c) \/ StartPull(c) \/ RequestAgain(c) \/ OnReplyIds(c)
  \/ OnReplyMessages(c) \/ DropSenderFlow(c) \/ DropReceiverFlow(c)

LEMMA OtherEffect ==
  ASSUME TypeOK, ~SharedFlows, NEW c \in Conns, OwnFlow(c), OtherStep(c)
  PROVE  /\ Local(c) /\ said'[c] = said[c]
         /\ replier'[c].pc = "mark" => replier'[c] = replier[c]
         /\ \/ announced'[c] = announced[c]
            \/ status[c] = "up" /\ sflows[c] = NoFlow /\ announced'[c] = {}
         /\ wire'[c].type = "replyIds" => wire[c].type = "replyIds"
         /\ status'[c] = "up" /\ sflows'[c] = NoFlow =>
              \/ said[c] = {} /\ replier'[c].pc = "off"
              \/ ctxDone["S"]
              \/ status[c] = "up" /\ sflows[c] = NoFlow /\ replier'[c] = replier[c]
              \/ replier'[c].pc = "off" /\ status[c] = "up" /\ sflows[c] = NoFlow
<1> USE MessageTypes
<1>1. CASE Connect(c)
  BY Zenon, <1>1, ConnectEffect DEF OwnFlow
<1>2. CASE Disconnect(c)
  BY Zenon, <1>2, DisconnectEffect
<1>3. CASE OnRequestIds(c)
  <2>1. replier'[c] = [pc |-> "read", flow |-> c, queued |-> {}]
    BY Zenon, <1>3, OnRequestIdsEffect
  <2>2. replier'[c].pc = "read"
    BY <2>1
  <2> QED
    BY Zenon, <1>3, <2>2, OnRequestIdsEffect, Unshared
<1>4. CASE StopHolding(c)
  BY Zenon, <1>4, StopHoldingEffect
<1>5. CASE OnRequestMessages(c)
  BY Zenon, <1>5, OnRequestMessagesEffect
<1>6. CASE StartPull(c) \/ RequestAgain(c)
  <2> DEFINE ack == IF rflows[c] = NoFlow THEN 0 ELSE outstanding[c]
  <2>0. wire'[c] = IF status[c] = "up" THEN RequestIds(ack) ELSE Silence
    BY Zenon, <1>6, PullEffect
  <2> HIDE DEF ack
  <2>1. wire'[c] = Silence \/ wire'[c] = RequestIds(ack)
    BY Zenon, <2>0
  <2>2. wire'[c].type # "replyIds"
    BY Zenon, <2>1
  <2>3. /\ Local(c)
        /\ status'[c] = status[c] /\ sflows'[c] = sflows[c] /\ announced'[c] = announced[c]
        /\ replier'[c] = replier[c] /\ said'[c] = said[c]
    BY Zenon, <1>6, PullEffect
  <2> QED
    BY Zenon, <2>2, <2>3
<1>7. CASE OnReplyIds(c)
  BY Zenon, <1>7, OnReplyIdsEffect
<1>8. CASE OnReplyMessages(c)
  BY Zenon, <1>8, OnReplyMessagesEffect
<1>9. CASE DropSenderFlow(c) \/ DropReceiverFlow(c)
  BY Zenon, <1>9, DropEffect
<1> QED
  BY Zenon, <1>1, <1>2, <1>3, <1>4, <1>5, <1>6, <1>7, <1>8, <1>9 DEF OtherStep

LEMMA StepCases ==
  ASSUME ~SharedFlows, [Next]_vars
  PROVE  \/ \E m \in Ids, old \in SUBSET Overtaken : AcceptAtSender(m, old)
         \/ \E old \in SUBSET Overtaken : RefuseAtSender(old)
         \/ \E m \in Ids : Expire(m) \/ SubmitElsewhere(m)
         \/ \E c \in Conns : SubmitNext(c)
         \/ \E n \in {"S", "R"} : CancelContext(n)
         \/ UNCHANGED vars
         \/ \E c \in Conns : OtherStep(c) \/ ReadQueue(c) \/ Announce(c)
  BY Zenon, Unshared DEF Next, SenderStep, ReceiverStep, OtherStep

(* What a step announces on c comes after what has been said there. *)
AnnouncesLater(c) ==
  wire'[c].type = "replyIds" /\ wire[c].type # "replyIds"
    => \A i \in said[c], j \in wire'[c].ids : i < j

LEMMA AnnounceStep ==
  ASSUME TypeOK, ~SharedFlows, FlowInv, AnnounceInv, [Next]_vars
  PROVE  /\ AnnounceInv'
         /\ ~ctxDone["S"] => \A c \in Conns : AnnouncesLater(c)
<1>0. ASSUME NEW d \in Conns, ~ctxDone["S"], slog' = slog, live' \subseteq live,
             ConnState(d)' = ConnState(d)
      PROVE  AnnouncedUpTo(d)'
  <2>1. AnnouncedUpTo(d)
    BY Zenon, <1>0 DEF AnnounceInv
  <2>2. status[d] = "up" /\ sflows[d] = NoFlow => said[d] = {} /\ replier[d].pc = "off"
    BY Zenon, <2>1 DEF AnnouncedUpTo
  <2> QED
    <3>1. /\ said'[d] = said[d] /\ announced'[d] = announced[d] /\ replier'[d] = replier[d]
          /\ status'[d] = status[d] /\ sflows'[d] = sflows[d]
      BY Zenon, <1>0, AnnounceOthers
    <3>2. status'[d] = "up" /\ sflows'[d] = NoFlow => said[d] = {} /\ replier'[d].pc = "off"
      BY Zenon, <2>2, <3>1
    <3> QED
      BY Zenon, <1>0, <2>1, <3>1, <3>2, StillAnnouncedUpTo
<1>1. CASE \/ \E m \in Ids, old \in SUBSET Overtaken : AcceptAtSender(m, old)
           \/ \E old \in SUBSET Overtaken : RefuseAtSender(old)
           \/ \E m \in Ids : Expire(m) \/ SubmitElsewhere(m)
           \/ \E c \in Conns : SubmitNext(c)
           \/ \E n \in {"S", "R"} : CancelContext(n)
           \/ UNCHANGED vars
  <2>1. /\ \A c \in Conns : ConnState(c)' = ConnState(c)
        /\ ~ctxDone'["S"] => ~ctxDone["S"]
    BY Zenon, <1>1, ElsewhereEffect
  <2>2. \A c \in Conns : AnnouncesLater(c)
    BY Zenon, <2>1 DEF AnnouncesLater, ConnState
  <2>3. CASE \E m \in Ids, old \in SUBSET Overtaken : AcceptAtSender(m, old)
    BY Zenon, <2>1, <2>2, <2>3, AcceptKeepsOrder DEF AnnounceInv
  <2>4. CASE \/ \E old \in SUBSET Overtaken : RefuseAtSender(old)
             \/ \E m \in Ids : Expire(m) \/ SubmitElsewhere(m)
             \/ \E c \in Conns : SubmitNext(c)
             \/ \E n \in {"S", "R"} : CancelContext(n)
             \/ UNCHANGED vars
    <3>1. slog' = slog /\ squeue' \subseteq squeue /\ expired \subseteq expired'
      BY Zenon, <2>4 DEF RefuseAtSender, pruneQueue, Expire, SubmitElsewhere, SubmitNext,
             CancelContext, vars, topicS
    <3>2. live' \subseteq live
      BY Zenon, <3>1 DEF live
    <3> QED
      BY Zenon, <1>0, <2>1, <2>2, <3>1, <3>2 DEF AnnounceInv
  <2> QED
    BY Zenon, <1>1, <2>3, <2>4
<1>2. ASSUME NEW c \in Conns, Local(c), AnnouncedUpTo(c) /\ ~ctxDone["S"] => AnnouncedUpTo(c)',
             AnnouncedUpTo(c) /\ ~ctxDone["S"] => AnnouncesLater(c)
      PROVE  /\ AnnounceInv'
             /\ ~ctxDone["S"] => \A d \in Conns : AnnouncesLater(d)
  <2>1. ctxDone' = ctxDone /\ slog' = slog /\ squeue' = squeue /\ expired' = expired
    BY Zenon, <1>2 DEF Local
  <2>2. live' \subseteq live
    BY Zenon, <2>1 DEF live
  <2>3. ~ctxDone["S"] => AnnouncedUpTo(c)
    BY Zenon DEF AnnounceInv
  <2>4. ASSUME NEW d \in Conns, ~ctxDone["S"], d # c PROVE AnnouncedUpTo(d)' /\ AnnouncesLater(d)
    <3>1. ConnState(d)' = ConnState(d)
      BY Zenon, <1>2, <2>4 DEF Local
    <3>2. AnnouncedUpTo(d)'
      BY Zenon, <1>0, <2>1, <2>2, <2>4, <3>1
    <3> QED
      BY Zenon, <3>1, <3>2 DEF AnnouncesLater, ConnState
  <2> QED
    BY Zenon, <1>2, <2>1, <2>3, <2>4 DEF AnnounceInv
<1>3. ASSUME NEW c \in Conns, OtherStep(c)
      PROVE  /\ AnnounceInv'
             /\ ~ctxDone["S"] => \A d \in Conns : AnnouncesLater(d)
  <2>1. OwnFlow(c)
    BY Zenon DEF FlowInv
  <2>2. Local(c) /\ AnnouncesLater(c)
    BY Zenon, <1>3, <2>1, OtherEffect DEF AnnouncesLater
  <2>3. ASSUME AnnouncedUpTo(c), ~ctxDone["S"] PROVE AnnouncedUpTo(c)'
    <3>1. slog' = slog /\ live' \subseteq live
      BY Zenon, <2>2 DEF Local, live
    <3>2. status[c] = "up" /\ sflows[c] = NoFlow => said[c] = {} /\ replier[c].pc = "off"
      BY Zenon, <2>3 DEF AnnouncedUpTo
    <3>3. /\ said'[c] = said[c]
          /\ announced'[c] = announced[c] \/ (said[c] = {} /\ announced'[c] = {})
          /\ replier'[c].pc = "mark" => replier'[c] = replier[c]
          /\ status'[c] = "up" /\ sflows'[c] = NoFlow => said[c] = {} /\ replier'[c].pc = "off"
      <4>1. /\ said'[c] = said[c]
            /\ replier'[c].pc = "mark" => replier'[c] = replier[c]
            /\ \/ announced'[c] = announced[c]
               \/ status[c] = "up" /\ sflows[c] = NoFlow /\ announced'[c] = {}
        BY Zenon, <1>3, <2>1, OtherEffect
      <4>2. status'[c] = "up" /\ sflows'[c] = NoFlow =>
              \/ said[c] = {} /\ replier'[c].pc = "off"
              \/ status[c] = "up" /\ sflows[c] = NoFlow /\ replier'[c] = replier[c]
              \/ replier'[c].pc = "off" /\ status[c] = "up" /\ sflows[c] = NoFlow
        BY Zenon, <1>3, <2>1, <2>3, OtherEffect
      <4> QED
        BY <3>2, <4>1, <4>2
    <3> QED
      BY Zenon, <2>3, <3>1, <3>3, StillAnnouncedUpTo
  <2> QED
    BY Zenon, <1>2, <2>2, <2>3
<1>4. ASSUME NEW c \in Conns, ReadQueue(c)
      PROVE  /\ AnnounceInv'
             /\ ~ctxDone["S"] => \A d \in Conns : AnnouncesLater(d)
  <2>1. Local(c) /\ wire'[c] = wire[c]
    BY Zenon, <1>4, ReadQueueEffect
  <2>2. AnnouncesLater(c)
    BY Zenon, <2>1 DEF AnnouncesLater
  <2> QED
    BY Zenon, <1>2, <1>4, <2>1, <2>2, ReadKeepsOrder
<1>5. ASSUME NEW c \in Conns, Announce(c)
      PROVE  /\ AnnounceInv'
             /\ ~ctxDone["S"] => \A d \in Conns : AnnouncesLater(d)
  <2>1. OwnFlow(c)
    BY Zenon DEF FlowInv
  <2>2. Local(c)
    BY Zenon, <1>5, <2>1, AnnounceEffect
  <2>3. AnnouncedUpTo(c) /\ ~ctxDone["S"] => AnnouncedUpTo(c)' /\ AnnouncesLater(c)
    BY Zenon, <1>5, <2>1, AnnounceKeepsOrder DEF AnnouncesLater
  <2> QED
    BY Zenon, <1>2, <2>2, <2>3
<1> QED
  BY Zenon, <1>1, <1>3, <1>4, <1>5, StepCases

LEMMA AnnounceAlways == ~SharedFlows /\ Spec => [](FlowInv /\ AnnounceInv)
<1>1. CASE ~SharedFlows
  <2>1. Init => FlowInv /\ AnnounceInv
    BY Zenon, <1>1, FlowInit, AnnounceInit
  <2>2. TypeOK /\ FlowInv /\ AnnounceInv /\ [Next]_vars => FlowInv' /\ AnnounceInv'
    BY Zenon, <1>1, FlowStep, AnnounceStep
  <2> QED
    BY <2>1, <2>2, SubmissionTypeOK, PTL DEF Spec
<1> QED
  BY Zenon, <1>1

(* On connections with flows of their own, every acceptance is announced    *)
(* after those before it and at most once while S's context lives, although *)
(* newIDs reads the queue and marks under two locks and forgets what has    *)
(* left the queue (protocol.go:160-183): for any history of acceptances, of *)
(* one ID several times or not, and any drops from the queue.               *)
THEOREM SubmissionAnnouncedOnceInOrder == ~SharedFlows /\ Spec => AnnouncedOnceInOrder
<1>1. CASE ~SharedFlows
  <2>1. TypeOK /\ FlowInv /\ AnnounceInv /\ [Next]_vars =>
          [\A c \in Conns :
             ~ctxDone["S"] /\ wire'[c].type = "replyIds" /\ wire[c].type # "replyIds"
               => \A i \in said[c], j \in wire'[c].ids : i < j]_vars
    BY Zenon, <1>1, AnnounceStep DEF AnnouncesLater
  <2> QED
    BY <1>1, <2>1, AnnounceAlways, SubmissionTypeOK, PTL DEF Spec, AnnouncedOnceInOrder
<1> QED
  BY Zenon, <1>1

(* On connections with flows of their own, the limit of a request makes     *)
(* newIDs pass over nothing: when an acceptance has been announced, so has  *)
(* the ID of every one before it that S still holds (protocol.go:171-181).  *)
THEOREM SubmissionNoneSkipped == ~SharedFlows /\ Spec => []NoneSkipped
<1>1. TypeOK /\ AnnounceInv => NoneSkipped
  <2> SUFFICES ASSUME TypeOK, AnnounceInv, ~ctxDone["S"], NEW c \in Conns,
                      NEW j \in said[c], NEW i \in live, i < j
               PROVE  slog[i] \in IdsOf(said[c])
    BY Zenon DEF NoneSkipped
  <2>1. AnnouncedUpTo(c)
    BY Zenon DEF AnnounceInv
  <2>2. i \in Nat /\ j \in Nat
    BY DEF TypeOK, live, Numbers
  <2>3. ~ (j < i)
    BY <2>2
  <2> QED
    BY Zenon, <2>1, <2>3 DEF AnnouncedUpTo, KnownOrLater
<1> QED
  BY <1>1, AnnounceAlways, SubmissionTypeOK, PTL
=============================================================================
