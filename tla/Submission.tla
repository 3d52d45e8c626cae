----------------------------- MODULE Submission -----------------------------
(***************************************************************************)
(* The message-submission adapter (src/protocol.go, messageSubmissionConfig*)
(* and submissionFlow) between a sending node "S" and a receiving node     *)
(* "R".  R pulls: on each connection it sends a blocking request for       *)
(* message IDs, asks for the messages it has not seen, submits them to its *)
(* topic, and only then acknowledges and requests again.  S answers an ID  *)
(* request from a goroutine of its own that waits until the topic queue    *)
(* holds something this connection has not been told of.  Topics appear    *)
(* only by their queue and seen map (module Topic has the details); the    *)
(* connections' life cycle is in module Node.                              *)
(*                                                                         *)
(* S may accept one ID several times, once its duplicate window is over,   *)
(* so that its queue may hold two copies of a message.  The acceptances    *)
(* are numbered by slog, and a list in the order of the queue (a reply of  *)
(* IDs or of messages) is the set of its numbers.                          *)
(***************************************************************************)
EXTENDS Naturals, Sequences, FiniteSets, Functions

CONSTANTS
  Ids,           \* message IDs
  Perishable,    \* bound: those that may expire
  Outlasting,    \* bound: those that may outlast a duplicate window
  Overtaken,     \* bound: those that S may drop on an old clock reading
  Elsewhere,     \* bound: those that R may also get from another source
  MaxAccepted,   \* bound: acceptances at S
  Conns,         \* connections between S and R, two of which may coexist
  RequestCount,  \* NodeToNodeConfig.RequestCount
  MaxCancelled,  \* bound: the nodes whose context is cancelled
  SharedFlows    \* one MessageSubmissionConfig serves all of Conns, which
                 \* follow one another and have the same connection ID; if
                 \* FALSE, each has its own, as in a NodeToNodeService

ASSUME SubmissionAssumption ==
  /\ Perishable \subseteq Ids /\ Outlasting \subseteq Ids
  /\ Overtaken \subseteq Ids /\ Elsewhere \subseteq Ids
  /\ RequestCount \in Nat \ {0} /\ MaxAccepted \in Nat
  /\ MaxCancelled \in Nat /\ SharedFlows \in BOOLEAN
  /\ "shared" \notin Conns /\ "none" \notin Conns

VARIABLES
  status,       \* of each connection: "new", "up" or "down"
  wire,         \* the protocol message in transit on each connection
  ctxDone,      \* the service contexts of S and R
  expired,      \* messages whose lifetime is over
  slog,         \* history: the ID of every message that S has accepted
  squeue,       \* topicRuntime.queue of S, by numbers in slog
  lost,         \* history: messages dropped from it before they expired
  sflows,       \* submissionFlows.flows of S
  announced,    \* submissionFlow.announced of the flows of S
  replier,      \* the goroutine of replyIDs on each connection
  rflows,       \* submissionFlows.flows of R
  outstanding,  \* submissionFlow.outstanding of the flows of R
  rpc,          \* what R's side of each connection is doing
  inbox,        \* messages the ReplyMessages callback has yet to submit
  rseen,        \* keys of topicRuntime.seen of R
  accepted,     \* history: the messages that R has accepted
  said,         \* history: acceptances announced on each connection
  unacked,      \* history: how many IDs R has not acknowledged on it
  refused       \* history: live messages from it that R turned away, and
                \* not as duplicates

topicS == <<slog, squeue, lost>>
topicR == <<rseen, accepted, refused>>
flowS == <<sflows, announced, replier, said>>
flowR == <<rflows, outstanding, rpc, inbox>>
vars == <<status, wire, ctxDone, expired, topicS, flowS, topicR, flowR, unacked>>

(* A flow is named after the connection that created it. *)
NoFlow == "none"
Key(c) == IF SharedFlows THEN "shared" ELSE c
Keys == {Key(c) : c \in Conns}

Silence == [type |-> "silence"]
RequestIds(ack) == [type |-> "requestIds", ack |-> ack]
ReplyIds(ids) == [type |-> "replyIds", ids |-> ids]
RequestMessages(ids) == [type |-> "requestMessages", ids |-> ids]
ReplyMessages(ids) == [type |-> "replyMessages", ids |-> ids]

NoReplier == [pc |-> "off", flow |-> NoFlow, queued |-> {}]

(* messageIDs: what is in the queue.  Each access to a queue begins with    *)
(* pruneQueueLocked, so the time at which an expired message is really      *)
(* removed makes no difference.                                             *)
live == {i \in squeue : slog[i] \notin expired}

IdsOf(batch) == {slog[i] : i \in batch}

Init ==
  /\ status = [c \in Conns |-> "new"] /\ wire = [c \in Conns |-> Silence]
  /\ ctxDone = [n \in {"S", "R"} |-> FALSE] /\ expired = {}
  /\ slog = <<>> /\ squeue = {} /\ lost = {}
  /\ sflows = [k \in Keys |-> NoFlow] /\ announced = [c \in Conns |-> {}]
  /\ replier = [c \in Conns |-> NoReplier] /\ said = [c \in Conns |-> {}]
  /\ rflows = [k \in Keys |-> NoFlow] /\ outstanding = [c \in Conns |-> 0]
  /\ rpc = [c \in Conns |-> "idle"] /\ inbox = [c \in Conns |-> {}]
  /\ unacked = [c \in Conns |-> 0]
  /\ rseen = {} /\ accepted = {} /\ refused = [c \in Conns |-> {}]

-----------------------------------------------------------------------------
(* The surroundings: time, the topics' other users, connections, contexts. *)

Expire(m) ==
  /\ m \in (Perishable \cap Range(slog)) \ expired
  /\ expired' = expired \cup {m}
  /\ UNCHANGED <<status, wire, ctxDone, topicS, flowS, topicR, flowR, unacked>>

(* pruneQueueLocked in a submission at S.  Its reading of the clock may be  *)
(* older than a message in the queue, which it then takes for one too far   *)
(* in the future: S drops every copy of the messages in `old`.              *)
pruneQueue(old) == {i \in squeue : slog[i] \notin old}
dropped(old) == lost \cup (old \cap IdsOf(live))

(* S accepts a message, as AdmitAccept of module Topic does: the seen map   *)
(* does not hold it, or not any more.                                       *)
AcceptAtSender(m, old) ==
  /\ Len(slog) < MaxAccepted
  /\ m \notin expired \cup old
  /\ m \in Range(slog) => m \in Outlasting
  /\ slog' = Append(slog, m)
  /\ squeue' = pruneQueue(old) \cup {Len(slog) + 1}
  /\ lost' = dropped(old)
  /\ UNCHANGED <<status, wire, ctxDone, expired, flowS, topicR, flowR, unacked>>

(* S refuses a message, after it has pruned the queue. *)
RefuseAtSender(old) ==
  /\ old \cap IdsOf(live) # {}
  /\ squeue' = pruneQueue(old)
  /\ lost' = dropped(old)
  /\ UNCHANGED <<slog, status, wire, ctxDone, expired, flowS, topicR, flowR, unacked>>

(* submitSigned of R.  A live message is refused before the lock (its ID    *)
(* is not its own, it is too far in the future, it is not authentic) or for *)
(* a topic that is closed; under the lock, after pruneSeenLocked, it is a   *)
(* duplicate, finds the queue full, or is accepted.  What decides the other *)
(* cases than that of a duplicate is in module Topic: here each may happen. *)
submit(m, turnedAway) ==
  \/ /\ m \in expired
     /\ UNCHANGED topicR
  \/ /\ m \notin expired
     /\ refused' = turnedAway
     /\ UNCHANGED <<rseen, accepted>>
  \/ /\ m \notin expired
     /\ \E forgotten \in SUBSET (rseen \cap Outlasting) :
          LET seen == rseen \ forgotten IN
          \/ /\ m \in seen
             /\ rseen' = seen
             /\ UNCHANGED <<accepted, refused>>
          \/ /\ m \notin seen
             /\ rseen' = seen
             /\ refused' = turnedAway
             /\ UNCHANGED accepted
          \/ /\ m \notin seen
             /\ rseen' = seen \cup {m}
             /\ accepted' = accepted \cup {m}
             /\ UNCHANGED refused

(* R gets the message from an application or from another peer. *)
SubmitElsewhere(m) ==
  /\ m \in Elsewhere
  /\ submit(m, refused)
  /\ UNCHANGED <<status, wire, ctxDone, expired, topicS, flowS, flowR, unacked>>

Connect(c) ==
  /\ status[c] = "new"
  /\ SharedFlows => \A d \in Conns : status[d] # "up"
  /\ status' = [status EXCEPT ![c] = "up"]
  /\ rpc' = [rpc EXCEPT ![c] = "start"]
  /\ UNCHANGED <<wire, ctxDone, expired, topicS, flowS, topicR, rflows,
                 outstanding, inbox, unacked>>

(* The connection ends and both stop channels close; callbacks that are *)
(* running go on.                                                       *)
Disconnect(c) ==
  /\ status[c] = "up"
  /\ status' = [status EXCEPT ![c] = "down"]
  /\ wire' = [wire EXCEPT ![c] = Silence]
  /\ UNCHANGED <<ctxDone, expired, topicS, flowS, topicR, flowR, unacked>>

CancelContext(n) ==
  /\ ~ctxDone[n] /\ Cardinality({k \in {"S", "R"} : ctxDone[k]}) < MaxCancelled
  /\ ctxDone' = [ctxDone EXCEPT ![n] = TRUE]
  /\ UNCHANGED <<status, wire, expired, topicS, flowS, topicR, flowR, unacked>>

-----------------------------------------------------------------------------
(* submissionFlows. *)

forConnection(flows, c) ==
  IF flows[Key(c)] # NoFlow THEN flows[Key(c)] ELSE c

created(flows, c) == flows[Key(c)] = NoFlow

(* The goroutine that forConnection starts: it drops the entry under its key. *)
mayDrop(n, flow) == flow # NoFlow /\ (status[flow] = "down" \/ ctxDone[n])

DropSenderFlow(k) ==
  /\ mayDrop("S", sflows[k])
  /\ sflows' = [sflows EXCEPT ![k] = NoFlow]
  /\ UNCHANGED <<status, wire, ctxDone, expired, topicS, announced, replier, said,
                 topicR, flowR, unacked>>

DropReceiverFlow(k) ==
  /\ mayDrop("R", rflows[k])
  /\ rflows' = [rflows EXCEPT ![k] = NoFlow]
  /\ UNCHANGED <<status, wire, ctxDone, expired, topicS, flowS, topicR,
                 outstanding, rpc, inbox, unacked>>

(* A protocol message goes nowhere once the connection is down.  Only then  *)
(* does a send return an error, which the callbacks report and no more.     *)
send(c, msg) == wire' = [wire EXCEPT ![c] = IF status[c] = "up" THEN msg ELSE Silence]

-----------------------------------------------------------------------------
(* The sender. *)

(* RequestMessageIdsFunc: find the flow and start the goroutine of replyIDs. *)
OnRequestIds(c) ==
  /\ wire[c].type = "requestIds"
  /\ LET f == forConnection(sflows, c) IN
       /\ sflows' = [sflows EXCEPT ![Key(c)] = f]
       /\ announced' = IF created(sflows, c) THEN [announced EXCEPT ![f] = {}] ELSE announced
       /\ replier' = [replier EXCEPT ![c] = [pc |-> "read", flow |-> f, queued |-> {}]]
  /\ unacked' = [unacked EXCEPT ![c] = IF wire[c].ack >= @ THEN 0 ELSE @ - wire[c].ack]
  /\ send(c, Silence)
  /\ UNCHANGED <<status, ctxDone, expired, topicS, said, topicR, flowR>>

(* newIDs, first half: messageIDs(0) under the topic's lock, at once or after *)
(* the hold interval.                                                         *)
ReadQueue(c) ==
  /\ replier[c].pc \in {"read", "wait"}
  /\ replier' = [replier EXCEPT ![c].pc = "mark", ![c].queued = live]
  /\ UNCHANGED <<status, wire, ctxDone, expired, topicS, sflows, announced, said,
                 topicR, flowR, unacked>>

(* What newIDs may announce: the acceptances of IDs that are not known. *)
fresh(known, queued) == {i \in queued : slog[i] \notin known}

(* Variant: the count of the request is ignored. *)
newIDsUncounted(known, queued, batch) == batch = fresh(known, queued)
(* Variant: the newest are announced first. *)
newIDsNewest(known, queued, batch) ==
  /\ batch \subseteq fresh(known, queued)
  /\ Cardinality(batch) <= RequestCount
  /\ \A i \in fresh(known, queued) \ batch :
       Cardinality(batch) = RequestCount /\ \A k \in batch : i < k

(* newIDs, second half: the first RequestCount, in the order of the queue,  *)
(* of those not known are announced; then, the IDs to remember.             *)
newIDs(known, queued, batch) ==
  /\ batch \subseteq fresh(known, queued)
  /\ Cardinality(batch) <= RequestCount
  /\ \A i \in fresh(known, queued) \ batch :
       Cardinality(batch) = RequestCount /\ \A k \in batch : k < i

(* Variants: only the last reply is remembered; all that was read is. *)
rememberLast(known, queued, batch) == IdsOf(batch)
rememberAll(known, queued, batch) == IdsOf(queued)

remember(known, queued, batch) == (known \cap IdsOf(queued)) \cup IdsOf(batch)

(* Bounds the history of a connection that outlives R's context; the history *)
(* of what was said ends with S's.                                           *)
AtMost(bound, n) == IF n < bound THEN n ELSE bound

(* replyIDs: announce, or wait for the hold interval when there is nothing. *)
(* (One that is not blocking is answered at once; R sends none.)            *)
mayReply(batch) == batch # {}

Announce(c) ==
  /\ replier[c].pc = "mark"
  /\ \E batch \in SUBSET replier[c].queued : LET f == replier[c].flow IN
       /\ newIDs(announced[f], replier[c].queued, batch)
       /\ announced' = [announced EXCEPT ![f] = remember(@, replier[c].queued, batch)]
       /\ IF mayReply(batch)
          THEN /\ send(c, ReplyIds(batch))
               /\ replier' = [replier EXCEPT ![c] = NoReplier]
               /\ said' = IF ctxDone["S"] THEN said ELSE [said EXCEPT ![c] = @ \cup batch]
               /\ unacked' = [unacked EXCEPT ![c] = AtMost(2 * RequestCount, @ + Cardinality(batch))]
          ELSE /\ replier' = [replier EXCEPT ![c].pc = "wait", ![c].queued = {}]
               /\ UNCHANGED <<wire, said, unacked>>
  /\ UNCHANGED <<status, ctxDone, expired, topicS, sflows, topicR, flowR>>

StopHolding(c) ==
  /\ replier[c].pc = "wait"
  /\ ctxDone["S"] \/ status[replier[c].flow] = "down"
  /\ replier' = [replier EXCEPT ![c] = NoReplier]
  /\ UNCHANGED <<status, wire, ctxDone, expired, topicS, sflows, announced, said,
                 topicR, flowR, unacked>>

(* RequestMessagesFunc: messagesByIDs, every copy in the order of the queue. *)
OnRequestMessages(c) ==
  /\ wire[c].type = "requestMessages"
  /\ send(c, ReplyMessages({i \in live : slog[i] \in wire[c].ids}))
  /\ UNCHANGED <<status, ctxDone, expired, topicS, flowS, topicR, flowR, unacked>>

-----------------------------------------------------------------------------
(* The receiver. *)

(* requestIDs on the flow that forConnection returns, which held `had`. *)
requestIDs(c, had) ==
  LET f == forConnection(rflows, c) IN
    /\ rflows' = [rflows EXCEPT ![Key(c)] = f]
    /\ outstanding' = [outstanding EXCEPT ![f] = 0]
    /\ send(c, RequestIds(had))

(* What that flow holds: a flow just created has nothing outstanding. *)
unacknowledged(c) ==
  IF created(rflows, c) THEN 0 ELSE outstanding[forConnection(rflows, c)]

StartPull(c) ==
  /\ rpc[c] = "start"
  /\ rpc' = [rpc EXCEPT ![c] = "idle"]
  /\ requestIDs(c, unacknowledged(c))
  /\ UNCHANGED <<status, ctxDone, expired, topicS, flowS, topicR, inbox, unacked>>

(* Variant: only the IDs asked for are counted. *)
countWanted(batch) == Cardinality(IdsOf(batch) \ rseen)

(* ReplyMessageIdsFunc: ask for what has not been seen, or acknowledge. *)
countIDs(batch) == Cardinality(batch)

OnReplyIds(c) ==
  /\ wire[c].type = "replyIds"
  /\ LET batch == wire[c].ids
         wanted == IdsOf(batch) \ rseen
         f == forConnection(rflows, c) IN
       IF wanted # {}
       THEN /\ rflows' = [rflows EXCEPT ![Key(c)] = f]
            /\ outstanding' = [outstanding EXCEPT ![f] = countIDs(batch)]
            /\ send(c, RequestMessages(wanted))
       ELSE requestIDs(c, countIDs(batch))
  /\ UNCHANGED <<status, ctxDone, expired, topicS, flowS, topicR, rpc, inbox, unacked>>

(* ReplyMessagesFunc: submit the messages one by one, then request again. *)
OnReplyMessages(c) ==
  /\ wire[c].type = "replyMessages"
  /\ inbox' = [inbox EXCEPT ![c] = wire[c].ids]
  /\ rpc' = [rpc EXCEPT ![c] = "submit"]
  /\ send(c, Silence)
  /\ UNCHANGED <<status, ctxDone, expired, topicS, flowS, topicR, rflows,
                 outstanding, unacked>>

SubmitNext(c) ==
  /\ rpc[c] = "submit"
  /\ \E i \in inbox[c] :
       /\ \A j \in inbox[c] : i <= j
       /\ submit(slog[i], [refused EXCEPT ![c] = @ \cup {slog[i]}])
       /\ inbox' = [inbox EXCEPT ![c] = @ \ {i}]
  /\ UNCHANGED <<status, wire, ctxDone, expired, topicS, flowS, rflows, outstanding,
                 rpc, unacked>>

RequestAgain(c) ==
  /\ rpc[c] = "submit" /\ inbox[c] = {}
  /\ rpc' = [rpc EXCEPT ![c] = "idle"]
  /\ requestIDs(c, unacknowledged(c))
  /\ UNCHANGED <<status, ctxDone, expired, topicS, flowS, topicR, inbox, unacked>>

SenderStep(c) ==
  \/ OnRequestIds(c) \/ ReadQueue(c) \/ Announce(c)
  \/ StopHolding(c) \/ OnRequestMessages(c)

ReceiverStep(c) ==
  \/ StartPull(c) \/ OnReplyIds(c) \/ OnReplyMessages(c) \/ SubmitNext(c)
  \/ RequestAgain(c)

Next ==
  \/ \E m \in Ids : Expire(m) \/ SubmitElsewhere(m)
  \/ \E old \in SUBSET Overtaken :
       RefuseAtSender(old) \/ \E m \in Ids : AcceptAtSender(m, old)
  \/ \E c \in Conns : Connect(c) \/ Disconnect(c) \/ SenderStep(c) \/ ReceiverStep(c)
  \/ \E n \in {"S", "R"} : CancelContext(n)
  \/ \E k \in Keys : DropSenderFlow(k) \/ DropReceiverFlow(k)

Spec == Init /\ [][Next]_vars

(* Goroutines that can run do run, the hold interval passes, and a message *)
(* in transit on a connection that stays up arrives.  The topics' users,   *)
(* time, connections and contexts owe nothing.                             *)
Fairness ==
  \A c \in Conns :
    /\ WF_vars(OnRequestIds(c)) /\ WF_vars(ReadQueue(c)) /\ WF_vars(Announce(c))
    /\ WF_vars(OnRequestMessages(c))
    /\ WF_vars(ReceiverStep(c))

FairSpec == Spec /\ Fairness

-----------------------------------------------------------------------------
Numbers == 1..Len(slog)
Batch == {b \in SUBSET Numbers : Cardinality(b) <= RequestCount}
Wanted == {w \in SUBSET Ids : IsFiniteSet(w) /\ Cardinality(w) <= RequestCount}

Message ==
  {Silence} \cup [type : {"requestIds"}, ack : 0..RequestCount]
    \cup [type : {"replyIds"}, ids : Batch] \cup [type : {"requestMessages"}, ids : Wanted]
    \cup [type : {"replyMessages"}, ids : SUBSET Numbers]

(* The state is well formed.  In particular no request, no reply of IDs and *)
(* no flow holds more IDs than one request asked for.  A reply of messages  *)
(* may: it has every copy of the messages asked for.                        *)
TypeOK ==
  /\ status \in [Conns -> {"new", "up", "down"}] /\ wire \in [Conns -> Message]
  /\ ctxDone \in [{"S", "R"} -> BOOLEAN] /\ expired \subseteq Ids
  /\ slog \in Seq(Ids) /\ squeue \subseteq Numbers /\ lost \subseteq Ids
  /\ sflows \in [Keys -> Conns \cup {NoFlow}] /\ rflows \in [Keys -> Conns \cup {NoFlow}]
  /\ announced \in [Conns -> SUBSET Ids] /\ outstanding \in [Conns -> 0..RequestCount]
  /\ replier \in [Conns -> [pc : {"off", "read", "mark", "wait"},
                            flow : Conns \cup {NoFlow}, queued : SUBSET Numbers]]
  /\ said \in [Conns -> SUBSET Numbers]
  /\ rpc \in [Conns -> {"idle", "start", "submit"}] /\ inbox \in [Conns -> SUBSET Numbers]
  /\ unacked \in [Conns -> 0..(2 * RequestCount)]
  /\ rseen \subseteq accepted /\ accepted \subseteq Ids /\ refused \in [Conns -> SUBSET Ids]

(* Every request acknowledges exactly the IDs announced since the request   *)
(* before it, as long as R's context lives: `outstanding` is set by one     *)
(* callback and taken by another, with two other messages in between.       *)
AcksWhatWasAnnounced ==
  \A c \in Conns :
    wire[c].type = "requestIds" /\ ~ctxDone["R"] => wire[c].ack = unacked[c]

(* On one connection, every acceptance is announced after those before it   *)
(* and at most once, although newIDs reads the queue under one lock and     *)
(* marks under another, and forgets what has left the queue                 *)
(* (protocol.go:160-183), while S's context lives.  This is so for any      *)
(* duplicate window: an ID is announced again only as a new acceptance.     *)
AnnouncedOnceInOrder ==
  [][\A c \in Conns :
       ~ctxDone["S"] /\ wire'[c].type = "replyIds" /\ wire[c].type # "replyIds"
         => \A i \in said[c], j \in wire'[c].ids : i < j]_vars

(* The limit of a request does not make newIDs pass over a message: what    *)
(* lies in S's queue before an acceptance that has been announced on a      *)
(* connection has been announced there itself, or another copy of it has.   *)
NoneSkipped ==
  ~ctxDone["S"] =>
    \A c \in Conns : \A j \in said[c], i \in live :
      i < j => slog[i] \in IdsOf(said[c])

(* The pull does not stall.  What lies in S's queue while a connection is up*)
(* reaches R, unless it expires, S drops it on an old clock reading, R      *)
(* turns it away, or the connection or a context ends.                      *)
Delivered ==
  \A m \in Ids, c \in Conns :
    (m \in IdsOf(live) /\ status[c] = "up")
      ~> (m \in accepted \cup expired \cup lost \cup refused[c] \/ status[c] = "down"
          \/ ctxDone["S"] \/ ctxDone["R"])

(* "submissionFlows holds one submissionFlow per connection"                *)
(* (protocol.go:82): no connection is served by the flow of an earlier one. *)
FlowPerConnection ==
  \A c \in Conns : replier[c].pc # "off" => replier[c].flow = c
=============================================================================
