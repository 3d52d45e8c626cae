----------------------------- MODULE NodeProofs -----------------------------
(* Proofs about the life cycle of a node-to-node service. *)
EXTENDS Node, TLAPS

(* Where StartNodeToNode has not yet started closeOnDone. *)
Early == {"idle", "register", "check", "listen", "assign", "spawn", "watch"}

(* One Close does the work, and the service context is cancelled before it  *)
(* goes on to the registry, the listener and the connections.               *)
CloseOrder ==
  /\ closed <=> owner # "nobody"
  /\ ~closed => \A t \in Closers : closer[t] = "idle"
  /\ closed => closer[owner] # "idle"
  /\ \A t \in Closers : closer[t] \notin {"idle", "returned"} => t = owner
  /\ closed /\ closer[owner] # "cancel" => cancelled

(* The listener exists from StartListen on, the service knows of it one step *)
(* later.  Once it is closed, the service context is cancelled or the accept *)
(* loop, which gave it up, is about to do so.                               *)
ListenerOrder ==
  /\ start \in {"idle", "register", "check", "listen"} => lopen = "none" /\ ~listener
  /\ start = "assign" => lopen = "open" /\ ~listener
  /\ start \in Early \ {"watch"} => acc = "none"
  /\ lopen = "open" => listener \/ start = "assign"
  /\ listener => lopen # "none"
  /\ sawListener => listener
  /\ lopen = "closed" => cancelled \/ acc = "cancel"
  /\ acc \in {"report", "close", "cancel"} => netFail
  /\ listenErr => acc \in {"close", "cancel", "done"}
  /\ closed /\ closer[owner] \in {"peers", "wait", "returned"} /\ sawListener
       => lopen = "closed"

(* How far StartNodeToNode can be when the manager, or the service, is      *)
(* closed: unless Shutdown met it, a Close saw the listener there is.       *)
StartOrder ==
  /\ mClosed <=> shut # "idle"
  /\ raced => mClosed
  /\ registered => start \notin {"idle", "register"}
  /\ mClosed /\ ~raced => start \in {"idle", "ok", "err"}
  /\ shut = "close" => start \notin {"idle", "register"}
  /\ shut = "topics" => ~registered
  /\ watch # "none" => start \notin Early
  /\ closed /\ ~raced => start \notin Early /\ sawListener = listener

(* A tracked connection is served by its handler, an open one belongs to a  *)
(* handler that will close it, and a peer without a loop is not tracked.    *)
HandlerOrder ==
  /\ \A c \in peers : h[c] \in {"wait", "remove"}
  /\ \A c \in Conns : copen[c] => h[c] \in {"handshake", "submit", "add", "wait"}
  /\ \A p \in Peers : p \notin outbound => h[p] = "none"

(* What the Close that did the work has left behind. *)
AfterClose ==
  CloseReturned =>
    /\ peers = {} /\ \A p \in Peers : ~Live(p)
    /\ ~raced => ~Accepting /\ \A c \in Conns : ~Live(c)

NodeInv ==
  /\ TypeOK
  /\ CloseOrder
  /\ ListenerOrder
  /\ StartOrder
  /\ HandlerOrder
  /\ AfterClose
  /\ NoListenErrorOnClose
  /\ ShutdownLeavesNone
  /\ UntrackedIsClosed
-----------------------------------------------------------------------------
(* Steps, by who takes them, and what they leave alone. *)

(* A step of the goroutines that serve a connection. *)
ConnStep(c) ==
  HandlerStep(c) \/ startPullFails(c) \/ ForwardError(c) \/ ForwardDone(c)

(* A step of Shutdown or of NewTopicNode. *)
ManagerStep ==
  \/ TopicNodeReady \/ TopicNodeFails \/ TopicNodeReturnsError
  \/ Shutdown \/ ShutdownTopics \/ ShutdownReturn \/ ShutdownTimeout

(* A step of the accept loop other than taking a connection. *)
AcceptStep == AcceptClosed \/ AcceptFails \/ AcceptGivesUp

LEMMA StepKinds ==
  ASSUME [Next]_vars
  PROVE  \/ StartStep
         \/ CancelContext \/ closeOnDone
         \/ \E t \in Closers : CloseEnter(t)
         \/ \E t \in Closers : CloseStep(t)
         \/ ManagerStep
         \/ AcceptStep
         \/ \E c \in Inbound : AcceptConnection(c)
         \/ \E c \in Conns : ConnStep(c)
         \/ \E p \in Peers : UserAddPeer(p)
         \/ UNCHANGED vars
  BY Zenon DEF Next, UserClose, Closers, ConnStep, ManagerStep, AcceptStep

LEMMA StartFrame ==
  ASSUME StartStep
  PROVE  UNCHANGED <<ctxDone, node, mClosed, topicClosed, shut, shutRet, raced, closed,
                     cancelled, listenErr, netFail, closeVars, peers, toClose, copen,
                     lastErr, backoff>>
  BY Zenon DEF StartStep, StartLookup, registerService, StartCheckContext, StartListen,
         StartAssignListener, StartSpawnAccept, StartWatch, StartTopicPeers, StartAddPeer,
         AddPeer, StartReturnError, mgrVars, svcVars, connVars

LEMMA CloseStepFrame ==
  ASSUME NEW t, CloseStep(t)
  PROVE  UNCHANGED <<ctxDone, node, mClosed, topicClosed, shut, shutRet, raced, startVars,
                     watch, closed, listener, listenErr, netFail, acc, owner, sawListener,
                     peers, outbound, h, lastErr, backoff>>
  BY Zenon DEF CloseStep, CloseCancel, unregisterService, CloseListener, ClosePeers, CloseWait,
         mgrVars, svcVars, connVars

LEMMA ManagerFrame ==
  ASSUME ManagerStep
  PROVE  UNCHANGED <<ctxDone, registered, startVars, watch, svcVars, closeVars, connVars>>
  BY Zenon DEF ManagerStep, TopicNodeReady, TopicNodeFails, TopicNodeReturnsError, Shutdown,
         shutdownBegins, ShutdownTopics, ShutdownReturn, ShutdownTimeout, mgrVars

(* It changes nothing but the connections. *)
LEMMA ConnStepFrame == \A c : ConnStep(c) => connFrame
  BY Zenon DEF ConnStep, HandlerStep, handshake, startMessageSubmission, addConnection, Wait,
         removeConnection, OutboundCheck, Dial, Pause, startPullFails, ForwardError,
         ForwardDone, forwardErrorsReturns

-----------------------------------------------------------------------------
(* Types *)

(* TypeOK by parts: the flags, the connections and the rest. *)
FlagsOK ==
  {ctxDone, mClosed, registered, topicClosed, closed, cancelled, listener,
   listenErr, netFail, sawListener, raced} \subseteq BOOLEAN
ConnsOK ==
  /\ toClose \subseteq Conns /\ peers \subseteq Conns /\ outbound \subseteq Peers
  /\ h \in [Conns -> {"none", "check", "dial", "handshake", "submit", "add", "wait",
                     "remove", "pause"}]
  /\ copen \in [Conns -> BOOLEAN] /\ lastErr \in [Conns -> BOOLEAN]
  /\ backoff \in [Peers -> InitialBackoff..MaxBackoff]
ProcsOK ==
  /\ node \in {"none", "starting", "failing", "ok", "err"}
  /\ shut \in {"idle", "close", "topics", "done"}
  /\ shutRet \in {"none", "waiting", "nil", "ctx"}
  /\ start \in {"idle", "register", "check", "listen", "assign", "spawn", "watch",
                "peers", "add", "fail", "ok", "err"}
  /\ todo \subseteq Peers
  /\ watch \in {"none", "run", "close"}
  /\ lopen \in {"none", "open", "closed"}
  /\ acc \in {"none", "accept", "report", "close", "cancel", "done"}
  /\ closer \in [Closers -> {"idle", "cancel", "unregister", "listener", "peers",
                            "wait", "returned"}]
  /\ owner \in Closers \cup {"nobody"}

LEMMA TypeParts == TypeOK <=> FlagsOK /\ ConnsOK /\ ProcsOK
  BY Zenon DEF TypeOK, FlagsOK, ConnsOK, ProcsOK

(* Setting a switch keeps its type. *)
LEMMA SwitchType ==
  ASSUME NEW f \in [Conns -> BOOLEAN], NEW c, NEW b \in BOOLEAN
  PROVE  [f EXCEPT ![c] = b] \in [Conns -> BOOLEAN]
  BY Zenon

(* The end of a connection keeps the types of what it sets. *)
LEMMA FinishType ==
  ASSUME ConnsOK, NEW c \in Conns, NEW err, finish(c, err)
  PROVE  /\ h' \in [Conns -> {"none", "check", "dial", "handshake", "submit", "add",
                             "wait", "remove", "pause"}]
         /\ backoff' \in [Peers -> InitialBackoff..MaxBackoff]
         /\ lastErr' \in [Conns -> BOOLEAN]
         /\ toClose' \subseteq Conns
<1>1. lastErr' \in [Conns -> BOOLEAN]
  BY Zenon, SwitchType DEF finish, ConnsOK
<1>2. backoff' \in [Peers -> InitialBackoff..MaxBackoff]
  BY NodeAssumption DEF finish, ConnsOK
<1>3. /\ h' \in [Conns -> {"none", "check", "dial", "handshake", "submit", "add",
                          "wait", "remove", "pause"}]
      /\ toClose' \subseteq Conns
  BY Zenon DEF finish, ConnsOK
<1> QED
  BY Zenon, <1>1, <1>2, <1>3

(* AddPeer keeps the connections' types. *)
LEMMA AddPeerType ==
  ASSUME ConnsOK, NEW p \in Peers, AddPeer(p)
  PROVE  ConnsOK'
  BY Zenon DEF AddPeer, ConnsOK, Conns

(* A step of a connection's goroutines keeps the types. *)
LEMMA ConnStepType ==
  ASSUME ConnsOK, NEW c \in Conns, ConnStep(c)
  PROVE  ConnsOK'
<1> USE FinishType, SwitchType
<1>a. /\ [copen EXCEPT ![c] = FALSE] \in [Conns -> BOOLEAN]
      /\ [copen EXCEPT ![c] = TRUE] \in [Conns -> BOOLEAN]
      /\ [lastErr EXCEPT ![c] = TRUE] \in [Conns -> BOOLEAN]
  BY Zenon DEF ConnsOK
<1>1. CASE handshake(c)
  BY Zenon, <1>1, <1>a DEF handshake, closePeer, ConnsOK
<1>2. CASE startMessageSubmission(c)
  BY Zenon, <1>2, <1>a DEF startMessageSubmission, closePeer, ConnsOK
<1>3. CASE addConnection(c)
  BY Zenon, <1>3, <1>a DEF addConnection, closePeer, ConnsOK
<1>4. CASE Wait(c)
  BY Zenon, <1>4, <1>a DEF Wait, closePeer, ConnsOK
<1>5. CASE removeConnection(c)
  BY Zenon, <1>5 DEF removeConnection, ConnsOK
<1>6. CASE OutboundCheck(c)
  BY Zenon, <1>6 DEF OutboundCheck, ConnsOK
<1>7. CASE Dial(c)
  BY Zenon, <1>7, <1>a DEF Dial, ConnsOK
<1>8. CASE c \in Peers /\ Pause(c)
  BY <1>8, NodeAssumption DEF Pause, ConnsOK
<1>9. CASE startPullFails(c)
  BY Zenon, <1>9, <1>a DEF startPullFails, sendError, ConnsOK
<1>10. CASE ForwardError(c)
  BY Zenon, <1>10, <1>a DEF ForwardError, forwardErrorsReturns, closePeer, sendError, ConnsOK
<1>11. CASE ForwardDone(c)
  BY Zenon, <1>11, <1>a DEF ForwardDone, forwardErrorsReturns, closePeer, ConnsOK
<1> QED
  BY Zenon, <1>1, <1>2, <1>3, <1>4, <1>5, <1>6, <1>7, <1>8, <1>9, <1>10, <1>11
     DEF ConnStep, HandlerStep

(* So do the other steps that set a flag. *)
LEMMA FlagsType ==
  ASSUME TypeOK, [Next]_vars
  PROVE  FlagsOK'
<1> USE TypeParts DEF FlagsOK, mgrVars, svcVars, closeVars
<1>1. CASE StartStep
  BY <1>1, StartFrame, Zenon
     DEF StartStep, StartLookup, registerService, StartCheckContext, StartListen,
         StartAssignListener, StartSpawnAccept, StartWatch, StartTopicPeers, StartAddPeer,
         StartReturnError
<1>2. CASE CancelContext \/ closeOnDone
  BY <1>2, Zenon DEF CancelContext, closeOnDone
<1>3. ASSUME NEW t \in Closers, CloseEnter(t)
      PROVE  FlagsOK'
  BY <1>3, ZenonT(60) DEF CloseEnter
<1>4. ASSUME NEW t \in Closers, CloseStep(t)
      PROVE  FlagsOK'
  BY <1>4, CloseStepFrame, Zenon
     DEF CloseStep, CloseCancel, unregisterService, CloseListener, ClosePeers, CloseWait
<1>5. CASE ManagerStep
  <2>1. mClosed' \in BOOLEAN /\ topicClosed' \in BOOLEAN /\ raced' \in BOOLEAN
    BY Zenon, <1>5 DEF ManagerStep, TopicNodeReady, TopicNodeFails, TopicNodeReturnsError, Shutdown,
         shutdownBegins, ShutdownTopics, ShutdownReturn, ShutdownTimeout
  <2> QED
    BY <1>5, <2>1, ManagerFrame, Zenon
<1>6. CASE AcceptStep
  BY <1>6, Zenon DEF AcceptStep, AcceptClosed, AcceptFails, acceptError, acceptNil, AcceptGivesUp,
         setListenError, AcceptCloseListener, AcceptCancel
<1>7. ASSUME NEW c \in Inbound, AcceptConnection(c)
      PROVE  FlagsOK'
  BY <1>7, Zenon DEF AcceptConnection
<1>8. ASSUME NEW c \in Conns, ConnStep(c)
      PROVE  FlagsOK'
  BY <1>8, ConnStepFrame, Zenon DEF connFrame
<1>9. ASSUME NEW p \in Peers, UserAddPeer(p)
      PROVE  FlagsOK'
  BY <1>9, Zenon DEF UserAddPeer, connFrame
<1>10. CASE UNCHANGED vars
  BY <1>10, Zenon DEF vars
<1> HIDE DEF FlagsOK, mgrVars, svcVars, closeVars
<1> QED
  BY Zenon, <1>1, <1>2, <1>3, <1>4, <1>5, <1>6, <1>7, <1>8, <1>9, <1>10, StepKinds

(* The program counters. *)
LEMMA ProcsType ==
  ASSUME TypeOK, [Next]_vars
  PROVE  ProcsOK'
<1>0. ProcsOK
  BY Zenon, TypeParts
<1>u. UNCHANGED <<node, shut, shutRet, start, todo, watch, lopen, acc, closer, owner>> => ProcsOK'
  BY Zenon, <1>0 DEF ProcsOK
<1> USE <1>0 DEF ProcsOK, mgrVars, startVars, svcVars, closeVars
<1>1. CASE StartStep
  BY Zenon, <1>1, StartFrame
     DEF StartStep, StartLookup, registerService, StartCheckContext, StartListen,
         StartAssignListener, StartSpawnAccept, StartWatch, StartTopicPeers, StartAddPeer,
         StartReturnError, startAt
<1>2. CASE CancelContext \/ closeOnDone
  BY Zenon, <1>2 DEF CancelContext, closeOnDone
<1>3. ASSUME NEW t \in Closers, CloseEnter(t)
      PROVE  ProcsOK'
  BY <1>3 DEF CloseEnter, closerAt
<1>4. ASSUME NEW t \in Closers, CloseStep(t)
      PROVE  ProcsOK'
  BY Zenon, <1>4, CloseStepFrame
     DEF CloseStep, CloseCancel, unregisterService, CloseListener, ClosePeers, CloseWait,
         closerAt
<1>5. CASE ManagerStep
  BY Zenon, <1>5, ManagerFrame
     DEF ManagerStep, TopicNodeReady, TopicNodeFails, TopicNodeReturnsError, Shutdown,
         shutdownBegins, ShutdownTopics, ShutdownReturn, ShutdownTimeout
<1>6. CASE AcceptStep
  BY Zenon, <1>6 DEF AcceptStep, AcceptClosed, AcceptFails, acceptError, acceptNil, AcceptGivesUp,
         setListenError, AcceptCloseListener, AcceptCancel
<1>7. ASSUME NEW c \in Inbound, AcceptConnection(c)
      PROVE  ProcsOK'
  BY <1>7 DEF AcceptConnection
<1>8. ASSUME NEW c \in Conns, ConnStep(c)
      PROVE  ProcsOK'
  BY Zenon, <1>8, ConnStepFrame DEF connFrame
<1>9. ASSUME NEW p \in Peers, UserAddPeer(p)
      PROVE  ProcsOK'
  <2>1. connFrame
    BY Zenon, <1>9 DEF UserAddPeer
  <2> HIDE <1>0 DEF ProcsOK
  <2> QED
    BY Zenon, <2>1, <1>u DEF connFrame
<1>10. CASE UNCHANGED vars
  BY <1>10 DEF vars
<1> HIDE DEF ProcsOK, mgrVars, startVars, svcVars, closeVars
<1> QED
  BY Zenon, <1>1, <1>2, <1>3, <1>4, <1>5, <1>6, <1>7, <1>8, <1>9, <1>10, StepKinds

(* The connections. *)
LEMMA ConnsType ==
  ASSUME TypeOK, [Next]_vars
  PROVE  ConnsOK'
<1> USE TypeParts DEF connVars
<1>0. UNCHANGED connVars => ConnsOK'
  BY Zenon DEF ConnsOK
<1>1. CASE StartStep
  <2>1. CASE StartAddPeer
    <3>1. ASSUME NEW p \in todo, AddPeer(p) PROVE ConnsOK'
      <4>1. p \in Peers
        BY Zenon DEF ProcsOK
      <4> QED
        BY Zenon, <4>1, <3>1, AddPeerType
    <3> QED
      BY Zenon, <2>1, <3>1, <1>0 DEF StartAddPeer
  <2>2. CASE ~StartAddPeer
    BY <1>1, <2>2, <1>0, Zenon
       DEF StartStep, StartLookup, registerService, StartCheckContext, StartListen,
           StartAssignListener, StartSpawnAccept, StartWatch, StartTopicPeers,
           StartReturnError
  <2> QED
    BY Zenon, <2>1, <2>2
<1>2. CASE CancelContext \/ closeOnDone
  BY Zenon, <1>2, <1>0 DEF CancelContext, closeOnDone
<1>3. ASSUME NEW t \in Closers, CloseEnter(t)
      PROVE  ConnsOK'
  BY Zenon, <1>3 DEF CloseEnter, ConnsOK
<1>4. ASSUME NEW t \in Closers, CloseStep(t)
      PROVE  ConnsOK'
  <2>1. CASE UNCHANGED connVars
    BY Zenon, <2>1, <1>0
  <2>2. ASSUME NEW c \in toClose, closePeer(c), toClose' = toClose \ {c}
        PROVE  ConnsOK'
    <3>1. copen' \in [Conns -> BOOLEAN]
      BY Zenon, <2>2, SwitchType DEF closePeer, ConnsOK
    <3> QED
      BY Zenon, <3>1, <2>2, <1>4, CloseStepFrame DEF ConnsOK
  <2> QED
    BY Zenon, <2>1, <2>2, <1>4
       DEF CloseStep, CloseCancel, unregisterService, CloseListener, ClosePeers, CloseWait
<1>5. CASE ManagerStep
  BY Zenon, <1>5, <1>0, ManagerFrame
<1>6. CASE AcceptStep
  BY Zenon, <1>6, <1>0 DEF AcceptStep, AcceptClosed, AcceptFails, acceptError, acceptNil, AcceptGivesUp,
         setListenError, AcceptCloseListener, AcceptCancel
<1>7. ASSUME NEW c \in Inbound, AcceptConnection(c)
      PROVE  ConnsOK'
  <2>1. copen' \in [Conns -> BOOLEAN]
    BY Zenon, <1>7, SwitchType DEF AcceptConnection, ConnsOK
  <2> QED
    BY Zenon, <2>1, <1>7 DEF AcceptConnection, ConnsOK
<1>8. ASSUME NEW c \in Conns, ConnStep(c)
      PROVE  ConnsOK'
  BY Zenon, <1>8, ConnStepType
<1>9. ASSUME NEW p \in Peers, UserAddPeer(p)
      PROVE  ConnsOK'
  BY Zenon, <1>9, AddPeerType DEF UserAddPeer
<1>10. CASE UNCHANGED vars
  BY Zenon, <1>10, <1>0 DEF vars
<1> HIDE DEF connVars
<1> QED
  BY Zenon, <1>1, <1>2, <1>3, <1>4, <1>5, <1>6, <1>7, <1>8, <1>9, <1>10, StepKinds

LEMMA NextType == TypeOK /\ [Next]_vars => TypeOK'
<1> SUFFICES ASSUME TypeOK, [Next]_vars PROVE TypeOK'
  BY Zenon
<1>1. FlagsOK' /\ ProcsOK' /\ ConnsOK'
  BY Zenon, FlagsType, ProcsType, ConnsType
<1>2. (FlagsOK /\ ConnsOK /\ ProcsOK => TypeOK)'
  BY TypeParts, PTL
<1> QED
  BY Zenon, <1>1, <1>2
-----------------------------------------------------------------------------
(* The inductive invariant *)

LEMMA CloseOrderStep ==
  ASSUME TypeOK, CloseOrder, [Next]_vars
  PROVE  CloseOrder'
<1> USE DEF svcVars, closeVars
<1>0. UNCHANGED <<closed, closer, owner, cancelled>> => CloseOrder'
  BY DEF CloseOrder
<1>1. CASE StartStep
  BY Zenon, <1>1, <1>0, StartFrame
<1>2. CASE CancelContext \/ closeOnDone
  BY Zenon, <1>2, <1>0 DEF CancelContext, closeOnDone
<1>3. ASSUME NEW t \in Closers, CloseEnter(t)
      PROVE  CloseOrder'
  BY <1>3 DEF CloseEnter, closerAt, CloseOrder, TypeOK, Closers
<1>4. ASSUME NEW t \in Closers, CloseStep(t)
      PROVE  CloseOrder'
  <2>1. t = owner /\ closed
    BY Zenon, <1>4 DEF CloseStep, CloseCancel, unregisterService, CloseListener, ClosePeers,
                CloseWait, closerAt, CloseOrder
  <2>2. CASE CloseCancel(t)
    BY Zenon, <2>1, <2>2 DEF CloseCancel, closerAt, CloseOrder, TypeOK
  <2>3. CASE ~CloseCancel(t)
    <3>1. cancelled' = cancelled /\ closer[t] # "cancel" /\ closer'[t] \notin {"idle", "cancel"}
      BY Zenon, <1>4, <2>3 DEF CloseStep, unregisterService, CloseListener, ClosePeers, CloseWait,
                        closerAt, TypeOK, connVars
    <3>2. \A u \in Closers \ {t} : closer'[u] = closer[u]
      BY Zenon, <1>4, <2>3 DEF CloseStep, unregisterService, CloseListener, ClosePeers, CloseWait,
                        closerAt, TypeOK, connVars
    <3> QED
      BY Zenon, <2>1, <3>1, <3>2, <1>4, CloseStepFrame DEF CloseOrder
  <2> QED
    BY Zenon, <2>2, <2>3
<1>5. CASE ManagerStep
  BY Zenon, <1>5, <1>0, ManagerFrame
<1>6. CASE AcceptStep
  BY <1>6 DEF AcceptStep, AcceptClosed, AcceptFails, acceptError, acceptNil, AcceptGivesUp,
         setListenError, AcceptCloseListener, AcceptCancel, CloseOrder, TypeOK
<1>7. ASSUME NEW c \in Inbound, AcceptConnection(c)
      PROVE  CloseOrder'
  BY Zenon, <1>7, <1>0 DEF AcceptConnection
<1>8. ASSUME NEW c \in Conns, ConnStep(c)
      PROVE  CloseOrder'
  BY Zenon, <1>8, <1>0, ConnStepFrame DEF connFrame
<1>9. ASSUME NEW p \in Peers, UserAddPeer(p)
      PROVE  CloseOrder'
  BY Zenon, <1>9, <1>0 DEF UserAddPeer, connFrame
<1>10. CASE UNCHANGED vars
  BY Zenon, <1>10, <1>0 DEF vars
<1> HIDE DEF svcVars, closeVars
<1> QED
  BY Zenon, <1>1, <1>2, <1>3, <1>4, <1>5, <1>6, <1>7, <1>8, <1>9, <1>10, StepKinds

(* The steps that Close takes belong to the caller that entered first. *)
LEMMA WorkerIsOwner ==
  ASSUME CloseOrder, NEW t \in Closers, CloseStep(t)
  PROVE  t = owner /\ closed
  BY Zenon DEF CloseStep, CloseCancel, unregisterService, CloseListener, ClosePeers, CloseWait,
         closerAt, CloseOrder

LEMMA ListenerOrderStep ==
  ASSUME TypeOK, CloseOrder, ListenerOrder, [Next]_vars
  PROVE  ListenerOrder'
<1> USE DEF svcVars, closeVars, startVars
<1>0. UNCHANGED <<start, svcVars, closeVars>> => ListenerOrder'
  BY DEF ListenerOrder
<1>1. CASE StartStep
  <2> USE StartFrame DEF startAt, ListenerOrder, Early
  <2>1. CASE StartListen
    BY Zenon, <1>1, <2>1 DEF StartListen
  <2>2. CASE StartAssignListener
    BY Zenon, <1>1, <2>2 DEF StartAssignListener
  <2>3. CASE StartSpawnAccept
    BY Zenon, <1>1, <2>3 DEF StartSpawnAccept
  <2>4. CASE StartLookup \/ registerService \/ StartCheckContext
    BY <1>1, <2>4 DEF StartLookup, registerService, StartCheckContext
  <2>5. CASE StartWatch \/ StartTopicPeers \/ StartAddPeer \/ StartReturnError
    BY <1>1, <2>5 DEF StartWatch, StartTopicPeers, StartAddPeer, StartReturnError
  <2> QED
    BY Zenon, <1>1, <2>1, <2>2, <2>3, <2>4, <2>5 DEF StartStep
<1>2. CASE CancelContext \/ closeOnDone
  BY Zenon, <1>2, <1>0 DEF CancelContext, closeOnDone
<1>3. ASSUME NEW t \in Closers, CloseEnter(t)
      PROVE  ListenerOrder'
  BY <1>3 DEF CloseEnter, closerAt, CloseOrder, ListenerOrder, TypeOK
<1>4. ASSUME NEW t \in Closers, CloseStep(t)
      PROVE  ListenerOrder'
  <2>1. t = owner /\ closed
    BY Zenon, <1>4, WorkerIsOwner
  <2>2. CASE CloseListener(t)
    BY Zenon, <2>1, <2>2 DEF CloseListener, closerAt, ListenerOrder, CloseOrder, TypeOK
  <2>3. CASE ~CloseListener(t)
    <3>1. UNCHANGED <<start, listener, lopen, listenErr, netFail, acc, sawListener,
                    closed, owner>>
      BY Zenon, <1>4, <2>3, CloseStepFrame
         DEF CloseStep, CloseCancel, unregisterService, ClosePeers, CloseWait
    <3>2. cancelled => cancelled'
      BY Zenon, <1>4, <2>3
         DEF CloseStep, CloseCancel, unregisterService, ClosePeers, CloseWait
    <3>3. closer \in [Closers -> {"idle", "cancel", "unregister", "listener", "peers",
                                 "wait", "returned"}]
      BY Zenon DEF TypeOK
    <3>4. closer'[t] \in {"peers", "wait", "returned"} => closer[t] \in {"peers", "wait"}
      <4>1. CASE CloseCancel(t) \/ unregisterService(t)
        BY Zenon, <3>3, <4>1 DEF CloseCancel, unregisterService, closerAt
      <4>2. CASE ClosePeers(t)
        BY Zenon, <4>2 DEF ClosePeers
      <4>3. CASE CloseWait(t)
        BY Zenon, <4>3 DEF CloseWait, closerAt
      <4> QED
        BY Zenon, <1>4, <2>3, <4>1, <4>2, <4>3 DEF CloseStep
    <3> QED
      BY Zenon, <2>1, <3>1, <3>2, <3>4 DEF ListenerOrder
  <2> QED
    BY Zenon, <2>2, <2>3
<1>5. CASE ManagerStep
  BY Zenon, <1>5, <1>0, ManagerFrame
<1>6. CASE AcceptStep
  <2> USE DEF ListenerOrder
  <2>1. CASE AcceptClosed
    BY Zenon, <2>1 DEF AcceptClosed, acceptError, SvcDone, Early
  <2>2. CASE AcceptFails
    <3>1. /\ acc = "accept" /\ acc' \in {"done", "report"}
          /\ acc' = "report" => netFail'
          /\ UNCHANGED <<start, closed, cancelled, listener, lopen, listenErr, closeVars>>
      BY Zenon, <2>2 DEF AcceptFails, acceptError, acceptNil
    <3> QED
      BY Zenon, <2>2, <3>1 DEF AcceptFails, Early
  <2>3. CASE setListenError
    BY Zenon, <2>3 DEF setListenError, Early
  <2>4. CASE AcceptCloseListener
    BY Zenon, <2>4 DEF AcceptCloseListener, Early
  <2>5. CASE AcceptCancel
    BY Zenon, <2>5 DEF AcceptCancel, Early
  <2> QED
    BY Zenon, <1>6, <2>1, <2>2, <2>3, <2>4, <2>5 DEF AcceptStep, AcceptGivesUp
<1>7. ASSUME NEW c \in Inbound, AcceptConnection(c)
      PROVE  ListenerOrder'
  BY Zenon, <1>7, <1>0 DEF AcceptConnection
<1>8. ASSUME NEW c \in Conns, ConnStep(c)
      PROVE  ListenerOrder'
  BY Zenon, <1>8, <1>0, ConnStepFrame DEF connFrame
<1>9. ASSUME NEW p \in Peers, UserAddPeer(p)
      PROVE  ListenerOrder'
  BY Zenon, <1>9, <1>0 DEF UserAddPeer, connFrame
<1>10. CASE UNCHANGED vars
  BY Zenon, <1>10, <1>0 DEF vars
<1> HIDE DEF svcVars, closeVars, startVars
<1> QED
  BY Zenon, <1>1, <1>2, <1>3, <1>4, <1>5, <1>6, <1>7, <1>8, <1>9, <1>10, StepKinds
LEMMA StartOrderStep ==
  ASSUME TypeOK, CloseOrder, ListenerOrder, StartOrder, [Next]_vars
  PROVE  StartOrder'
<1> USE DEF mgrVars, startVars, svcVars, closeVars
<1>0. UNCHANGED <<mClosed, registered, shut, raced, start, watch, closed, listener, sawListener>>
        => StartOrder'
  BY DEF StartOrder
<1>1. CASE StartStep
  <2> USE StartFrame DEF startAt, StartOrder, Early
  <2>1. CASE StartLookup
    BY Zenon, <1>1, <2>1 DEF StartLookup
  <2>2. CASE registerService
    BY <1>1, <2>2 DEF registerService
  <2>3. CASE StartCheckContext
    BY Zenon, <1>1, <2>3 DEF StartCheckContext
  <2>4. CASE StartListen
    BY Zenon, <1>1, <2>4 DEF StartListen
  <2>5. CASE StartAssignListener
    BY Zenon, <1>1, <2>5 DEF StartAssignListener
  <2>6. CASE StartSpawnAccept
    BY Zenon, <1>1, <2>6 DEF StartSpawnAccept
  <2>7. CASE StartWatch
    BY Zenon, <1>1, <2>7 DEF StartWatch
  <2>8. CASE StartTopicPeers \/ StartAddPeer \/ StartReturnError
    BY <1>1, <2>8 DEF StartTopicPeers, StartAddPeer, StartReturnError
  <2> QED
    BY Zenon, <1>1, <2>1, <2>2, <2>3, <2>4, <2>5, <2>6, <2>7, <2>8 DEF StartStep
<1>2. CASE CancelContext \/ closeOnDone
  BY <1>2 DEF CancelContext, closeOnDone, StartOrder
<1>3. ASSUME NEW t \in Closers, CloseEnter(t)
      PROVE  StartOrder'
  BY Zenon, <1>3 DEF CloseEnter, mayClose, closerAt, StartOrder, Early
<1>4. ASSUME NEW t \in Closers, CloseStep(t)
      PROVE  StartOrder'
  <2>1. registered' => registered
    BY Zenon, <1>4 DEF CloseStep, CloseCancel, unregisterService, CloseListener, ClosePeers, CloseWait
  <2> QED
    BY Zenon, <1>4, <2>1, CloseStepFrame DEF StartOrder
<1>5. CASE ManagerStep
  <2>1. CASE shutdownBegins
    BY Zenon, <1>5, <2>1, ManagerFrame DEF shutdownBegins, StartOrder, Early
  <2>2. CASE ~shutdownBegins
    <3>1. UNCHANGED <<mClosed, raced>> /\ (shut' = shut \/ (shut # "idle" /\ shut' = "done"))
      <4>1. CASE TopicNodeReady \/ TopicNodeReturnsError \/ ShutdownReturn \/ ShutdownTimeout
        BY Zenon, <4>1 DEF TopicNodeReady, TopicNodeReturnsError, ShutdownReturn, ShutdownTimeout
      <4>2. CASE ShutdownTopics
        BY Zenon, <4>2 DEF ShutdownTopics
      <4> QED
        BY Zenon, <1>5, <2>2, <4>1, <4>2 DEF ManagerStep, TopicNodeFails, Shutdown
    <3> QED
      BY <1>5, <3>1, ManagerFrame DEF StartOrder
  <2> QED
    BY Zenon, <2>1, <2>2
<1>6. CASE AcceptStep
  BY Zenon, <1>6, <1>0 DEF AcceptStep, AcceptClosed, AcceptFails, acceptError, acceptNil, AcceptGivesUp,
         setListenError, AcceptCloseListener, AcceptCancel
<1>7. ASSUME NEW c \in Inbound, AcceptConnection(c)
      PROVE  StartOrder'
  BY Zenon, <1>7, <1>0 DEF AcceptConnection
<1>8. ASSUME NEW c \in Conns, ConnStep(c)
      PROVE  StartOrder'
  BY Zenon, <1>8, <1>0, ConnStepFrame DEF connFrame
<1>9. ASSUME NEW p \in Peers, UserAddPeer(p)
      PROVE  StartOrder'
  BY Zenon, <1>9, <1>0 DEF UserAddPeer, connFrame
<1>10. CASE UNCHANGED vars
  BY Zenon, <1>10, <1>0 DEF vars
<1> HIDE DEF mgrVars, startVars, svcVars, closeVars
<1> QED
  BY Zenon, <1>1, <1>2, <1>3, <1>4, <1>5, <1>6, <1>7, <1>8, <1>9, <1>10, StepKinds

LEMMA HandlerOrderStep ==
  ASSUME TypeOK, HandlerOrder, UntrackedIsClosed, [Next]_vars
  PROVE  HandlerOrder' /\ UntrackedIsClosed'
<1> USE DEF connVars
<1>0. UNCHANGED <<peers, outbound, h, copen>> => HandlerOrder' /\ UntrackedIsClosed'
  BY Zenon DEF HandlerOrder, UntrackedIsClosed
<1>1. CASE StartStep
  <2>1. ASSUME NEW p \in todo, AddPeer(p) PROVE HandlerOrder' /\ UntrackedIsClosed'
    BY ZenonT(60), <2>1 DEF AddPeer, HandlerOrder, UntrackedIsClosed, TypeOK, Conns
  <2> QED
    BY Zenon, <1>0, <1>1, <2>1
       DEF StartStep, StartLookup, registerService, StartCheckContext, StartListen,
           StartAssignListener, StartSpawnAccept, StartWatch, StartTopicPeers,
           StartAddPeer, StartReturnError
<1>2. CASE CancelContext \/ closeOnDone
  BY Zenon, <1>2, <1>0 DEF CancelContext, closeOnDone
<1>3. ASSUME NEW t \in Closers, CloseEnter(t)
      PROVE  HandlerOrder' /\ UntrackedIsClosed'
  BY Zenon, <1>3, <1>0 DEF CloseEnter
<1>4. ASSUME NEW t \in Closers, CloseStep(t)
      PROVE  HandlerOrder' /\ UntrackedIsClosed'
  <2>1. CASE UNCHANGED connVars
    BY Zenon, <2>1, <1>0
  <2>2. ASSUME NEW c \in toClose, closePeer(c)
        PROVE  HandlerOrder' /\ UntrackedIsClosed'
    <3>1. UNCHANGED <<peers, outbound, h>>
      BY Zenon, <1>4, CloseStepFrame
    <3>2. copen \in [Conns -> BOOLEAN] /\ copen' = [copen EXCEPT ![c] = FALSE]
      BY Zenon, <2>2 DEF closePeer, TypeOK
    <3>3. \A d \in Conns : copen'[d] => copen[d]
      BY Zenon, <3>2
    <3> QED
      BY Zenon, <3>1, <3>3 DEF HandlerOrder, UntrackedIsClosed
  <2> QED
    BY Zenon, <2>1, <2>2, <1>4
       DEF CloseStep, CloseCancel, unregisterService, CloseListener, ClosePeers, CloseWait
<1>5. CASE ManagerStep
  BY Zenon, <1>5, <1>0, ManagerFrame
<1>6. CASE AcceptStep
  BY Zenon, <1>6, <1>0 DEF AcceptStep, AcceptClosed, AcceptFails, acceptError, acceptNil, AcceptGivesUp,
         setListenError, AcceptCloseListener, AcceptCancel
<1>7. ASSUME NEW c \in Inbound, AcceptConnection(c)
      PROVE  HandlerOrder' /\ UntrackedIsClosed'
  BY ZenonT(60), <1>7, NodeAssumption
     DEF AcceptConnection, Live, HandlerOrder, UntrackedIsClosed, TypeOK, Conns
<1>8. ASSUME NEW c \in Conns, ConnStep(c)
      PROVE  HandlerOrder' /\ UntrackedIsClosed'
  <2> USE DEF HandlerOrder, UntrackedIsClosed, TypeOK, finish, closePeer, Conns
  <2>1. CASE handshake(c)
    BY <2>1 DEF handshake
  <2>2. CASE startMessageSubmission(c)
    BY <2>2 DEF startMessageSubmission
  <2>3. CASE addConnection(c)
    BY ZenonT(60), <2>3 DEF addConnection
  <2>4. CASE Wait(c)
    BY Zenon, <2>4 DEF Wait
  <2>5. CASE removeConnection(c)
    BY Zenon, <2>5 DEF removeConnection
  <2>6. CASE OutboundCheck(c)
    BY Zenon, <2>6 DEF OutboundCheck
  <2>7. CASE Dial(c)
    BY <2>7 DEF Dial
  <2>8. CASE Pause(c)
    <3>1. /\ h[c] = "pause" /\ UNCHANGED <<peers, outbound, copen>>
          /\ \/ h' = [h EXCEPT ![c] = "none"]
             \/ h' = [h EXCEPT ![c] = "check"]
      BY Zenon, <2>8 DEF Pause
    <3> QED
      BY ZenonT(60), <3>1
  <2>9. CASE startPullFails(c)
    BY Zenon, <2>9 DEF startPullFails
  <2>10. CASE ForwardError(c) \/ ForwardDone(c)
    BY ZenonT(60), <2>10 DEF ForwardError, ForwardDone, forwardErrorsReturns
  <2> HIDE DEF HandlerOrder, UntrackedIsClosed, TypeOK, finish, closePeer, Conns
  <2> QED
    BY Zenon, <1>8, <2>1, <2>2, <2>3, <2>4, <2>5, <2>6, <2>7, <2>8, <2>9, <2>10
       DEF ConnStep, HandlerStep
<1>9. ASSUME NEW p \in Peers, UserAddPeer(p)
      PROVE  HandlerOrder' /\ UntrackedIsClosed'
  BY ZenonT(60), <1>9 DEF UserAddPeer, AddPeer, HandlerOrder, UntrackedIsClosed, TypeOK, Conns
<1>10. CASE UNCHANGED vars
  BY Zenon, <1>10, <1>0 DEF vars
<1> HIDE DEF connVars
<1> QED
  BY Zenon, <1>1, <1>2, <1>3, <1>4, <1>5, <1>6, <1>7, <1>8, <1>9, <1>10, StepKinds
(* A listener failure is reported by an accept loop that finds its listener *)
(* broken, not closed: whoever closes it has cancelled the context before.  *)
LEMMA NoListenErrorStep ==
  ASSUME TypeOK, ListenerOrder, NoListenErrorOnClose, [Next]_vars
  PROVE  NoListenErrorOnClose'
<1> USE DEF svcVars, NoListenErrorOnClose
<1>1. CASE AcceptStep
  BY Zenon, <1>1 DEF AcceptStep, AcceptClosed, AcceptFails, acceptError, acceptNil, AcceptGivesUp,
         setListenError, AcceptCloseListener, AcceptCancel, ListenerOrder, SvcDone, TypeOK
<1>2. CASE UNCHANGED <<listenErr, netFail>>
  BY Zenon, <1>2
<1>3. CASE StartStep
  BY Zenon, <1>3, <1>2, StartFrame
<1>4. CASE ManagerStep
  BY Zenon, <1>4, <1>2, ManagerFrame
<1>5. ASSUME NEW t \in Closers, CloseEnter(t) \/ CloseStep(t)
      PROVE  NoListenErrorOnClose'
  BY Zenon, <1>5, <1>2, CloseStepFrame DEF CloseEnter
<1>6. ASSUME NEW c, ConnStep(c) \/ AcceptConnection(c) \/ UserAddPeer(c)
      PROVE  NoListenErrorOnClose'
  BY Zenon, <1>6, <1>2, ConnStepFrame DEF connFrame, AcceptConnection, UserAddPeer
<1>7. CASE CancelContext \/ closeOnDone \/ UNCHANGED vars
  BY Zenon, <1>7, <1>2 DEF CancelContext, closeOnDone, vars
<1> HIDE DEF svcVars, NoListenErrorOnClose
<1> QED
  BY Zenon, <1>1, <1>3, <1>4, <1>5, <1>6, <1>7, StepKinds

(* A service registers before the manager is closed or not at all, and the  *)
(* goroutine of Shutdown passes a registered service only by closing it.    *)
LEMMA ShutdownLeavesNoneStep ==
  ASSUME TypeOK, CloseOrder, StartOrder, ShutdownLeavesNone, [Next]_vars
  PROVE  ShutdownLeavesNone'
<1> USE DEF mgrVars, svcVars, ShutdownLeavesNone
<1>0. CASE UNCHANGED <<shut, registered, closed>>
  BY Zenon, <1>0
<1>1. CASE StartStep
  BY Zenon, <1>1, StartFrame
     DEF StartStep, StartLookup, registerService, StartCheckContext, StartListen,
         StartAssignListener, StartSpawnAccept, StartWatch, StartTopicPeers, StartAddPeer,
         StartReturnError, StartOrder
<1>2. CASE ManagerStep
  BY Zenon, <1>2, ManagerFrame
     DEF ManagerStep, TopicNodeReady, TopicNodeFails, TopicNodeReturnsError, Shutdown,
         shutdownBegins, ShutdownTopics, ShutdownReturn, ShutdownTimeout, StartOrder,
         CloseOrder, Closers
<1>3. ASSUME NEW t \in Closers, CloseEnter(t) \/ CloseStep(t)
      PROVE  ShutdownLeavesNone'
  BY Zenon, <1>3, CloseStepFrame
     DEF CloseEnter, CloseStep, CloseCancel, unregisterService, CloseListener, ClosePeers,
         CloseWait, TypeOK
<1>4. ASSUME NEW c, ConnStep(c) \/ AcceptConnection(c) \/ UserAddPeer(c)
      PROVE  ShutdownLeavesNone'
  BY Zenon, <1>4, <1>0, ConnStepFrame DEF connFrame, AcceptConnection, UserAddPeer
<1>5. CASE AcceptStep \/ CancelContext \/ closeOnDone \/ UNCHANGED vars
  BY Zenon, <1>5, <1>0 DEF AcceptStep, AcceptClosed, AcceptFails, acceptError, acceptNil, AcceptGivesUp,
         setListenError, AcceptCloseListener, AcceptCancel, CancelContext, closeOnDone, vars
<1> HIDE DEF mgrVars, svcVars, ShutdownLeavesNone
<1> QED
  BY Zenon, <1>1, <1>2, <1>3, <1>4, <1>5, StepKinds

(* The Close that did the work returns when the WaitGroup is down to zero,  *)
(* and after that nothing is started any more.                              *)
LEMMA AfterCloseStep ==
  ASSUME NodeInv, [Next]_vars
  PROVE  AfterClose'
<1> USE DEF NodeInv, svcVars, closeVars, mgrVars, Accepting
<1>0. CASE /\ UNCHANGED <<closer, owner, raced, acc, peers>>
           /\ \A c \in Conns : ~Live(c) => ~Live(c)'
  BY Zenon, <1>0 DEF AfterClose, CloseReturned, Conns
<1>1. CASE ~CloseReturned'
  BY Zenon, <1>1 DEF AfterClose
<1>2. ASSUME NEW t \in Closers, CloseWait(t)
      PROVE  AfterClose'
  <2>1. ~Accepting' /\ \A c \in Conns : ~Live(c)'
    BY Zenon, <1>2 DEF CloseWait, wgZero, Live, connVars
  <2>2. peers' = {}
    BY Zenon, <1>2, <2>1 DEF CloseWait, connVars, HandlerOrder, TypeOK, Live
  <2> QED
    BY Zenon, <2>1, <2>2 DEF AfterClose, Conns
<1>3. ASSUME NEW t \in Closers, CloseStep(t), ~CloseWait(t)
      PROVE  AfterClose'
  <2>1. t = owner /\ owner' = owner
    BY Zenon, <1>3, WorkerIsOwner, CloseStepFrame
  <2>2. closer'[t] # "returned"
    BY Zenon, <1>3 DEF CloseStep, CloseCancel, unregisterService, CloseListener, ClosePeers,
                closerAt, TypeOK
  <2> QED
    BY Zenon, <1>1, <2>1, <2>2 DEF CloseReturned
<1>4. ASSUME NEW t \in Closers, CloseEnter(t)
      PROVE  AfterClose'
  <2>1. CASE closed
    <3>1. UNCHANGED <<owner, raced, acc, peers, h>>
      BY Zenon, <1>4, <2>1 DEF CloseEnter
    <3>2. closer[t] = "idle" /\ closer' = [closer EXCEPT ![t] = "returned"]
      BY Zenon, <1>4, <2>1 DEF CloseEnter, closerAt
    <3>3. owner \in Closers /\ owner # t
      BY Zenon, <2>1, <3>2 DEF CloseOrder, TypeOK
    <3>4. closer'[owner] = closer[owner]
      BY Zenon, <3>2, <3>3 DEF TypeOK
    <3>5. CloseReturned' => CloseReturned
      BY Zenon, <3>1, <3>4 DEF CloseReturned
    <3> QED
      BY Zenon, <3>1, <3>5 DEF AfterClose, Live
  <2>2. CASE ~closed
    <3>1. owner' = t /\ closer' = [closer EXCEPT ![t] = "cancel"]
      BY Zenon, <1>4, <2>2 DEF CloseEnter, closerAt
    <3> QED
      BY Zenon, <3>1, <1>1 DEF CloseReturned, TypeOK
  <2> QED
    BY Zenon, <2>1, <2>2
<1>5. ASSUME NEW c \in Conns, ConnStep(c)
      PROVE  AfterClose'
  <2>1. UNCHANGED <<closer, owner, raced, acc, closed>>
    BY Zenon, <1>5, ConnStepFrame DEF connFrame
  <2>2. \A d \in Conns : ~Live(d) => ~Live(d)'
    BY Zenon, <1>5 DEF ConnStep, HandlerStep, handshake, startMessageSubmission, addConnection, Wait,
                removeConnection, finish, OutboundCheck, Dial, Pause, startPullFails,
                ForwardError, ForwardDone, forwardErrorsReturns, Live, TypeOK
  <2>3. closed => peers' \subseteq peers
    BY Zenon, <1>5 DEF ConnStep, HandlerStep, handshake, startMessageSubmission, addConnection, Wait,
                removeConnection, OutboundCheck, Dial, Pause, startPullFails,
                ForwardError, ForwardDone, forwardErrorsReturns
  <2> QED
    BY Zenon, <2>1, <2>2, <2>3 DEF AfterClose, CloseReturned, CloseOrder, Conns
<1>6. CASE StartStep
  <2>1. closed => UNCHANGED h
    BY Zenon, <1>6 DEF StartStep, StartLookup, registerService, StartCheckContext, StartListen,
                StartAssignListener, StartSpawnAccept, StartWatch, StartTopicPeers,
                StartAddPeer, AddPeer, StartReturnError, connVars
  <2>2. closed /\ ~raced => UNCHANGED acc
    BY Zenon, <1>6 DEF StartStep, StartLookup, registerService, StartCheckContext, StartListen,
                StartAssignListener, StartSpawnAccept, startAt, StartWatch, StartTopicPeers,
                StartAddPeer, StartReturnError, StartOrder, Early
  <2> QED
    BY Zenon, <1>6, <2>1, <2>2, StartFrame DEF AfterClose, CloseReturned, CloseOrder, Live
<1>7. CASE ManagerStep
  <2>1. ~raced' => ~raced
    BY Zenon, <1>7 DEF ManagerStep, TopicNodeReady, TopicNodeFails, TopicNodeReturnsError, Shutdown,
                shutdownBegins, ShutdownTopics, ShutdownReturn, ShutdownTimeout, StartOrder
  <2> QED
    BY Zenon, <1>7, <2>1, ManagerFrame DEF AfterClose, CloseReturned, Live, connVars
<1>8. CASE AcceptStep
  BY Zenon, <1>8 DEF AcceptStep, AcceptClosed, AcceptFails, acceptError, acceptNil, AcceptGivesUp,
         setListenError, AcceptCloseListener, AcceptCancel, connVars, AfterClose, CloseReturned, Live
<1>9. ASSUME NEW c \in Inbound, AcceptConnection(c)
      PROVE  AfterClose'
  <2>1. \A p \in Peers : h'[p] = h[p]
    BY Zenon, <1>9, NodeAssumption DEF AcceptConnection, TypeOK, Conns
  <2> QED
    BY Zenon, <1>9, <2>1 DEF AcceptConnection, AfterClose, CloseReturned, Live
<1>10. ASSUME NEW p \in Peers, UserAddPeer(p)
       PROVE  AfterClose'
  BY Zenon, <1>10 DEF UserAddPeer, connFrame, AddPeer, AfterClose, CloseReturned, CloseOrder, Live
<1>11. CASE CancelContext \/ closeOnDone \/ UNCHANGED vars
  BY Zenon, <1>11 DEF CancelContext, closeOnDone, vars, connVars, AfterClose, CloseReturned, Live
<1> HIDE DEF NodeInv, svcVars, closeVars, mgrVars, Accepting
<1> QED
  BY Zenon, <1>2, <1>3, <1>4, <1>5, <1>6, <1>7, <1>8, <1>9, <1>10, <1>11, StepKinds

LEMMA NodeInit == Init => NodeInv
<1> SUFFICES ASSUME Init PROVE NodeInv
  BY Zenon
<1>1. FlagsOK
  BY Zenon DEF Init, FlagsOK
<1>2. ConnsOK
  <2>1. copen \in [Conns -> BOOLEAN] /\ lastErr \in [Conns -> BOOLEAN]
    BY Zenon DEF Init
  <2> QED
    BY <2>1, NodeAssumption DEF Init, ConnsOK
<1>3. ProcsOK
  BY Zenon DEF Init, ProcsOK
<1>4. CloseOrder /\ ListenerOrder /\ StartOrder
  BY Zenon DEF Init, CloseOrder, ListenerOrder, StartOrder, Early, Closers
<1>5. HandlerOrder /\ UntrackedIsClosed
  BY Zenon DEF Init, HandlerOrder, UntrackedIsClosed, Conns
<1>6. AfterClose /\ NoListenErrorOnClose /\ ShutdownLeavesNone
  BY Zenon DEF Init, AfterClose, CloseReturned, NoListenErrorOnClose, ShutdownLeavesNone
<1> QED
  BY Zenon, <1>1, <1>2, <1>3, <1>4, <1>5, <1>6, TypeParts DEF NodeInv

LEMMA NodeStep == NodeInv /\ [Next]_vars => NodeInv'
  BY Zenon, NextType, CloseOrderStep, ListenerOrderStep, StartOrderStep, HandlerOrderStep,
     AfterCloseStep, NoListenErrorStep, ShutdownLeavesNoneStep
     DEF NodeInv

-----------------------------------------------------------------------------
(* Theorems *)

(* The inductive invariant of src/network.go and src/manager.go: how far    *)
(* StartNodeToNode, Close, Shutdown and the connections' goroutines can be  *)
(* from one another.                                                        *)
THEOREM NodeInvariant == Spec => []NodeInv
  BY NodeInit, NodeStep, PTL DEF Spec

(* Type correctness; the delay of an outbound loop stays within its limits. *)
THEOREM NodeTypeOK == Spec => []TypeOK
<1>1. NodeInv => TypeOK
  BY Zenon DEF NodeInv
<1> QED
  BY <1>1, NodeInvariant, PTL

(* After the first Close has returned, nothing of the service runs or is    *)
(* started, unless Shutdown met StartNodeToNode (src/network.go:371-402).   *)
THEOREM NodeCloseMeansStopped == Spec => []CloseMeansStopped
<1>1. NodeInv => CloseMeansStopped
  <2> SUFFICES ASSUME NodeInv, CloseReturned, ~raced PROVE Stopped
    BY Zenon DEF CloseMeansStopped
  <2>1. closed
    BY Zenon DEF NodeInv, CloseOrder, CloseReturned
  <2>2. ~Accepting /\ peers = {} /\ \A c \in Conns : ~Live(c)
    BY Zenon DEF NodeInv, AfterClose
  <2>3. lopen # "open"
    BY Zenon, <2>1 DEF NodeInv, ListenerOrder, StartOrder, CloseReturned, Early
  <2>4. \A c \in Conns : ~copen[c]
    BY Zenon, <2>2 DEF NodeInv, HandlerOrder, Live
  <2> QED
    BY Zenon, <2>2, <2>3, <2>4 DEF Stopped
<1> QED
  BY <1>1, NodeInvariant, PTL

(* Even then the service tracks no connection and runs no outbound loop. *)
THEOREM NodeNoPeersAfterClose == Spec => []NoPeersAfterClose
<1>1. NodeInv => NoPeersAfterClose
  BY Zenon DEF NodeInv, AfterClose, NoPeersAfterClose
<1> QED
  BY <1>1, NodeInvariant, PTL

(* Closing a service is never reported as a failure of its listener. *)
THEOREM NodeNoListenErrorOnClose == Spec => []NoListenErrorOnClose
<1>1. NodeInv => NoListenErrorOnClose
  BY Zenon DEF NodeInv
<1> QED
  BY <1>1, NodeInvariant, PTL

(* No service slips past Shutdown (src/manager.go, Shutdown and             *)
(* registerService).                                                        *)
THEOREM NodeShutdownLeavesNone == Spec => []ShutdownLeavesNone
<1>1. NodeInv => ShutdownLeavesNone
  BY Zenon DEF NodeInv
<1> QED
  BY <1>1, NodeInvariant, PTL

(* A connection that Close cannot find is closed by addConnection. *)
THEOREM NodeUntrackedIsClosed == Spec => []UntrackedIsClosed
<1>1. NodeInv => UntrackedIsClosed
  BY Zenon DEF NodeInv
<1> QED
  BY <1>1, NodeInvariant, PTL
=============================================================================
