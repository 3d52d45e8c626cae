-------------------------------- MODULE Node --------------------------------
(***************************************************************************)
(* The life cycle of a node: a Manager (src/manager.go) with one topic and *)
(* one NodeToNodeService (src/network.go), from StartNodeToNode to         *)
(* Shutdown.  The goroutines are the caller of StartNodeToNode, the accept *)
(* loop, closeOnDone, one outbound loop per peer, one handler per inbound  *)
(* connection, forwardErrors of each connection, the goroutine inside      *)
(* Manager.Shutdown, and an application calling Close and AddPeer, or      *)
(* NewTopicNode (src/topic_node.go), which owns such a manager.  A section *)
(* under a mutex is one step; everything else interleaves.                 *)
(***************************************************************************)
EXTENDS Naturals, FiniteSets

CONSTANTS
  Inbound,           \* slots for inbound connections
  Peers,             \* addresses of the outbound peers
  ListenConfigured,  \* NodeToNodeConfig.ListenAddress # ""
  SharedManager,     \* may Shutdown be called while StartNodeToNode runs
  ViaTopicNode,      \* is the Manager that of a TopicNode
  ShutdownDeadline,  \* may the context given to Shutdown end
  InitialBackoff,    \* ReconnectConfig.InitialBackoff
  MaxBackoff         \* ReconnectConfig.MaxBackoff

(* Nobody else has the Manager of a TopicNode while NewTopicNode runs;      *)
(* defaultReconnectConfig orders the two delays.                            *)
ASSUME NodeAssumption ==
  /\ Inbound \cap Peers = {}
  /\ ListenConfigured \in BOOLEAN /\ SharedManager \in BOOLEAN
  /\ ShutdownDeadline \in BOOLEAN
  /\ ViaTopicNode \in BOOLEAN /\ ~(ViaTopicNode /\ SharedManager)
  /\ InitialBackoff \in Nat \ {0} /\ MaxBackoff \in Nat
  /\ InitialBackoff <= MaxBackoff

Conns == Inbound \cup Peers

(* The goroutines that call NodeToNodeService.Close. *)
Closers == {"start", "watch", "shutdown", "user"}

VARIABLES
  ctxDone,      \* the context given to StartNodeToNode is cancelled
  node,         \* NewTopicNode, or "none" where there is a bare Manager
  mClosed,      \* Manager.closed; its context is cancelled with it
  registered,   \* the service is in Manager.services
  topicClosed,  \* topicRuntime.close has run
  shut,         \* the goroutine started by Manager.Shutdown
  shutRet,      \* the caller of Manager.Shutdown
  raced,        \* history: Shutdown began during StartNodeToNode
  start,        \* program counter of StartNodeToNode
  todo,         \* peers that start has yet to add
  watch,        \* the closeOnDone goroutine
  closed,       \* NodeToNodeService.closed
  cancelled,    \* NodeToNodeService.cancel was called
  listener,     \* NodeToNodeService.listener # nil
  lopen,        \* the TCP listener itself
  listenErr,    \* NodeToNodeService.listenErr # nil
  netFail,      \* history: the accept loop gave up a listener nobody had closed
  acc,          \* the acceptLoop goroutine
  closer,       \* each caller of Close
  owner,        \* the caller whose Close does the work
  sawListener,  \* that Close found a listener
  toClose,      \* connections that Close found and has yet to close
  peers,        \* NodeToNodeService.peers
  outbound,     \* keys of NodeToNodeService.outbound
  h,            \* handler or outbound loop of each connection
  copen,        \* its TCP connection is open, its done channel is not closed
  lastErr,      \* its lastErr # nil; errorCh then holds a token
  backoff       \* the delay of each outbound loop

mgrVars == <<mClosed, registered, topicClosed, shut, shutRet, raced>>
startVars == <<start, todo>>
svcVars == <<closed, cancelled, listener, lopen, listenErr, netFail, acc>>
closeVars == <<closer, owner, sawListener>>
connVars == <<peers, toClose, outbound, h, copen, lastErr, backoff>>
vars == <<ctxDone, node, mgrVars, startVars, watch, svcVars, closeVars, connVars>>

(* <-s.ctx.Done(): the service context is derived from the caller's. *)
SvcDone == cancelled \/ ctxDone

(* A handler or outbound loop runs. *)
Live(c) == h[c] # "none"

(* The accept loop runs. *)
Accepting == acc \notin {"none", "done"}

(* Variant: the handlers of accepted connections are not counted. *)
wgZeroOutboundOnly == ~Accepting /\ \A p \in Peers : ~Live(p)

(* The WaitGroup counts the accept loop, handlers and outbound loops. *)
wgZero == ~Accepting /\ \A c \in Conns : ~Live(c)

Init ==
  /\ ctxDone = FALSE
  /\ node = IF ViaTopicNode THEN "starting" ELSE "none"
  /\ mClosed = FALSE /\ registered = FALSE /\ topicClosed = FALSE
  /\ shut = "idle" /\ shutRet = "none" /\ raced = FALSE
  /\ start = "idle" /\ todo = {}
  /\ watch = "none"
  /\ closed = FALSE /\ cancelled = FALSE
  /\ listener = FALSE /\ lopen = "none" /\ listenErr = FALSE /\ netFail = FALSE
  /\ acc = "none"
  /\ closer = [t \in Closers |-> "idle"]
  /\ owner = "nobody" /\ sawListener = FALSE /\ toClose = {}
  /\ peers = {} /\ outbound = {}
  /\ h = [c \in Conns |-> "none"]
  /\ copen = [c \in Conns |-> FALSE]
  /\ lastErr = [c \in Conns |-> FALSE]
  /\ backoff = [c \in Peers |-> InitialBackoff]
-----------------------------------------------------------------------------
(* StartNodeToNode *)

startAt(pc, next) == start = pc /\ start' = next

topicNodeNetworkConfigured == ListenConfigured \/ Peers # {}

(* m.topic, then the checks of the topic's network magic and policy. *)
StartLookup ==
  /\ \/ startAt("idle", "err")
     \/ startAt("idle", "register") /\ ~mClosed
  /\ \/ node = "none"
     \/ node = "starting" /\ topicNodeNetworkConfigured
  /\ UNCHANGED <<ctxDone, node, mgrVars, todo, watch, svcVars, closeVars, connVars>>

(* Variant: a service is registered with a manager that is shut down. *)
registerServiceUnchecked ==
  /\ startAt("register", "check") /\ registered' = TRUE
  /\ UNCHANGED <<ctxDone, node, mClosed, topicClosed, shut, shutRet, raced, todo, watch,
                 svcVars, closeVars, connVars>>

registerService ==
  /\ \/ startAt("register", "err") /\ mClosed /\ UNCHANGED registered
     \/ startAt("register", "check") /\ ~mClosed /\ registered' = TRUE
  /\ UNCHANGED <<ctxDone, node, mClosed, topicClosed, shut, shutRet, raced, todo, watch,
                 svcVars, closeVars, connVars>>

StartCheckContext ==
  /\ \/ startAt("check", "fail") /\ ctxDone
     \/ startAt("check", "listen") /\ ~ctxDone /\ ListenConfigured
     \/ startAt("check", "watch") /\ ~ctxDone /\ ~ListenConfigured
  /\ UNCHANGED <<ctxDone, node, mgrVars, todo, watch, svcVars, closeVars, connVars>>

StartListen ==
  /\ \/ startAt("listen", "fail") /\ UNCHANGED lopen
     \/ startAt("listen", "assign") /\ lopen' = "open"
  /\ UNCHANGED <<ctxDone, node, mgrVars, todo, watch, closed, cancelled, listener,
                 listenErr, netFail, acc, closeVars, connVars>>

StartAssignListener ==
  /\ startAt("assign", "spawn")
  /\ listener' = TRUE
  /\ UNCHANGED <<ctxDone, node, mgrVars, todo, watch, closed, cancelled, lopen,
                 listenErr, netFail, acc, closeVars, connVars>>

StartSpawnAccept ==
  /\ startAt("spawn", "watch")
  /\ acc' = "accept"
  /\ UNCHANGED <<ctxDone, node, mgrVars, todo, watch, closed, cancelled, listener,
                 lopen, listenErr, netFail, closeVars, connVars>>

StartWatch ==
  /\ startAt("watch", "peers")
  /\ watch' = "run"
  /\ UNCHANGED <<ctxDone, node, mgrVars, todo, svcVars, closeVars, connVars>>

(* m.TopicPeers fails on a closed manager or when discovery does. *)
StartTopicPeers ==
  /\ \/ startAt("peers", "fail") /\ UNCHANGED todo
     \/ startAt("peers", "add") /\ ~mClosed /\ todo' = Peers
  /\ UNCHANGED <<ctxDone, node, mgrVars, watch, svcVars, closeVars, connVars>>

(* Variant: AddPeer does not look at closed. *)
AddPeerUnchecked(p) ==
  /\ outbound' = outbound \cup {p}
  /\ h' = [h EXCEPT ![p] = IF p \in outbound THEN @ ELSE "check"]
  /\ UNCHANGED <<peers, toClose, copen, lastErr, backoff>>

(* AddPeer: ignored after Close and for an address that is tracked. *)
AddPeer(p) ==
  /\ \/ (closed \/ p \in outbound) /\ UNCHANGED <<outbound, h>>
     \/ /\ ~closed /\ p \notin outbound
        /\ outbound' = outbound \cup {p}
        /\ h' = [h EXCEPT ![p] = "check"]
  /\ UNCHANGED <<peers, toClose, copen, lastErr, backoff>>

StartAddPeer ==
  /\ start = "add"
  /\ \/ todo = {} /\ start' = "ok" /\ UNCHANGED <<todo, connVars>>
     \/ \E p \in todo : AddPeer(p) /\ todo' = todo \ {p} /\ UNCHANGED start
  /\ UNCHANGED <<ctxDone, node, mgrVars, watch, svcVars, closeVars>>

(* A failed start returns its error once its Close has returned. *)
StartReturnError ==
  /\ startAt("fail", "err")
  /\ closer["start"] = "returned"
  /\ UNCHANGED <<ctxDone, node, mgrVars, todo, watch, svcVars, closeVars, connVars>>

StartStep ==
  \/ StartLookup \/ registerService \/ StartCheckContext \/ StartListen
  \/ StartAssignListener \/ StartSpawnAccept \/ StartWatch \/ StartTopicPeers
  \/ StartAddPeer \/ StartReturnError
-----------------------------------------------------------------------------
(* NodeToNodeService.Close and its callers *)

closerAt(t, pc, next) == closer[t] = pc /\ closer' = [closer EXCEPT ![t] = next]

(* Who is about to call Close. *)
mayClose(t) ==
  \/ t = "start" /\ start = "fail"
  \/ t = "watch" /\ watch = "close"
  \/ t = "shutdown" /\ shut = "close"
  \/ t = "user" /\ start = "ok" /\ node # "starting"

(* The first locked section: only one call goes past it. *)
CloseEnter(t) ==
  /\ mayClose(t)
  /\ \/ /\ closed /\ closerAt(t, "idle", "returned")
        /\ UNCHANGED <<closed, owner, sawListener, toClose>>
     \/ /\ ~closed /\ closerAt(t, "idle", "cancel")
        /\ closed' = TRUE /\ owner' = t
        /\ sawListener' = listener /\ toClose' = peers
  /\ UNCHANGED <<ctxDone, node, mgrVars, startVars, watch, cancelled, listener, lopen,
                 listenErr, netFail, acc, peers, outbound, h, copen, lastErr,
                 backoff>>

(* Variant: the service context is not cancelled. *)
CloseCancelForgotten(t) ==
  /\ closerAt(t, "cancel", "unregister")
  /\ UNCHANGED <<ctxDone, node, mgrVars, startVars, watch, svcVars, owner, sawListener,
                 connVars>>

CloseCancel(t) ==
  /\ closerAt(t, "cancel", "unregister")
  /\ cancelled' = TRUE
  /\ UNCHANGED <<ctxDone, node, mgrVars, startVars, watch, closed, listener, lopen,
                 listenErr, netFail, acc, owner, sawListener, connVars>>

unregisterService(t) ==
  /\ closerAt(t, "unregister", "listener")
  /\ registered' = FALSE
  /\ UNCHANGED <<ctxDone, node, mClosed, topicClosed, shut, shutRet, raced, startVars, watch,
                 svcVars, owner, sawListener, connVars>>

(* Variant: the listener is left open. *)
CloseListenerSkipped(t) ==
  /\ closerAt(t, "listener", "peers")
  /\ UNCHANGED <<ctxDone, node, mgrVars, startVars, watch, svcVars, owner, sawListener,
                 connVars>>

CloseListener(t) ==
  /\ closerAt(t, "listener", "peers")
  /\ lopen' = IF sawListener THEN "closed" ELSE lopen
  /\ UNCHANGED <<ctxDone, node, mgrVars, startVars, watch, closed, cancelled, listener,
                 listenErr, netFail, acc, owner, sawListener, connVars>>

(* nodeToNodePeerConnection.Close: once, under closeOnce. *)
closePeer(c) == copen' = [copen EXCEPT ![c] = FALSE]

ClosePeers(t) ==
  /\ closer[t] = "peers"
  /\ \/ /\ toClose = {} /\ closerAt(t, "peers", "wait")
        /\ UNCHANGED connVars
     \/ \E c \in toClose :
          /\ closePeer(c) /\ toClose' = toClose \ {c}
          /\ UNCHANGED <<closer, peers, outbound, h, lastErr, backoff>>
  /\ UNCHANGED <<ctxDone, node, mgrVars, startVars, watch, svcVars, owner, sawListener>>

(* s.wg.Wait() *)
CloseWait(t) ==
  /\ wgZero
  /\ closerAt(t, "wait", "returned")
  /\ UNCHANGED <<ctxDone, node, mgrVars, startVars, watch, svcVars, owner, sawListener,
                 connVars>>

CloseStep(t) ==
  \/ CloseCancel(t) \/ unregisterService(t) \/ CloseListener(t)
  \/ ClosePeers(t) \/ CloseWait(t)

(* The application closes a service that StartNodeToNode returned. *)
UserClose == CloseEnter("user")

(* Variant: only the caller's context is watched. *)
closeOnDoneCallerOnly ==
  /\ watch = "run" /\ ctxDone /\ watch' = "close"
  /\ UNCHANGED <<ctxDone, node, mgrVars, startVars, svcVars, closeVars, connVars>>

closeOnDone ==
  /\ watch = "run" /\ SvcDone /\ watch' = "close"
  /\ UNCHANGED <<ctxDone, node, mgrVars, startVars, svcVars, closeVars, connVars>>

CancelContext ==
  /\ ~ctxDone /\ ctxDone' = TRUE
  /\ UNCHANGED <<node, mgrVars, startVars, watch, svcVars, closeVars, connVars>>
-----------------------------------------------------------------------------
(* Manager.Shutdown: the locked section, then the goroutine it starts while *)
(* the caller waits for that goroutine or for its own context.              *)

shutdownBegins ==
  /\ ~mClosed /\ mClosed' = TRUE
  /\ shut' = IF registered THEN "close" ELSE "topics"
  /\ shutRet' = "waiting" /\ raced' = (start \notin {"idle", "ok", "err"})
  /\ UNCHANGED <<ctxDone, registered, topicClosed, startVars, watch, svcVars,
                 closeVars, connVars>>

(* The application's call; TopicNode.Shutdown is this one. *)
Shutdown ==
  /\ SharedManager \/ start \in {"idle", "ok", "err"}
  /\ node \in {"none", "ok"}
  /\ shutdownBegins /\ UNCHANGED node

ShutdownTopics ==
  /\ \/ shut = "topics"
     \/ shut = "close" /\ closer["shutdown"] = "returned"
  /\ topicClosed' = TRUE /\ shut' = "done"
  /\ UNCHANGED <<ctxDone, node, mClosed, registered, shutRet, raced, startVars, watch, svcVars,
                 closeVars, connVars>>

ShutdownReturn ==
  /\ shutRet = "waiting" /\ shut = "done" /\ shutRet' = "nil"
  /\ UNCHANGED <<ctxDone, node, mClosed, registered, topicClosed, shut, raced, startVars, watch,
                 svcVars, closeVars, connVars>>

ShutdownTimeout ==
  /\ ShutdownDeadline
  /\ shutRet = "waiting" /\ node # "failing" /\ shutRet' = "ctx"
  /\ UNCHANGED <<ctxDone, node, mClosed, registered, topicClosed, shut, raced, startVars, watch,
                 svcVars, closeVars, connVars>>
-----------------------------------------------------------------------------
(* NewTopicNode: RegisterTopic, then StartNodeToNode if there is anything to *)
(* listen on or to dial.                                                     *)

TopicNodeReady ==
  /\ node = "starting" /\ (start = "ok" \/ ~topicNodeNetworkConfigured)
  /\ node' = "ok"
  /\ UNCHANGED <<ctxDone, mgrVars, startVars, watch, svcVars, closeVars, connVars>>

(* Either call fails: Shutdown with a context that is never cancelled. *)
TopicNodeFails ==
  /\ node = "starting" /\ start \in {"idle", "err"}
  /\ node' = "failing" /\ shutdownBegins

TopicNodeReturnsError ==
  /\ node = "failing" /\ shutRet = "nil" /\ node' = "err"
  /\ UNCHANGED <<ctxDone, mgrVars, startVars, watch, svcVars, closeVars, connVars>>

TopicNodeStep ==
  TopicNodeReady \/ (start = "err" /\ TopicNodeFails) \/ TopicNodeReturnsError
-----------------------------------------------------------------------------
(* The accept loop *)

(* A connection arrives; its handler starts with a fresh peer connection. *)
AcceptConnection(c) ==
  /\ acc = "accept" /\ lopen = "open" /\ ~Live(c)
  /\ h' = [h EXCEPT ![c] = "handshake"]
  /\ copen' = [copen EXCEPT ![c] = TRUE]
  /\ UNCHANGED <<ctxDone, node, mgrVars, startVars, watch, svcVars, closeVars, peers,
                 toClose, outbound, lastErr, backoff>>

(* Accept returns an error: the loop ends quietly when the service context  *)
(* is done.                                                                 *)
acceptError ==
  /\ acc = "accept"
  /\ \/ SvcDone /\ acc' = "done"
     \/ ~SvcDone /\ acc' = "report"
  /\ UNCHANGED <<ctxDone, node, mgrVars, startVars, watch, closed, cancelled, listener,
                 lopen, listenErr, closeVars, connVars>>

(* Accept returns no error and no connection; the context is not asked. *)
acceptNil ==
  /\ acc = "accept" /\ acc' = "report"
  /\ UNCHANGED <<ctxDone, node, mgrVars, startVars, watch, closed, cancelled, listener,
                 lopen, listenErr, closeVars, connVars>>

AcceptClosed == lopen = "closed" /\ acceptError /\ UNCHANGED netFail
AcceptFails ==
  lopen = "open" /\ (acceptError \/ acceptNil) /\ netFail' = (acc' = "report")

(* The loop gives up: it records the error, closes the listener, and then   *)
(* cancels the service context.                                             *)
setListenError ==
  /\ acc = "report" /\ acc' = "close"
  /\ listenErr' = TRUE
  /\ UNCHANGED <<ctxDone, node, mgrVars, startVars, watch, closed, cancelled, listener,
                 lopen, netFail, closeVars, connVars>>

AcceptCloseListener ==
  /\ acc = "close" /\ acc' = "cancel"
  /\ lopen' = "closed"
  /\ UNCHANGED <<ctxDone, node, mgrVars, startVars, watch, closed, cancelled, listener,
                 listenErr, netFail, closeVars, connVars>>

AcceptCancel ==
  /\ acc = "cancel" /\ acc' = "done"
  /\ cancelled' = TRUE
  /\ UNCHANGED <<ctxDone, node, mgrVars, startVars, watch, closed, listener, lopen,
                 listenErr, netFail, closeVars, connVars>>

AcceptGivesUp == setListenError \/ AcceptCloseListener \/ AcceptCancel
-----------------------------------------------------------------------------
(* Connections: dialAndServe and handleConnection *)

(* The handler of c leaves handleConnection (or a failed dial): the inbound *)
(* goroutine ends, the outbound loop resets its delay unless there was an   *)
(* error, and pauses.  The connection is closed by then and nobody reads    *)
(* what its forwardErrors goroutine may still record.                       *)
finish(c, err) ==
  /\ h' = [h EXCEPT ![c] = IF c \in Inbound THEN "none" ELSE "pause"]
  /\ backoff' = [p \in Peers |-> IF p = c /\ ~err THEN InitialBackoff
                                 ELSE backoff[p]]
  /\ lastErr' = [lastErr EXCEPT ![c] = FALSE]
  /\ toClose' = toClose \ {c}

connFrame == UNCHANGED <<ctxDone, node, mgrVars, startVars, watch, svcVars, closeVars>>

OutboundCheck(c) ==
  /\ h[c] = "check"
  /\ h' = [h EXCEPT ![c] = IF SvcDone THEN "none" ELSE "dial"]
  /\ UNCHANGED <<peers, toClose, outbound, copen, lastErr, backoff>>
  /\ connFrame

Dial(c) ==
  /\ h[c] = "dial"
  /\ \/ finish(c, TRUE) /\ UNCHANGED copen
     \/ /\ h' = [h EXCEPT ![c] = "handshake"]
        /\ copen' = [copen EXCEPT ![c] = TRUE]
        /\ UNCHANGED <<toClose, lastErr, backoff>>
  /\ UNCHANGED <<peers, outbound>>
  /\ connFrame

(* The handshake finishes, or fails: refused, past its deadline, or         *)
(* interrupted by the service context.                                      *)
handshake(c) ==
  /\ h[c] = "handshake"
  /\ \/ closePeer(c) /\ finish(c, TRUE)
     \/ /\ h' = [h EXCEPT ![c] = "submit"]
        /\ UNCHANGED <<toClose, copen, lastErr, backoff>>
  /\ UNCHANGED <<peers, outbound>>
  /\ connFrame

(* startMessageSubmission looks the topic up again, then forwardErrors and  *)
(* startPull are started.                                                   *)
startMessageSubmission(c) ==
  /\ h[c] = "submit"
  /\ \/ closePeer(c) /\ finish(c, TRUE)
     \/ /\ ~mClosed
        /\ h' = [h EXCEPT ![c] = "add"]
        /\ UNCHANGED <<toClose, copen, lastErr, backoff>>
  /\ UNCHANGED <<peers, outbound>>
  /\ connFrame

(* Variant: a connection refused by a closed service is left open. *)
addConnectionLeftOpen(c) ==
  /\ h[c] = "add"
  /\ h' = [h EXCEPT ![c] = "wait"]
  /\ peers' = IF closed THEN peers ELSE peers \cup {c}
  /\ UNCHANGED <<copen, toClose, outbound, lastErr, backoff>>
  /\ connFrame

addConnection(c) ==
  /\ h[c] = "add"
  /\ h' = [h EXCEPT ![c] = "wait"]
  /\ \/ closed /\ closePeer(c) /\ UNCHANGED peers
     \/ ~closed /\ peers' = peers \cup {c} /\ UNCHANGED copen
  /\ UNCHANGED <<toClose, outbound, lastErr, backoff>>
  /\ connFrame

(* nodeToNodePeerConnection.Wait *)
Wait(c) ==
  /\ h[c] = "wait" /\ (SvcDone \/ ~copen[c] \/ lastErr[c])
  /\ h' = [h EXCEPT ![c] = "remove"]
  /\ closePeer(c)
  /\ UNCHANGED <<peers, toClose, outbound, lastErr, backoff>>
  /\ connFrame

removeConnection(c) ==
  /\ h[c] = "remove"
  /\ peers' = peers \ {c}
  /\ finish(c, lastErr[c])
  /\ UNCHANGED <<outbound, copen>>
  /\ connFrame

(* Variant: the delay doubles past its cap. *)
PauseUncapped(c) ==
  /\ h[c] = "pause"
  /\ \/ SvcDone /\ h' = [h EXCEPT ![c] = "none"] /\ UNCHANGED backoff
     \/ /\ h' = [h EXCEPT ![c] = "check"]
        /\ backoff' = [backoff EXCEPT ![c] = 2 * @]
  /\ UNCHANGED <<peers, toClose, outbound, copen, lastErr>>
  /\ connFrame

(* Variant: the loop ends with the first lost connection. *)
PauseGivesUp(c) ==
  /\ h[c] = "pause" /\ h' = [h EXCEPT ![c] = "none"]
  /\ UNCHANGED <<peers, toClose, outbound, copen, lastErr, backoff>>
  /\ connFrame

(* The outbound loop waits for its delay or the service context. *)
Pause(c) ==
  /\ h[c] = "pause"
  /\ \/ SvcDone /\ h' = [h EXCEPT ![c] = "none"] /\ UNCHANGED backoff
     \/ /\ h' = [h EXCEPT ![c] = "check"]
        /\ backoff' = [backoff EXCEPT ![c] = IF 2 * @ > MaxBackoff THEN MaxBackoff
                                             ELSE 2 * @]
  /\ UNCHANGED <<peers, toClose, outbound, copen, lastErr>>
  /\ connFrame

HandlerStep(c) ==
  \/ handshake(c) \/ startMessageSubmission(c) \/ addConnection(c)
  \/ Wait(c) \/ removeConnection(c)
  \/ c \in Peers /\ (OutboundCheck(c) \/ Dial(c) \/ Pause(c))
(* sendError: records the error and wakes the handler. *)
sendError(c) == lastErr' = [lastErr EXCEPT ![c] = TRUE]

(* The goroutines startPull and forwardErrors of the connection may run. *)
Started(c) == h[c] \in {"add", "wait", "remove"}

(* The first request of startPull fails. *)
startPullFails(c) ==
  /\ Started(c)
  /\ sendError(c)
  /\ UNCHANGED <<peers, toClose, outbound, h, copen, backoff>>
  /\ connFrame

(* forwardErrors closes the connection on its way out, so it runs as long   *)
(* as the connection is open; what it may still record when another closes  *)
(* it first is what startPullFails records.                                 *)
forwardErrorsReturns(c) ==
  /\ Started(c) /\ copen[c]
  /\ closePeer(c)
  /\ UNCHANGED <<peers, toClose, outbound, h, backoff>>
  /\ connFrame

(* It receives an error from the protocol or the muxer, or nil once their   *)
(* channel is closed.                                                       *)
ForwardError(c) ==
  (sendError(c) \/ UNCHANGED lastErr) /\ forwardErrorsReturns(c)

(* The service context is done. *)
ForwardDone(c) == SvcDone /\ forwardErrorsReturns(c) /\ UNCHANGED lastErr

(* The application adds a peer to a running service. *)
UserAddPeer(p) ==
  /\ start = "ok" /\ node # "starting"
  /\ AddPeer(p)
  /\ connFrame
-----------------------------------------------------------------------------
Next ==
  \/ StartStep \/ CancelContext \/ closeOnDone \/ UserClose
  \/ \E t \in Closers \ {"user"} : CloseEnter(t)
  \/ \E t \in Closers : CloseStep(t)
  \/ TopicNodeReady \/ TopicNodeFails \/ TopicNodeReturnsError
  \/ Shutdown \/ ShutdownTopics \/ ShutdownReturn \/ ShutdownTimeout
  \/ AcceptClosed \/ AcceptFails \/ AcceptGivesUp
  \/ \E c \in Inbound : AcceptConnection(c)
  \/ \E c \in Conns : \/ HandlerStep(c) \/ startPullFails(c) \/ ForwardError(c)
                       \/ ForwardDone(c)
  \/ \E p \in Peers : UserAddPeer(p)

(* Every goroutine runs: the Go scheduler is fair, a dial, a handshake and  *)
(* a pause end by their timers.  Nothing is assumed of the application, the *)
(* network or the caller's contexts.                                        *)
Fairness ==
  /\ WF_vars(StartStep) /\ WF_vars(TopicNodeStep) /\ WF_vars(closeOnDone)
  /\ \A t \in Closers \ {"user"} : WF_vars(CloseEnter(t))
  /\ \A t \in Closers : WF_vars(CloseStep(t))
  /\ WF_vars(ShutdownTopics) /\ WF_vars(ShutdownReturn)
  /\ WF_vars(AcceptClosed \/ AcceptGivesUp)
  /\ \A c \in Conns : WF_vars(HandlerStep(c)) /\ WF_vars(ForwardDone(c))

Spec == Init /\ [][Next]_vars
FairSpec == Spec /\ Fairness
-----------------------------------------------------------------------------
(* Properties *)

(* Every variable has its type; the delay of an outbound loop stays between *)
(* InitialBackoff and MaxBackoff.                                           *)
TypeOK ==
  /\ {ctxDone, mClosed, registered, topicClosed, closed, cancelled, listener,
      listenErr, netFail, sawListener, raced} \subseteq BOOLEAN
  /\ node \in {"none", "starting", "failing", "ok", "err"}
  /\ shut \in {"idle", "close", "topics", "done"}
  /\ shutRet \in {"none", "waiting", "nil", "ctx"}
  /\ start \in {"idle", "register", "check", "listen", "assign", "spawn", "watch",
                "peers", "add", "fail", "ok", "err"}
  /\ todo \subseteq Peers
  /\ watch \in {"none", "run", "close"}
  /\ lopen \in {"none", "open", "closed"}
  /\ acc \in {"none", "accept", "report", "close", "cancel", "done"}
  /\ closer \in [Closers -> {"idle", "cancel", "unregister", "listener", "peers",
                            "wait", "returned"}]
  /\ owner \in Closers \cup {"nobody"}
  /\ toClose \subseteq Conns /\ peers \subseteq Conns /\ outbound \subseteq Peers
  /\ h \in [Conns -> {"none", "check", "dial", "handshake", "submit", "add", "wait",
                     "remove", "pause"}]
  /\ copen \in [Conns -> BOOLEAN] /\ lastErr \in [Conns -> BOOLEAN]
  /\ backoff \in [Peers -> InitialBackoff..MaxBackoff]

(* Nothing of the service runs: no listener, no goroutine the WaitGroup     *)
(* counts, no connection.                                                   *)
Stopped ==
  /\ lopen # "open" /\ ~Accepting /\ peers = {}
  /\ \A c \in Conns : ~Live(c) /\ ~copen[c]

CloseReturned == owner # "nobody" /\ closer[owner] = "returned"

(* Once the Close that did the work has returned, the service is stopped    *)
(* and stays so: no AddPeer, no accepted or dialled connection slips in     *)
(* behind it.  Where Shutdown began during StartNodeToNode only             *)
(* NoPeersAfterClose is left.                                               *)
CloseMeansStopped == CloseReturned /\ ~raced => Stopped

(* Whatever start and Shutdown do at the same time, a service whose Close   *)
(* has returned tracks no connection and runs no outbound loop.             *)
NoPeersAfterClose ==
  CloseReturned => peers = {} /\ \A p \in Peers : ~Live(p)

(* An orderly Close is not reported as a listener failure: the context is   *)
(* cancelled before the listener is closed, so the accept loop tells its    *)
(* own Close from a network error.                                          *)
NoListenErrorOnClose == listenErr => netFail

(* No service slips past Shutdown: when its goroutine is through, a service *)
(* that is still registered has been closed.                                *)
ShutdownLeavesNone == shut = "done" /\ registered => closed

(* An established connection that Close cannot see is already closed.       *)
UntrackedIsClosed == \A c \in Conns : h[c] = "wait" /\ c \notin peers => ~copen[c]

(* Shutdown stops all node-to-node services: after it, every listener,      *)
(* loop and connection ends for good.                                       *)
ShutdownStopsServices == mClosed ~> []Stopped

(* Cancelling the context given to StartNodeToNode stops the service.       *)
CancelStopsService == ctxDone ~> []Stopped

(* A failed listener stops the whole service, which is then no longer       *)
(* registered with the manager.                                             *)
ListenErrorStopsService == listenErr ~> [](Stopped /\ ~registered)

(* Shutdown without a deadline returns. *)
ShutdownReturns == shutRet = "waiting" ~> shutRet # "waiting"

(* An outbound peer is dialled again after every lost connection until the  *)
(* service stops.                                                           *)
Redials == \A p \in Peers : h[p] = "pause" ~> h[p] = "dial" \/ SvcDone

(* NewTopicNode returns a node or an error however the context, the         *)
(* listener and the peers behave: neither StartNodeToNode nor the Shutdown  *)
(* after its failure waits for ever (src/topic_node.go:72-92).              *)
NewTopicNodeReturns == node \in {"starting", "failing"} ~> node \in {"ok", "err"}

(* When NewTopicNode returns an error, everything it has started is shut    *)
(* down (src/topic_node.go:57-58): the topic is closed, the service stopped *)
(* and no longer registered.                                                *)
FailedNodeIsStopped == node = "err" => topicClosed /\ Stopped /\ ~registered
=============================================================================
