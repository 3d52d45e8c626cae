--------------------------- MODULE DiscoveryProofs ---------------------------
(***************************************************************************)
(* The refresh of a topic's ledger peers, for every number of callers and  *)
(* topics, every chain, configuration, topology and list of static peers.  *)
(***************************************************************************)
EXTENDS Discovery, SelectionProofs

-----------------------------------------------------------------------------
(* The inductive invariant, as a predicate of the values of the variables. *)

Snapshotters == {"staked", "relay", "query"}
CallFields == {"pc", "topic", "began", "fetched", "overtaken", "result", "view", "peers"}
PCs == {"idle", "peers", "fetch", "fallback", "unset", "store", "read"}

PoolPeersAt(cfg, ch, s) ==
  LET pools == BuildLedgerPeerPools(SnapshotOf(cfg.provider, ch[s]))
  IN pools.all \o pools.big
HoldingAt(cfg, ch, s) ==
  IF s = 0 THEN newTopicRuntime
  ELSE Beside(NonLedger(newTopicRuntime), addPeers(NewPeerSelector, PoolPeersAt(cfg, ch, s)))

(* What holds of a caller's call: the topic it works on is registered, the  *)
(* snapshot it has fetched is no older than the call, and, until another    *)
(* call overtakes it, the topic holds that snapshot once it is stored.      *)
CallOK(c, cfg, ch, sl, tops, hd) ==
  /\ DOMAIN c = CallFields
  /\ c.pc \in PCs /\ c.overtaken \in BOOLEAN
  /\ c.began \in 0..sl /\ c.fetched \in 0..sl /\ c.view \in 0..sl
  /\ c.pc # "idle" => c.topic \in tops /\ c.result = "none"
  /\ c.pc \in {"store", "read"} =>
       c.began <= c.fetched /\ c.fetched # 0 /\ cfg.provider \in Snapshotters
  /\ c.pc = "read" /\ ~c.overtaken => hd[c.topic] = c.fetched
  /\ c.result = "refreshed" /\ ~c.overtaken => c.began <= c.view
  /\ c.result \in {"configured", "fallback", "refreshed"} =>
       c.peers = Peers(HoldingAt(cfg, ch, c.view))

(* What holds of the registry: a topic's PeerSelector is determined by the  *)
(* slot of the snapshot it holds.                                           *)
RegistryOK(cfg, ch, sl, cl, tops, sel, hd) ==
  /\ cfg \in Configs /\ ch \in Chains /\ sl \in 1..Len(ch)
  /\ cl \in BOOLEAN /\ tops \subseteq Topics
  /\ hd \in [Topics -> 0..sl]
  /\ \A t \in Topics : hd[t] # 0 => t \in tops /\ cfg.provider \in Snapshotters
  /\ DOMAIN sel = Topics
  /\ \A t \in Topics :
       sel[t] = IF t \in tops THEN HoldingAt(cfg, ch, hd[t]) ELSE NewPeerSelector

DiscoveryInv ==
  /\ RegistryOK(config, chain, slot, closed, topics, selector, held)
  /\ DOMAIN call = Callers
  /\ \A p \in Callers : CallOK(call[p], config, chain, slot, topics, held)

-----------------------------------------------------------------------------
(* What a PeerSelector holds *)

LEMMA TopologyPeersTyped ==
  TopologyPeers(Topology) \in Seq(PeerOf({"topology-local-root", "topology-public-root",
                                           "topology-bootstrap"}))
<1> DEFINE S == {"topology-local-root", "topology-public-root", "topology-bootstrap"}
           from(aps, source) == [i \in DOMAIN aps |-> newPeer(aps[i][1], aps[i][2], Base(source, 0, 0))]
<1>1. /\ Topology.localRoots \in Seq(Nat \X Nat) /\ Topology.publicRoots \in Seq(Nat \X Nat)
      /\ Topology.bootstrapPeers \in Seq(Nat \X Nat)
  BY Zenon, DiscoveryAssumption
<1>2. ASSUME NEW aps \in Seq(Nat \X Nat), NEW source \in S PROVE from(aps, source) \in Seq(PeerOf(S))
  <2> HIDE DEF S
  <2> DEFINE f == from(aps, source)
  <2>1. \A a \in Nat \X Nat : a[1] \in Nat /\ a[2] \in Nat
    OBVIOUS
  <2>2. \A i \in DOMAIN aps : aps[i][1] \in Nat /\ aps[i][2] \in Nat
    BY Zenon, <2>1, Elements
  <2>3. 0 \in Nat
    OBVIOUS
  <2>4. \A host \in Nat, port \in Nat : newPeer(host, port, Base(source, 0, 0)) \in PeerOf(S)
    BY Zenon, <2>3 DEF newPeer, Base, PeerOf
  <2>5. f = [i \in DOMAIN aps |-> f[i]] /\ \A i \in DOMAIN aps : f[i] \in PeerOf(S)
    BY Zenon, <2>2, <2>4
  <2> HIDE DEF f
  <2>6. f \in Seq(PeerOf(S))
    BY Zenon, <2>5, MapTyped
  <2> QED
    BY Zenon, <2>6 DEF f
<1>3. TopologyPeers(Topology) = from(Topology.localRoots, "topology-local-root")
                                \o from(Topology.publicRoots, "topology-public-root")
                                \o from(Topology.bootstrapPeers, "topology-bootstrap")
  BY Zenon DEF TopologyPeers
<1>4. /\ "topology-local-root" \in S /\ "topology-public-root" \in S /\ "topology-bootstrap" \in S
  BY Zenon
<1> HIDE DEF from
<1>5. /\ from(Topology.localRoots, "topology-local-root") \in Seq(PeerOf(S))
      /\ from(Topology.publicRoots, "topology-public-root") \in Seq(PeerOf(S))
      /\ from(Topology.bootstrapPeers, "topology-bootstrap") \in Seq(PeerOf(S))
  <2> HIDE DEF S
  <2> QED
    BY Zenon, <1>1, <1>2, <1>4
<1>6. \A s, t \in Seq(PeerOf(S)) : s \o t \in Seq(PeerOf(S))
  <2> HIDE DEF S
  <2> QED
    BY Zenon, ConcatRange
<1> HIDE DEF S
<1> QED
  BY Zenon, <1>3, <1>5, <1>6 DEF S

LEMMA StartFiled == Filed(newTopicRuntime)
<1>1. Filed(NewPeerSelector)
  BY Zenon DEF Filed, NewPeerSelector
<1>2. Filed(addPeers(NewPeerSelector, TopologyPeers(Topology)))
  BY Zenon, <1>1, TopologyPeersTyped, Added
<1>3. StaticPeers \in Seq(PeerOf(Sources))
  BY Zenon, DiscoveryAssumption DEF Peer, PeerOf
<1> QED
  BY Zenon, <1>2, <1>3, Added DEF newTopicRuntime

LEMMA PoolPeersTyped ==
  ASSUME NEW cfg, cfg.provider \in Snapshotters, NEW ch \in Chains, NEW s \in 1..Len(ch)
  PROVE  PoolPeersAt(cfg, ch, s) \in Seq(PeerOf(LedgerSources))
<1> DEFINE ledger == ch[s]
           peers == SnapshotOf(cfg.provider, ledger)
           pools == BuildLedgerPeerPools(peers)
<1>1. ledger \in Ledger
  <2>1. ch \in Seq(Ledger)
    BY Zenon, DiscoveryAssumption
  <2> QED
    BY Zenon, <2>1, Elements
<1>2. peers \in Seq(Entry)
  <2>1. CASE cfg.provider = "staked"
    <3>1. peers = stakedProviderSnapshot(ledger)
      BY Zenon, <2>1 DEF SnapshotOf
    <3> QED
      BY Zenon, <1>1, <3>1, StakedTyped
  <2>2. CASE cfg.provider = "relay"
    <3>1. peers = relayOnlySnapshot(ledger)
      BY Zenon, <2>2 DEF SnapshotOf
    <3> QED
      BY Zenon, <1>1, <3>1, RelayOnlyTyped
  <2>3. CASE cfg.provider = "query"
    <3>1. peers = convertLocalStateQueryLedgerPeerSnapshot(ledger)
      BY Zenon, <2>3 DEF SnapshotOf
    <3> QED
      BY Zenon, <1>1, <3>1, QueryTyped
  <2> QED
    BY Zenon, <2>1, <2>2, <2>3 DEF Snapshotters
<1> HIDE DEF peers, ledger
<1>3. pools.all \in Seq(PeerFrom("ledger")) /\ pools.big \in Seq(PeerFrom("big-ledger"))
  BY Zenon, <1>2, PoolsAre, AllPeersTyped, SortedTyped, BigTyped
<1>4. /\ \A p \in PeerFrom("ledger") : p \in PeerOf(LedgerSources)
      /\ \A p \in PeerFrom("big-ledger") : p \in PeerOf(LedgerSources)
  BY Zenon DEF PeerFrom, PeerOf, LedgerSources
<1> DEFINE a == pools.all
           b == pools.big
           Q == PeerOf(LedgerSources)
<1>5. PoolPeersAt(cfg, ch, s) = a \o b
  BY Zenon DEF PoolPeersAt, peers, ledger
<1>6. a \in Seq(PeerFrom("ledger")) /\ b \in Seq(PeerFrom("big-ledger"))
  BY Zenon, <1>3
<1> HIDE DEF a, b, Q
<1>7. ASSUME NEW P, NEW u \in Seq(P), \A p \in P : p \in Q PROVE u \in Seq(Q)
  <2>1. u = [i \in DOMAIN u |-> u[i]]
    OBVIOUS
  <2>2. \A i \in DOMAIN u : u[i] \in Q
    BY Zenon, <1>7, Elements
  <2> QED
    BY Zenon, <2>1, <2>2, MapTyped
<1>8. a \in Seq(Q) /\ b \in Seq(Q)
  BY Zenon, <1>4, <1>6, <1>7 DEF Q
<1>9. a \o b \in Seq(Q)
  BY Zenon, <1>8, ConcatRange
<1> QED
  BY Zenon, <1>5, <1>9 DEF Q

(* What setPeersForSources keeps, and what it adds. *)
LEMMA NonLedgerIs ==
  ASSUME NEW m, Filed(m)
  PROVE  /\ DOMAIN NonLedger(m) = {k \in DOMAIN m : k[1] \notin LedgerSources}
         /\ \A k \in DOMAIN NonLedger(m) : NonLedger(m)[k] = m[k]
         /\ Filed(NonLedger(m))
         /\ \A peers : setPeersForSources(m, LedgerSources, peers) = addPeers(NonLedger(m), peers)
<1>1. \A k \in DOMAIN m : k[1] = m[k].source
  <2> SUFFICES ASSUME NEW k \in DOMAIN m PROVE k[1] = m[k].source
    BY Zenon
  <2> DEFINE a == m[k].source
             b == m[k].addr
  <2>1. k = <<a, b>>
    BY Zenon DEF Filed
  <2> HIDE DEF a, b
  <2>2. k[1] = a
    BY <2>1
  <2> QED
    BY Zenon, <2>2 DEF a
<1>2. /\ DOMAIN NonLedger(m) = {l \in DOMAIN m : m[l].source \notin LedgerSources}
      /\ \A k \in DOMAIN NonLedger(m) : NonLedger(m)[k] = m[k]
  BY Zenon DEF NonLedger
<1>3. {l \in DOMAIN m : m[l].source \notin LedgerSources}
        = {k \in DOMAIN m : k[1] \notin LedgerSources}
  BY Zenon, <1>1
<1>4. Filed(NonLedger(m))
  BY Zenon, <1>2 DEF Filed
<1>5. \A peers : setPeersForSources(m, LedgerSources, peers) = addPeers(NonLedger(m), peers)
  BY Zenon DEF setPeersForSources, NonLedger
<1> QED
  BY Zenon, <1>2, <1>3, <1>4, <1>5

(* The ledger peers of a snapshot, and the map they make beside the others. *)
LEMMA HoldingIs ==
  ASSUME NEW cfg, NEW ch \in Chains, NEW s \in 1..Len(ch), cfg.provider \in Snapshotters
  PROVE  /\ HoldingAt(cfg, ch, s) = addPeers(NonLedger(newTopicRuntime), PoolPeersAt(cfg, ch, s))
         /\ Filed(HoldingAt(cfg, ch, s))
         /\ NonLedger(HoldingAt(cfg, ch, s)) = NonLedger(newTopicRuntime)
<1> DEFINE R == NonLedger(newTopicRuntime)
           peers == PoolPeersAt(cfg, ch, s)
           A == addPeers(NewPeerSelector, peers)
           H == addPeers(R, peers)
<1>1. peers \in Seq(PeerOf(LedgerSources))
  BY Zenon, PoolPeersTyped
<1>2. /\ DOMAIN R = {k \in DOMAIN newTopicRuntime : k[1] \notin LedgerSources}
      /\ Filed(R)
  BY Zenon, StartFiled, NonLedgerIs
<1>3. \A k \in DOMAIN R : k[1] \notin LedgerSources
  BY Zenon, <1>2
<1>4. HoldingAt(cfg, ch, s) = Beside(R, A)
  <2>1. s # 0
    OBVIOUS
  <2> QED
    BY Zenon, <2>1 DEF HoldingAt
<1>5. R = [k \in DOMAIN R |-> R[k]]
  BY Zenon DEF NonLedger
<1> HIDE DEF R, peers
<1>6. H = Beside(R, A)
  BY Zenon, <1>1, <1>3, AddedApart
<1>7. /\ Filed(H)
      /\ \A k \in DOMAIN H \ DOMAIN R : k[1] \in LedgerSources
      /\ \A k \in DOMAIN R : k \in DOMAIN H /\ (k[1] \notin LedgerSources => H[k] = R[k])
  <2>1. Filed(H)
    BY Zenon, <1>1, <1>2, Added
  <2>2. \A k \in DOMAIN H \ DOMAIN R : k[1] \in LedgerSources
    BY Zenon, <1>1, Added
  <2>3. \A k \in DOMAIN R : k \in DOMAIN H /\ (k[1] \notin LedgerSources => H[k] = R[k])
    <3> DEFINE Q == LedgerSources
    <3>1. peers \in Seq(PeerOf(Q))
      BY Zenon, <1>1
    <3> HIDE DEF Q
    <3>2. \A k \in DOMAIN R : k \in DOMAIN H /\ (k[1] \notin Q => H[k] = R[k])
      BY SMTT(30), <3>1, Added
    <3> QED
      BY Zenon, <3>2 DEF Q
  <2> HIDE DEF H
  <2> QED
    BY Zenon, <2>1, <2>2, <2>3
<1> HIDE DEF H, A
<1>8. NonLedger(H) = R
  <2>1. DOMAIN NonLedger(H) = {k \in DOMAIN H : k[1] \notin LedgerSources}
    BY Zenon, <1>7, NonLedgerIs
  <2>2. {k \in DOMAIN H : k[1] \notin LedgerSources} = DOMAIN R
    BY Zenon, <1>3, <1>7
  <2>3. \A k \in DOMAIN NonLedger(H) : NonLedger(H)[k] = H[k]
    BY Zenon, <1>7, NonLedgerIs
  <2>4. NonLedger(H) = [k \in DOMAIN NonLedger(H) |-> NonLedger(H)[k]]
    BY Zenon DEF NonLedger
  <2>5. \A k \in DOMAIN R : NonLedger(H)[k] = R[k]
    BY Zenon, <1>3, <1>7, <2>1, <2>2, <2>3
  <2> QED
    BY Zenon, <1>5, <2>1, <2>2, <2>4, <2>5
<1>9. HoldingAt(cfg, ch, s) = H
  BY Zenon, <1>4, <1>6
<1>10. H = addPeers(NonLedger(newTopicRuntime), PoolPeersAt(cfg, ch, s))
  BY Zenon DEF H, R, peers
<1> QED
  BY Zenon, <1>7, <1>8, <1>9, <1>10 DEF R

LEMMA Stored ==
  ASSUME NEW cfg, NEW ch \in Chains, cfg.provider \in Snapshotters,
         NEW s \in 0..Len(ch), NEW f \in 1..Len(ch)
  PROVE  setPeersForSources(HoldingAt(cfg, ch, s), LedgerSources, PoolPeersAt(cfg, ch, f))
           = HoldingAt(cfg, ch, f)
<1> DEFINE R == NonLedger(newTopicRuntime)
           H == HoldingAt(cfg, ch, s)
<1>1. Filed(H) /\ NonLedger(H) = R
  <2>1. CASE s = 0
    <3>1. H = newTopicRuntime
      BY Zenon, <2>1 DEF HoldingAt
    <3> QED
      BY Zenon, <3>1, StartFiled
  <2>2. CASE s # 0
    <3>1. s \in 1..Len(ch)
      <4>1. Len(ch) \in Nat
        <5>1. ch \in Seq(Ledger)
          BY Zenon, DiscoveryAssumption
        <5> QED
          BY Zenon, <5>1, Elements
      <4> QED
        BY <2>2, <4>1
    <3> QED
      BY Zenon, <3>1, HoldingIs
  <2> QED
    BY Zenon, <2>1, <2>2
<1>2. HoldingAt(cfg, ch, f) = addPeers(R, PoolPeersAt(cfg, ch, f))
  BY Zenon, HoldingIs
<1>3. \A peers : setPeersForSources(H, LedgerSources, peers) = addPeers(NonLedger(H), peers)
  BY Zenon, <1>1, NonLedgerIs
<1> HIDE DEF R, H
<1>4. setPeersForSources(H, LedgerSources, PoolPeersAt(cfg, ch, f)) = addPeers(R, PoolPeersAt(cfg, ch, f))
  BY Zenon, <1>1, <1>3
<1> QED
  BY Zenon, <1>2, <1>4 DEF H

-----------------------------------------------------------------------------
(* What each step makes of a call *)

(* The slot moves on, topics are added, and what other topics hold changes. *)
LEMMA CallKept ==
  ASSUME NEW c, NEW cfg, NEW ch, NEW sl \in Nat, NEW tops, NEW hd,
         CallOK(c, cfg, ch, sl, tops, hd),
         NEW sl2 \in Nat, sl <= sl2, NEW tops2, tops \subseteq tops2,
         NEW hd2, c.pc # "idle" => hd2[c.topic] = hd[c.topic]
  PROVE  CallOK(c, cfg, ch, sl2, tops2, hd2)
<1>1. \A n \in 0..sl : n \in 0..sl2
  OBVIOUS
<1>2. c.began \in 0..sl2 /\ c.fetched \in 0..sl2 /\ c.view \in 0..sl2
  BY Zenon, <1>1 DEF CallOK
<1>3. c.pc # "idle" => c.topic \in tops2 /\ c.result = "none"
  BY Zenon DEF CallOK
<1>4. c.pc = "read" => c.pc # "idle"
  BY Zenon
<1>5. c.pc = "read" /\ ~c.overtaken => hd2[c.topic] = c.fetched
  BY Zenon, <1>4 DEF CallOK
<1> QED
  BY Zenon, <1>2, <1>3, <1>5 DEF CallOK

LEMMA NoCallIs ==
  /\ DOMAIN NoCall = CallFields /\ NoCall.pc = "idle" /\ NoCall.began = 0 /\ NoCall.fetched = 0
  /\ NoCall.overtaken = FALSE /\ NoCall.result = "none" /\ NoCall.view = 0
  BY Zenon DEF NoCall, CallFields

Answers == {"configured", "fallback", "refreshed"}

LEMMA CallReturned ==
  ASSUME NEW r, r \notin Answers, NEW cfg, NEW ch, NEW sl \in Nat, NEW tops, NEW hd
  PROVE  /\ CallOK(NoCall, cfg, ch, sl, tops, hd)
         /\ CallOK(Returned(r), cfg, ch, sl, tops, hd)
<1>1. 0 \in 0..sl /\ FALSE \in BOOLEAN /\ "idle" \in PCs /\ "idle" \notin {"store", "read"}
  BY DEF PCs
<1>2. "none" \notin Answers /\ "refreshed" \in Answers
  BY Zenon DEF Answers
<1>3. ASSUME NEW c, DOMAIN c = CallFields, c.pc = "idle", c.began = 0, c.fetched = 0, c.view = 0,
             c.overtaken = FALSE, c.result \notin Answers
      PROVE  CallOK(c, cfg, ch, sl, tops, hd)
  <2>1. c.result # "refreshed" /\ c.result \notin {"configured", "fallback", "refreshed"}
    BY Zenon, <1>2, <1>3 DEF Answers
  <2>2. c.pc # "read" /\ c.pc \notin {"store", "read"}
    BY Zenon, <1>1, <1>3
  <2> QED
    BY Zenon, <1>1, <1>3, <2>1, <2>2 DEF CallOK
<1> DEFINE d == Returned(r)
<1>4. /\ DOMAIN d = CallFields /\ d.pc = NoCall.pc /\ d.began = NoCall.began
      /\ d.fetched = NoCall.fetched /\ d.overtaken = NoCall.overtaken /\ d.view = NoCall.view
      /\ d.result = r
  <2> DEFINE c == NoCall
  <2>1. DOMAIN c = CallFields /\ d = [c EXCEPT !.result = r]
    BY Zenon, NoCallIs DEF Returned
  <2> HIDE DEF c, d
  <2>2. /\ DOMAIN d = CallFields /\ d.pc = c.pc /\ d.began = c.began
        /\ d.fetched = c.fetched /\ d.overtaken = c.overtaken /\ d.view = c.view /\ d.result = r
    BY Zenon, <2>1 DEF CallFields
  <2> QED
    BY Zenon, <2>2 DEF c
<1> HIDE DEF d
<1>5. CallOK(d, cfg, ch, sl, tops, hd)
  BY Zenon, <1>3, <1>4, NoCallIs
<1> QED
  BY Zenon, <1>2, <1>3, <1>5, NoCallIs DEF d

LEMMA CallBegun ==
  ASSUME NEW cfg, NEW ch, NEW sl \in Nat, NEW tops, NEW hd, NEW t \in tops,
         NEW x \in {"peers", "fetch", "fallback", "unset"}
  PROVE  CallOK([NoCall EXCEPT !.topic = t, !.began = sl, !.pc = x], cfg, ch, sl, tops, hd)
<1> DEFINE c == NoCall
           d == [c EXCEPT !.topic = t, !.began = sl, !.pc = x]
<1>1. DOMAIN c = CallFields
  BY Zenon, NoCallIs
<1>2. c.fetched = 0 /\ c.overtaken = FALSE /\ c.result = "none" /\ c.view = 0
  BY Zenon, NoCallIs
<1> HIDE DEF c
<1>3. /\ DOMAIN d = CallFields /\ d.topic = t /\ d.began = sl /\ d.pc = x
      /\ d.fetched = c.fetched /\ d.overtaken = c.overtaken /\ d.result = c.result
      /\ d.view = c.view
  BY Zenon, <1>1 DEF CallFields
<1>4. 0 \in 0..sl /\ sl \in 0..sl /\ FALSE \in BOOLEAN
  OBVIOUS
<1>5. x \in PCs /\ x # "read" /\ x \notin {"store", "read"}
  BY DEF PCs
<1>6. "none" # "refreshed" /\ "none" \notin {"configured", "fallback", "refreshed"}
  BY Zenon
<1> HIDE DEF d
<1>7. CallOK(d, cfg, ch, sl, tops, hd)
  BY Zenon, <1>2, <1>3, <1>4, <1>5, <1>6 DEF CallOK
<1> QED
  BY Zenon, <1>7 DEF d, c

LEMMA CallFetched ==
  ASSUME NEW c, NEW cfg, NEW ch, NEW sl \in Nat, sl # 0, NEW tops, NEW hd,
         CallOK(c, cfg, ch, sl, tops, hd), c.pc = "fetch", cfg.provider \in Snapshotters
  PROVE  CallOK([c EXCEPT !.pc = "store", !.fetched = sl], cfg, ch, sl, tops, hd)
<1> DEFINE d == [c EXCEPT !.pc = "store", !.fetched = sl]
<1>1. DOMAIN c = CallFields
  BY Zenon DEF CallOK
<1>2. /\ DOMAIN d = CallFields /\ d.pc = "store" /\ d.fetched = sl /\ d.topic = c.topic
      /\ d.began = c.began /\ d.overtaken = c.overtaken /\ d.result = c.result
      /\ d.view = c.view
  BY Zenon, <1>1 DEF CallFields
<1>3. "store" \in PCs /\ "store" # "read" /\ "fetch" # "idle"
  BY Zenon DEF PCs
<1>4. c.topic \in tops /\ c.result = "none"
  BY Zenon, <1>3 DEF CallOK
<1>5. c.began \in 0..sl /\ c.view \in 0..sl /\ c.overtaken \in BOOLEAN
  BY Zenon DEF CallOK
<1>6. c.began <= sl /\ sl \in 0..sl
  BY <1>5
<1>7. "none" # "refreshed" /\ "none" \notin {"configured", "fallback", "refreshed"}
  BY Zenon
<1> HIDE DEF d
<1>8. CallOK(d, cfg, ch, sl, tops, hd)
  BY Zenon, <1>2, <1>3, <1>4, <1>5, <1>6, <1>7 DEF CallOK
<1> QED
  BY Zenon, <1>8 DEF d

LEMMA CallFallsBack ==
  ASSUME NEW c, NEW cfg, NEW ch, NEW sl \in Nat, NEW tops, NEW hd,
         CallOK(c, cfg, ch, sl, tops, hd), c.pc = "fetch"
  PROVE  CallOK([c EXCEPT !.pc = "fallback"], cfg, ch, sl, tops, hd)
<1> DEFINE d == [c EXCEPT !.pc = "fallback"]
<1>1. DOMAIN c = CallFields
  BY Zenon DEF CallOK
<1>2. /\ DOMAIN d = CallFields /\ d.pc = "fallback" /\ d.fetched = c.fetched /\ d.topic = c.topic
      /\ d.began = c.began /\ d.overtaken = c.overtaken /\ d.result = c.result
      /\ d.view = c.view
  BY Zenon, <1>1 DEF CallFields
<1>3. "fallback" \in PCs /\ "fallback" \notin {"store", "read"} /\ "fallback" # "read" /\ "fetch" # "idle"
  BY Zenon DEF PCs
<1>4. c.topic \in tops /\ c.result = "none"
  BY Zenon, <1>3 DEF CallOK
<1>5. c.began \in 0..sl /\ c.fetched \in 0..sl /\ c.view \in 0..sl /\ c.overtaken \in BOOLEAN
  BY Zenon DEF CallOK
<1>7. "none" # "refreshed" /\ "none" \notin {"configured", "fallback", "refreshed"}
  BY Zenon
<1> HIDE DEF d
<1>8. CallOK(d, cfg, ch, sl, tops, hd)
  BY Zenon, <1>2, <1>3, <1>4, <1>5, <1>7 DEF CallOK
<1> QED
  BY Zenon, <1>8 DEF d

LEMMA CallStores ==
  ASSUME NEW c, NEW cfg, NEW ch, NEW sl \in Nat, NEW tops, NEW hd,
         CallOK(c, cfg, ch, sl, tops, hd), c.pc = "store",
         NEW hd2, hd2[c.topic] = c.fetched
  PROVE  CallOK([c EXCEPT !.pc = "read"], cfg, ch, sl, tops, hd2)
<1> DEFINE d == [c EXCEPT !.pc = "read"]
<1>1. DOMAIN c = CallFields
  BY Zenon DEF CallOK
<1>2. /\ DOMAIN d = CallFields /\ d.pc = "read" /\ d.fetched = c.fetched /\ d.topic = c.topic
      /\ d.began = c.began /\ d.overtaken = c.overtaken /\ d.result = c.result
      /\ d.view = c.view
  BY Zenon, <1>1 DEF CallFields
<1>3. "read" \in PCs /\ "store" \in {"store", "read"} /\ "store" # "idle"
  BY Zenon DEF PCs
<1>4. c.topic \in tops /\ c.result = "none"
  BY Zenon, <1>3 DEF CallOK
<1>5. c.began \in 0..sl /\ c.fetched \in 0..sl /\ c.view \in 0..sl /\ c.overtaken \in BOOLEAN
  BY Zenon DEF CallOK
<1>6. c.began <= c.fetched /\ c.fetched # 0 /\ cfg.provider \in Snapshotters
  BY Zenon, <1>3 DEF CallOK
<1>7. "none" # "refreshed" /\ "none" \notin {"configured", "fallback", "refreshed"}
  BY Zenon
<1> HIDE DEF d
<1>8. CallOK(d, cfg, ch, sl, tops, hd2)
  BY Zenon, <1>2, <1>3, <1>4, <1>5, <1>6, <1>7 DEF CallOK
<1> QED
  BY Zenon, <1>8 DEF d

(* Another call stores its snapshot for topic t. *)
Overtaken(c, t) ==
  [c EXCEPT !.overtaken = @ \/ (c.pc \in {"store", "read"} /\ c.topic = t)]

LEMMA CallOvertaken ==
  ASSUME NEW c, NEW cfg, NEW ch, NEW sl \in Nat, NEW tops, NEW hd,
         CallOK(c, cfg, ch, sl, tops, hd), NEW t, NEW hd2, \A u \in tops : u # t => hd2[u] = hd[u]
  PROVE  CallOK(Overtaken(c, t), cfg, ch, sl, tops, hd2)
<1> DEFINE o == c.overtaken \/ (c.pc \in {"store", "read"} /\ c.topic = t)
           d == [c EXCEPT !.overtaken = o]
<1>1. DOMAIN c = CallFields /\ c.overtaken \in BOOLEAN
  BY Zenon DEF CallOK
<1>2. o \in BOOLEAN /\ (c.overtaken => o) /\ (~o /\ c.pc = "read" => c.topic # t)
  BY Zenon, <1>1
<1>3. d = Overtaken(c, t)
  BY Zenon DEF Overtaken
<1> HIDE DEF o
<1>4. /\ DOMAIN d = CallFields /\ d.pc = c.pc /\ d.fetched = c.fetched /\ d.topic = c.topic
      /\ d.began = c.began /\ d.overtaken = o /\ d.result = c.result
      /\ d.view = c.view /\ d.peers = c.peers
  BY Zenon, <1>1 DEF CallFields
<1> HIDE DEF d
<1>5. d.pc = "read" /\ ~d.overtaken => hd2[d.topic] = d.fetched
  <2> SUFFICES ASSUME d.pc = "read", ~d.overtaken PROVE hd2[d.topic] = d.fetched
    BY Zenon
  <2>1. c.pc = "read" /\ ~o /\ ~c.overtaken /\ c.topic # t /\ c.pc # "idle"
    BY Zenon, <1>2, <1>4
  <2>2. c.topic \in tops /\ hd[c.topic] = c.fetched
    BY Zenon, <2>1 DEF CallOK
  <2> QED
    BY Zenon, <1>4, <2>1, <2>2
<1>6. d.result = "refreshed" /\ ~d.overtaken => d.began <= d.view
  BY Zenon, <1>2, <1>4 DEF CallOK
<1>7. CallOK(d, cfg, ch, sl, tops, hd2)
  BY Zenon, <1>2, <1>4, <1>5, <1>6 DEF CallOK
<1> QED
  BY Zenon, <1>3, <1>7

LEMMA CallReads ==
  ASSUME NEW c, NEW cfg, NEW ch, NEW sl \in Nat, NEW tops, NEW hd,
         CallOK(c, cfg, ch, sl, tops, hd), c.pc \in {"peers", "fallback", "read"},
         hd[c.topic] \in 0..sl, NEW sel, sel = HoldingAt(cfg, ch, hd[c.topic])
  PROVE  CallOK([c EXCEPT !.pc = "idle", !.view = hd[c.topic], !.peers = Peers(sel),
                          !.result = [peers |-> "configured", fallback |-> "fallback",
                                      read |-> "refreshed"][c.pc]],
                cfg, ch, sl, tops, hd)
<1> DEFINE v == hd[c.topic]
           ps == Peers(sel)
           r == [peers |-> "configured", fallback |-> "fallback", read |-> "refreshed"][c.pc]
           d == [c EXCEPT !.pc = "idle", !.view = v, !.peers = ps, !.result = r]
<1>1. DOMAIN c = CallFields /\ c.overtaken \in BOOLEAN
  BY Zenon DEF CallOK
<1>2. r = "refreshed" => c.pc = "read"
  <2> DEFINE g == [peers |-> "configured", fallback |-> "fallback", read |-> "refreshed"]
  <2>1. g["peers"] = "configured" /\ g["fallback"] = "fallback"
    BY Zenon
  <2>2. r = g[c.pc]
    BY Zenon
  <2> HIDE DEF g, r
  <2> QED
    BY Zenon, <2>1, <2>2
<1>3. v \in 0..sl /\ ps = Peers(HoldingAt(cfg, ch, v))
  BY Zenon
<1>4. c.began \in 0..sl /\ c.fetched \in 0..sl
  BY Zenon DEF CallOK
<1>5. c.pc = "read" /\ ~c.overtaken => c.began <= v
  <2>1. "read" \in {"store", "read"}
    BY Zenon
  <2> QED
    BY Zenon, <2>1 DEF CallOK
<1> HIDE DEF v, ps, r
<1>6. /\ DOMAIN d = CallFields /\ d.pc = "idle" /\ d.fetched = c.fetched /\ d.topic = c.topic
      /\ d.began = c.began /\ d.overtaken = c.overtaken /\ d.result = r
      /\ d.view = v /\ d.peers = ps
  BY Zenon, <1>1 DEF CallFields
<1> HIDE DEF d
<1>7. "idle" \in PCs /\ "idle" \notin {"store", "read"} /\ "idle" # "read"
  BY Zenon DEF PCs
<1>8. CallOK(d, cfg, ch, sl, tops, hd)
  BY Zenon, <1>1, <1>2, <1>3, <1>4, <1>5, <1>6, <1>7 DEF CallOK
<1> QED
  BY Zenon, <1>8 DEF d, v, ps, r

-----------------------------------------------------------------------------
(* The invariant *)

LEMMA DiscoveryInitially == Init => DiscoveryInv
<1> SUFFICES ASSUME Init PROVE DiscoveryInv
  BY Zenon
<1>1. /\ config \in Configs /\ chain \in Chains /\ slot = 1 /\ closed = FALSE /\ topics = {}
      /\ selector = [t \in Topics |-> NewPeerSelector] /\ held = [t \in Topics |-> 0]
      /\ call = [p \in Callers |-> NoCall]
  BY Zenon DEF Init
<1>2. slot \in 1..Len(chain) /\ slot \in Nat /\ 0 \in 0..slot /\ closed \in BOOLEAN
  <2>1. chain \in Seq(Ledger) /\ chain # <<>>
    BY Zenon, <1>1, DiscoveryAssumption
  <2>2. Len(chain) \in Nat /\ Len(chain) # 0
    BY <2>1
  <2>3. closed \in BOOLEAN /\ slot = 1
    BY Zenon, <1>1
  <2>4. slot \in 1..Len(chain) /\ slot \in Nat /\ 0 \in 0..slot
    BY <2>2, <2>3
  <2> QED
    BY Zenon, <2>3, <2>4
<1>3. held \in [Topics -> 0..slot] /\ \A t \in Topics : held[t] = 0
  BY Zenon, <1>1, <1>2
<1>4. DOMAIN selector = Topics /\ \A t \in Topics : selector[t] = NewPeerSelector
  BY Zenon, <1>1
<1>5. topics \subseteq Topics /\ \A t \in Topics : t \notin topics
  BY Zenon, <1>1
<1>6. RegistryOK(config, chain, slot, closed, topics, selector, held)
  BY Zenon, <1>1, <1>2, <1>3, <1>4, <1>5 DEF RegistryOK
<1>7. DOMAIN call = Callers /\ \A p \in Callers : call[p] = NoCall
  BY Zenon, <1>1
<1>8. CallOK(NoCall, config, chain, slot, topics, held)
  <2>1. "none" \notin Answers
    BY Zenon DEF Answers
  <2> QED
    BY Zenon, <1>2, <2>1, CallReturned
<1> QED
  BY Zenon, <1>6, <1>7, <1>8 DEF DiscoveryInv

(* A step that changes one call and nothing else. *)
LEMMA OneCallChanges ==
  ASSUME DiscoveryInv, UNCHANGED <<config, chain, slot, closed, topics, selector, held>>,
         NEW p \in Callers, NEW d, call' = [call EXCEPT ![p] = d],
         CallOK(d, config, chain, slot, topics, held)
  PROVE  DiscoveryInv'
<1>1. /\ config' = config /\ chain' = chain /\ slot' = slot /\ closed' = closed
      /\ topics' = topics /\ selector' = selector /\ held' = held
  BY Zenon
<1>2. RegistryOK(config', chain', slot', closed', topics', selector', held')
  BY Zenon, <1>1 DEF DiscoveryInv
<1>3. DOMAIN call' = Callers /\ \A q \in Callers : call'[q] = IF q = p THEN d ELSE call[q]
  BY Zenon DEF DiscoveryInv
<1>4. \A q \in Callers : CallOK(call'[q], config, chain, slot, topics, held)
  BY Zenon, <1>3 DEF DiscoveryInv
<1>5. \A q \in Callers : CallOK(call'[q], config', chain', slot', topics', held')
  BY Zenon, <1>1, <1>4
<1> QED
  BY Zenon, <1>2, <1>3, <1>5 DEF DiscoveryInv

LEMMA RegistryTypes ==
  ASSUME DiscoveryInv
  PROVE  /\ chain \in Seq(Ledger) /\ Len(chain) \in Nat /\ slot \in Nat /\ slot # 0
         /\ slot <= Len(chain) /\ topics \subseteq Topics
         /\ config.provider \in Providers /\ closed \in BOOLEAN
<1>1. chain \in Chains /\ slot \in 1..Len(chain) /\ topics \subseteq Topics /\ config \in Configs
  BY Zenon DEF DiscoveryInv, RegistryOK
<1>2. chain \in Seq(Ledger) /\ config \in ConfigRecord
  BY Zenon, <1>1, DiscoveryAssumption
<1>3. Len(chain) \in Nat
  BY Zenon, <1>2, Elements
<1>4. slot \in Nat /\ slot # 0 /\ slot <= Len(chain)
  BY <1>1, <1>3
<1>5. config.provider \in Providers
  BY Zenon, <1>2 DEF ConfigRecord
<1> QED
  BY Zenon, <1>1, <1>2, <1>3, <1>4, <1>5 DEF DiscoveryInv, RegistryOK

LEMMA AdvanceChainKeeps == DiscoveryInv /\ AdvanceChain => DiscoveryInv'
<1> SUFFICES ASSUME DiscoveryInv, AdvanceChain PROVE DiscoveryInv'
  BY Zenon
<1>1. /\ config' = config /\ chain' = chain /\ closed' = closed /\ topics' = topics
      /\ selector' = selector /\ held' = held /\ call' = call
      /\ slot < Len(chain) /\ slot' = slot + 1
  BY Zenon DEF AdvanceChain
<1>2. slot \in Nat /\ Len(chain) \in Nat
  BY Zenon, RegistryTypes
<1>3. slot' \in Nat /\ slot' \in 1..Len(chain) /\ slot <= slot'
  BY <1>1, <1>2
<1>4. 0..slot \subseteq 0..slot'
  BY <1>2, <1>3
<1>5. held \in [Topics -> 0..slot']
  <2>1. held \in [Topics -> 0..slot]
    BY Zenon DEF DiscoveryInv, RegistryOK
  <2> QED
    BY Zenon, <1>4, <2>1
<1>6. RegistryOK(config, chain, slot', closed, topics, selector, held)
  BY Zenon, <1>3, <1>5 DEF DiscoveryInv, RegistryOK
<1>7. \A p \in Callers : CallOK(call[p], config, chain, slot', topics, held)
  <2> SUFFICES ASSUME NEW p \in Callers PROVE CallOK(call[p], config, chain, slot', topics, held)
    BY Zenon
  <2>1. CallOK(call[p], config, chain, slot, topics, held)
    BY Zenon DEF DiscoveryInv
  <2>2. topics \subseteq topics
    BY Zenon
  <2> QED
    BY Zenon, <1>2, <1>3, <2>1, <2>2, CallKept
<1>8. RegistryOK(config', chain', slot', closed', topics', selector', held')
  BY Zenon, <1>1, <1>6
<1>9. \A p \in Callers : CallOK(call'[p], config', chain', slot', topics', held')
  BY Zenon, <1>1, <1>7
<1> QED
  BY Zenon, <1>1, <1>8, <1>9 DEF DiscoveryInv

LEMMA ShutdownKeeps == DiscoveryInv /\ Shutdown => DiscoveryInv'
<1> SUFFICES ASSUME DiscoveryInv, Shutdown PROVE DiscoveryInv'
  BY Zenon
<1>1. /\ config' = config /\ chain' = chain /\ slot' = slot /\ topics' = topics
      /\ selector' = selector /\ held' = held /\ call' = call /\ closed' = TRUE
  BY Zenon DEF Shutdown
<1>2. closed' \in BOOLEAN
  BY Zenon, <1>1
<1>3. RegistryOK(config, chain, slot, closed', topics, selector, held)
  BY Zenon, <1>2 DEF DiscoveryInv, RegistryOK
<1>4. RegistryOK(config', chain', slot', closed', topics', selector', held')
  BY Zenon, <1>1, <1>3
<1>5. \A p \in Callers : CallOK(call'[p], config', chain', slot', topics', held')
  BY Zenon, <1>1 DEF DiscoveryInv
<1> QED
  BY Zenon, <1>1, <1>4, <1>5 DEF DiscoveryInv

LEMMA RegisterTopicKeeps ==
  ASSUME DiscoveryInv, NEW t \in Topics, RegisterTopic(t) PROVE DiscoveryInv'
<1>1. /\ config' = config /\ chain' = chain /\ slot' = slot /\ closed' = closed /\ call' = call
  BY Zenon DEF RegisterTopic
<1>2. CASE RegisterResult(t) # "registered"
  <2>1. topics' = topics /\ selector' = selector /\ held' = held
    BY Zenon, <1>2 DEF RegisterTopic
  <2>2. RegistryOK(config', chain', slot', closed', topics', selector', held')
    BY Zenon, <1>1, <2>1 DEF DiscoveryInv
  <2>3. \A p \in Callers : CallOK(call'[p], config', chain', slot', topics', held')
    BY Zenon, <1>1, <2>1 DEF DiscoveryInv
  <2> QED
    BY Zenon, <1>1, <2>2, <2>3 DEF DiscoveryInv
<1>3. CASE RegisterResult(t) = "registered"
  <2>1. /\ topics' = topics \cup {t} /\ selector' = [selector EXCEPT ![t] = newTopicRuntime]
        /\ held' = [held EXCEPT ![t] = 0]
    BY Zenon, <1>3 DEF RegisterTopic
  <2>2. t \notin topics
    BY Zenon, <1>3 DEF RegisterResult
  <2>3. /\ held \in [Topics -> 0..slot] /\ DOMAIN selector = Topics /\ topics \subseteq Topics
        /\ \A u \in Topics : held[u] # 0 => u \in topics /\ config.provider \in Snapshotters
        /\ \A u \in Topics :
             selector[u] = IF u \in topics THEN HoldingAt(config, chain, held[u])
                           ELSE NewPeerSelector
    BY Zenon DEF DiscoveryInv, RegistryOK
  <2>4. slot \in Nat
    BY Zenon, RegistryTypes
  <2>5. 0 \in 0..slot
    BY <2>4
  <2>6. /\ held' \in [Topics -> 0..slot] /\ held'[t] = 0
        /\ \A u \in Topics : u # t => held'[u] = held[u]
    BY Zenon, <2>1, <2>3, <2>5
  <2>7. /\ DOMAIN selector' = Topics /\ selector'[t] = newTopicRuntime
        /\ \A u \in Topics : u # t => selector'[u] = selector[u]
    BY Zenon, <2>1, <2>3
  <2>8. /\ topics' \subseteq Topics /\ t \in topics' /\ topics \subseteq topics'
        /\ \A u \in Topics : u # t => (u \in topics' <=> u \in topics)
    BY Zenon, <2>1, <2>3
  <2>9. HoldingAt(config, chain, held'[t]) = newTopicRuntime
    BY Zenon, <2>6 DEF HoldingAt
  <2>10. \A u \in Topics : selector'[u] = IF u \in topics' THEN HoldingAt(config, chain, held'[u])
                                          ELSE NewPeerSelector
    <3> SUFFICES ASSUME NEW u \in Topics
                 PROVE  selector'[u] = IF u \in topics' THEN HoldingAt(config, chain, held'[u])
                                       ELSE NewPeerSelector
      BY Zenon
    <3>1. CASE u = t
      BY Zenon, <2>7, <2>8, <2>9, <3>1
    <3>2. CASE u # t
      BY Zenon, <2>3, <2>6, <2>7, <2>8, <3>2
    <3> QED
      BY Zenon, <3>1, <3>2
  <2>11. \A u \in Topics : held'[u] # 0 => u \in topics' /\ config.provider \in Snapshotters
    BY Zenon, <2>3, <2>6, <2>8
  <2>12. RegistryOK(config, chain, slot, closed, topics', selector', held')
    BY Zenon, <2>6, <2>7, <2>8, <2>10, <2>11 DEF DiscoveryInv, RegistryOK
  <2>13. \A p \in Callers : CallOK(call[p], config, chain, slot, topics', held')
    <3> SUFFICES ASSUME NEW p \in Callers PROVE CallOK(call[p], config, chain, slot, topics', held')
      BY Zenon
    <3>1. CallOK(call[p], config, chain, slot, topics, held)
      BY Zenon DEF DiscoveryInv
    <3>2. call[p].pc # "idle" => held'[call[p].topic] = held[call[p].topic]
      <4>1. call[p].pc # "idle" => call[p].topic \in topics
        BY Zenon, <3>1 DEF CallOK
      <4> QED
        BY Zenon, <2>2, <2>3, <2>6, <4>1
    <3>3. slot <= slot
      BY <2>4
    <3> QED
      BY Zenon, <2>4, <2>8, <3>1, <3>2, <3>3, CallKept
  <2>14. RegistryOK(config', chain', slot', closed', topics', selector', held')
    BY Zenon, <1>1, <2>12
  <2>15. \A p \in Callers : CallOK(call'[p], config', chain', slot', topics', held')
    BY Zenon, <1>1, <2>13
  <2> QED
    BY Zenon, <1>1, <2>14, <2>15 DEF DiscoveryInv
<1> QED
  BY Zenon, <1>2, <1>3

LEMMA TopicPeersKeeps ==
  ASSUME DiscoveryInv, NEW p \in Callers, NEW t \in Topics, TopicPeers(p, t)
  PROVE  DiscoveryInv'
<1> DEFINE begun == [NoCall EXCEPT !.topic = t, !.began = slot, !.pc = discoverPeers]
<1>1. /\ UNCHANGED <<config, chain, slot, closed, topics, selector, held>>
      /\ call' = [call EXCEPT ![p] = IF topic(t) = "found" THEN begun ELSE Returned(topic(t))]
  BY Zenon DEF TopicPeers
<1>2. slot \in Nat
  BY Zenon, RegistryTypes
<1>3. CASE topic(t) = "found"
  <2>1. t \in topics
    BY Zenon, <1>3 DEF topic
  <2>2. discoverPeers \in {"peers", "fetch", "fallback", "unset"}
    BY Zenon DEF discoverPeers
  <2>3. CallOK(begun, config, chain, slot, topics, held)
    BY Zenon, <1>2, <2>1, <2>2, CallBegun
  <2>4. call' = [call EXCEPT ![p] = begun]
    BY Zenon, <1>1, <1>3
  <2> HIDE DEF begun
  <2> QED
    BY Zenon, <1>1, <2>3, <2>4, OneCallChanges
<1>4. CASE topic(t) # "found"
  <2> DEFINE d == Returned(topic(t))
  <2>1. topic(t) \notin Answers
    BY Zenon, <1>4 DEF topic, Answers
  <2>2. CallOK(d, config, chain, slot, topics, held)
    BY Zenon, <1>2, <2>1, CallReturned
  <2>3. call' = [call EXCEPT ![p] = d]
    BY Zenon, <1>1, <1>4
  <2> HIDE DEF d
  <2> QED
    BY Zenon, <1>1, <2>2, <2>3, OneCallChanges
<1> QED
  BY Zenon, <1>3, <1>4

LEMMA FetchKeeps ==
  ASSUME DiscoveryInv, NEW p \in Callers,
         FetchSnapshot(p) \/ FetchUnsupported(p) \/ FetchFails(p)
  PROVE  DiscoveryInv'
<1>1. UNCHANGED <<config, chain, slot, closed, topics, selector, held>>
  BY Zenon DEF FetchSnapshot, FetchUnsupported, FetchFails
<1>2. /\ CallOK(call[p], config, chain, slot, topics, held) /\ DOMAIN call = Callers
      /\ DOMAIN call[p] = CallFields
  BY Zenon DEF DiscoveryInv, CallOK
<1>3. slot \in Nat /\ slot # 0
  BY Zenon, RegistryTypes
<1>4. \A r : r \notin Answers => CallOK(Returned(r), config, chain, slot, topics, held)
  BY Zenon, <1>3, CallReturned
<1>5. /\ "unsupported" \notin Answers /\ "provider_unset" \notin Answers /\ "error" \notin Answers
  BY Zenon DEF Answers
<1>6. CASE FetchSnapshot(p)
  <2> DEFINE d == [call[p] EXCEPT !.pc = "store", !.fetched = slot]
  <2>1. call[p].pc = "fetch" /\ config.provider \in Snapshotters
    BY Zenon, <1>6 DEF FetchSnapshot, Snapshotters
  <2>2. CallOK(d, config, chain, slot, topics, held)
    BY Zenon, <1>2, <1>3, <2>1, CallFetched
  <2>3. call' = [call EXCEPT ![p] = d]
    BY Zenon, <1>2, <1>6 DEF FetchSnapshot, CallFields
  <2> HIDE DEF d
  <2> QED
    BY Zenon, <1>1, <2>2, <2>3, OneCallChanges
<1>7. CASE FetchUnsupported(p)
  <2>1. call[p].pc = "fetch"
    BY Zenon, <1>7 DEF FetchUnsupported
  <2> DEFINE d == [call[p] EXCEPT !.pc = "fallback"]
             e == Returned("unsupported")
  <2>2. CallOK(d, config, chain, slot, topics, held) /\ CallOK(e, config, chain, slot, topics, held)
    BY Zenon, <1>2, <1>3, <1>4, <1>5, <2>1, CallFallsBack
  <2>3. call' = [call EXCEPT ![p] = d] \/ call' = [call EXCEPT ![p] = e]
    BY Zenon, <1>2, <1>7 DEF FetchUnsupported
  <2> HIDE DEF d, e
  <2> QED
    BY Zenon, <1>1, <2>2, <2>3, OneCallChanges
<1>8. CASE FetchFails(p)
  <2> DEFINE d == Returned("provider_unset")
             e == Returned("error")
  <2>2. CallOK(d, config, chain, slot, topics, held) /\ CallOK(e, config, chain, slot, topics, held)
    BY Zenon, <1>4, <1>5
  <2>3. call' = [call EXCEPT ![p] = d] \/ call' = [call EXCEPT ![p] = e]
    BY Zenon, <1>2, <1>8 DEF FetchFails
  <2> HIDE DEF d, e
  <2> QED
    BY Zenon, <1>1, <2>2, <2>3, OneCallChanges
<1> QED
  BY Zenon, <1>6, <1>7, <1>8

LEMMA StoreSnapshotKeeps ==
  ASSUME DiscoveryInv, NEW p \in Callers, StoreSnapshot(p) PROVE DiscoveryInv'
<1> DEFINE c == call[p]
           t == c.topic
           f == c.fetched
<1>1. /\ config' = config /\ chain' = chain /\ slot' = slot /\ closed' = closed /\ topics' = topics
      /\ c.pc = "store"
      /\ selector' = [selector EXCEPT ![t] = setPeersForSources(@, LedgerSources, PoolPeers(f))]
      /\ held' = [held EXCEPT ![t] = f]
      /\ call' = [q \in Callers |-> IF q = p THEN [c EXCEPT !.pc = "read"]
                                    ELSE Overtaken(call[q], t)]
  BY Zenon DEF StoreSnapshot, Overtaken
<1>2. CallOK(c, config, chain, slot, topics, held)
  BY Zenon DEF DiscoveryInv
<1>3. t \in topics /\ f \in 0..slot /\ f # 0 /\ config.provider \in Snapshotters
  <2>1. "store" # "idle" /\ "store" \in {"store", "read"}
    BY Zenon
  <2> QED
    BY Zenon, <1>1, <1>2, <2>1 DEF CallOK
<1>4. /\ held \in [Topics -> 0..slot] /\ DOMAIN selector = Topics /\ topics \subseteq Topics
      /\ chain \in Chains
      /\ \A u \in Topics : held[u] # 0 => u \in topics /\ config.provider \in Snapshotters
      /\ \A u \in Topics :
           selector[u] = IF u \in topics THEN HoldingAt(config, chain, held[u])
                         ELSE NewPeerSelector
  BY Zenon DEF DiscoveryInv, RegistryOK
<1>5. slot \in Nat /\ Len(chain) \in Nat /\ slot <= Len(chain)
  BY Zenon, RegistryTypes
<1> HIDE DEF c, t, f
<1>6. t \in Topics /\ held[t] \in 0..slot
  BY Zenon, <1>3, <1>4
<1>7. f \in 1..Len(chain) /\ held[t] \in 0..Len(chain)
  BY <1>3, <1>5, <1>6
<1>8. PoolPeers(f) = PoolPeersAt(config, chain, f)
  BY Zenon DEF PoolPeers, PoolPeersAt
<1>9. /\ held' \in [Topics -> 0..slot] /\ held'[t] = f
      /\ \A u \in Topics : u # t => held'[u] = held[u]
  BY Zenon, <1>1, <1>3, <1>4, <1>6
<1>10. /\ DOMAIN selector' = Topics
       /\ selector'[t] = setPeersForSources(selector[t], LedgerSources, PoolPeers(f))
       /\ \A u \in Topics : u # t => selector'[u] = selector[u]
  BY Zenon, <1>1, <1>4, <1>6
<1>11. selector'[t] = HoldingAt(config, chain, f)
  <2>1. selector[t] = HoldingAt(config, chain, held[t])
    BY Zenon, <1>3, <1>4, <1>6
  <2>2. setPeersForSources(HoldingAt(config, chain, held[t]), LedgerSources,
                           PoolPeersAt(config, chain, f)) = HoldingAt(config, chain, f)
    BY Zenon, <1>3, <1>4, <1>7, Stored
  <2> QED
    BY Zenon, <1>8, <1>10, <2>1, <2>2
<1>12. \A u \in Topics : selector'[u] = IF u \in topics THEN HoldingAt(config, chain, held'[u])
                                        ELSE NewPeerSelector
  <2> SUFFICES ASSUME NEW u \in Topics
               PROVE  selector'[u] = IF u \in topics THEN HoldingAt(config, chain, held'[u])
                                     ELSE NewPeerSelector
    BY Zenon
  <2>1. CASE u = t
    BY Zenon, <1>3, <1>9, <1>11, <2>1
  <2>2. CASE u # t
    BY Zenon, <1>4, <1>9, <1>10, <2>2
  <2> QED
    BY Zenon, <2>1, <2>2
<1>13. \A u \in Topics : held'[u] # 0 => u \in topics /\ config.provider \in Snapshotters
  BY Zenon, <1>3, <1>4, <1>9
<1>14. RegistryOK(config, chain, slot, closed, topics, selector', held')
  BY Zenon, <1>9, <1>10, <1>12, <1>13 DEF DiscoveryInv, RegistryOK
<1>15. RegistryOK(config', chain', slot', closed', topics', selector', held')
  BY Zenon, <1>1, <1>14
<1>16. CallOK([c EXCEPT !.pc = "read"], config, chain, slot, topics, held')
  BY Zenon, <1>1, <1>2, <1>5, <1>9, CallStores DEF t, f
<1>17. \A q \in Callers : CallOK(Overtaken(call[q], t), config, chain, slot, topics, held')
  <2> SUFFICES ASSUME NEW q \in Callers
               PROVE  CallOK(Overtaken(call[q], t), config, chain, slot, topics, held')
    BY Zenon
  <2>1. CallOK(call[q], config, chain, slot, topics, held)
    BY Zenon DEF DiscoveryInv
  <2>2. \A u \in topics : u # t => held'[u] = held[u]
    BY Zenon, <1>4, <1>9
  <2> QED
    BY Zenon, <1>5, <2>1, <2>2, CallOvertaken
<1>18. DOMAIN call' = Callers /\ \A q \in Callers : CallOK(call'[q], config, chain, slot, topics, held')
  <2>1. /\ DOMAIN call' = Callers
        /\ \A q \in Callers : call'[q] = IF q = p THEN [c EXCEPT !.pc = "read"] ELSE Overtaken(call[q], t)
    BY Zenon, <1>1
  <2> QED
    BY Zenon, <1>16, <1>17, <2>1
<1>19. \A q \in Callers : CallOK(call'[q], config', chain', slot', topics', held')
  BY Zenon, <1>1, <1>18
<1> QED
  BY Zenon, <1>15, <1>18, <1>19 DEF DiscoveryInv

LEMMA ReadPeersKeeps ==
  ASSUME DiscoveryInv, NEW p \in Callers, ReadPeers(p) PROVE DiscoveryInv'
<1> DEFINE c == call[p]
           d == [c EXCEPT !.pc = "idle", !.view = held[c.topic], !.peers = Peers(selector[c.topic]),
                          !.result = [peers |-> "configured", fallback |-> "fallback",
                                      read |-> "refreshed"][c.pc]]
<1>1. /\ UNCHANGED <<config, chain, slot, closed, topics, selector, held>>
      /\ c.pc \in {"peers", "fallback", "read"} /\ call' = [call EXCEPT ![p] = d]
  BY Zenon DEF ReadPeers
<1>2. CallOK(c, config, chain, slot, topics, held)
  BY Zenon DEF DiscoveryInv
<1>3. c.topic \in topics
  <2>1. c.pc # "idle"
    BY Zenon, <1>1
  <2> QED
    BY Zenon, <1>2, <2>1 DEF CallOK
<1>4. /\ held \in [Topics -> 0..slot] /\ topics \subseteq Topics
      /\ \A u \in Topics :
           selector[u] = IF u \in topics THEN HoldingAt(config, chain, held[u])
                         ELSE NewPeerSelector
  BY Zenon DEF DiscoveryInv, RegistryOK
<1>5. slot \in Nat
  BY Zenon, RegistryTypes
<1>6. held[c.topic] \in 0..slot /\ selector[c.topic] = HoldingAt(config, chain, held[c.topic])
  BY Zenon, <1>3, <1>4
<1>7. CallOK(d, config, chain, slot, topics, held)
  <2> HIDE DEF c
  <2> QED
    BY Zenon, <1>1, <1>2, <1>5, <1>6, CallReads
<1> HIDE DEF d
<1> QED
  BY Zenon, <1>1, <1>7, OneCallChanges

LEMMA DiscoveryStep == DiscoveryInv /\ [Next]_vars => DiscoveryInv'
<1> SUFFICES ASSUME DiscoveryInv, [Next]_vars PROVE DiscoveryInv'
  BY Zenon
<1>1. CASE UNCHANGED vars
  <2>1. /\ config' = config /\ chain' = chain /\ slot' = slot /\ closed' = closed
        /\ topics' = topics /\ selector' = selector /\ held' = held /\ call' = call
    BY Zenon, <1>1 DEF vars
  <2> QED
    BY Zenon, <2>1 DEF DiscoveryInv
<1>2. CASE AdvanceChain
  BY Zenon, <1>2, AdvanceChainKeeps
<1>3. CASE Shutdown
  BY Zenon, <1>3, ShutdownKeeps
<1>4. ASSUME NEW t \in Topics, RegisterTopic(t) PROVE DiscoveryInv'
  BY Zenon, <1>4, RegisterTopicKeeps
<1>5. ASSUME NEW p \in Callers, NEW t \in Topics, TopicPeers(p, t) PROVE DiscoveryInv'
  BY Zenon, <1>5, TopicPeersKeeps
<1>6. ASSUME NEW p \in Callers, FetchSnapshot(p) \/ FetchUnsupported(p) \/ FetchFails(p)
      PROVE  DiscoveryInv'
  BY Zenon, <1>6, FetchKeeps
<1>7. ASSUME NEW p \in Callers, StoreSnapshot(p) PROVE DiscoveryInv'
  BY Zenon, <1>7, StoreSnapshotKeeps
<1>8. ASSUME NEW p \in Callers, ReadPeers(p) PROVE DiscoveryInv'
  BY Zenon, <1>8, ReadPeersKeeps
<1> QED
  BY Zenon, <1>1, <1>2, <1>3, <1>4, <1>5, <1>6, <1>7, <1>8 DEF Next

(* Every reachable state satisfies the invariant: a registered topic holds  *)
(* exactly what the slot of its snapshot says, and every call is in step.   *)
THEOREM DiscoveryInvariant == Spec => []DiscoveryInv
  BY DiscoveryInitially, DiscoveryStep, PTL DEF Spec

-----------------------------------------------------------------------------
(* What follows *)

LEMMA HoldingFiled ==
  ASSUME DiscoveryInv, NEW t \in Topics PROVE Filed(selector[t])
<1>1. /\ held[t] \in 0..slot /\ chain \in Chains
      /\ held[t] # 0 => t \in topics /\ config.provider \in Snapshotters
      /\ selector[t] = IF t \in topics THEN HoldingAt(config, chain, held[t]) ELSE NewPeerSelector
  BY Zenon DEF DiscoveryInv, RegistryOK
<1>2. CASE t \notin topics
  <2>1. Filed(NewPeerSelector)
    BY Zenon DEF Filed, NewPeerSelector
  <2> QED
    BY Zenon, <1>1, <1>2, <2>1
<1>3. CASE t \in topics /\ held[t] = 0
  <2>1. HoldingAt(config, chain, 0) = newTopicRuntime
    BY Zenon DEF HoldingAt
  <2> QED
    BY Zenon, <1>1, <1>3, <2>1, StartFiled
<1>4. CASE t \in topics /\ held[t] # 0
  <2>1. slot \in Nat /\ Len(chain) \in Nat /\ slot <= Len(chain)
    BY Zenon, RegistryTypes
  <2>2. held[t] \in 1..Len(chain)
    BY <1>1, <1>4, <2>1
  <2>3. Filed(HoldingAt(config, chain, held[t]))
    BY Zenon, <1>1, <1>4, <2>2, HoldingIs
  <2> QED
    BY Zenon, <1>1, <1>4, <2>3
<1> QED
  BY Zenon, <1>2, <1>3, <1>4

(* Every variable has its type, and addPeers and setPeersForSources leave   *)
(* every entry of a PeerSelector with an address, under its own source and  *)
(* address.                                                                 *)
THEOREM DiscoveryTypeOK == Spec => []TypeOK
<1>1. DiscoveryInv => TypeOK
  <2> SUFFICES ASSUME DiscoveryInv PROVE TypeOK
    BY Zenon
  <2>1. /\ config \in ConfigRecord /\ chain \in Chains /\ slot \in 1..Len(chain)
        /\ closed \in BOOLEAN /\ topics \subseteq Topics /\ held \in [Topics -> 0..slot]
    BY Zenon, DiscoveryAssumption DEF DiscoveryInv, RegistryOK
  <2>2. \A t \in Topics : \A k \in DOMAIN selector[t] :
          k = <<selector[t][k].source, selector[t][k].addr>> /\ k[2] # <<0, 0>>
    BY Zenon, HoldingFiled DEF Filed
  <2>3. \A p \in Callers :
          /\ call[p].pc \in {"idle", "peers", "fetch", "fallback", "unset", "store", "read"}
          /\ call[p].fetched \in 0..slot
    BY Zenon DEF DiscoveryInv, CallOK, PCs
  <2> QED
    BY Zenon, <2>1, <2>2, <2>3 DEF TypeOK
<1> QED
  BY <1>1, DiscoveryInvariant, PTL

(* discoverPeers returns ledger peers no older than the call, unless        *)
(* another call has stored its snapshot between the fetch and the return.   *)
THEOREM DiscoveryFreshUnlessOvertaken == Spec => []FreshUnlessOvertaken
<1>1. DiscoveryInv => FreshUnlessOvertaken
  <2> SUFFICES ASSUME DiscoveryInv, NEW p \in Callers, call[p].result = "refreshed",
                      ~call[p].overtaken
               PROVE  call[p].view >= call[p].began
    BY Zenon DEF FreshUnlessOvertaken
  <2> DEFINE b == call[p].began
             v == call[p].view
  <2>1. b <= v /\ b \in 0..slot /\ v \in 0..slot /\ slot \in Nat
    BY Zenon, RegistryTypes DEF DiscoveryInv, CallOK
  <2> HIDE DEF b, v
  <2>2. v >= b
    BY <2>1
  <2> QED
    BY Zenon, <2>2 DEF b, v
<1> QED
  BY <1>1, DiscoveryInvariant, PTL

(* setPeersForSources replaces all ledger peers at once: a topic, and every *)
(* answer, has the configured peers and the ledger peers of one snapshot.   *)
THEOREM DiscoveryOneSnapshot == Spec => []OneSnapshot
<1>1. DiscoveryInv => OneSnapshot
  <2> SUFFICES ASSUME DiscoveryInv PROVE OneSnapshot
    BY Zenon
  <2>1. \A s : Holding(s) = HoldingAt(config, chain, s)
    BY Zenon DEF Holding, HoldingAt, PoolPeers, PoolPeersAt
  <2>2. \A t \in topics : selector[t] = HoldingAt(config, chain, held[t])
    BY Zenon DEF DiscoveryInv, RegistryOK
  <2>3. \A p \in Callers :
          call[p].result \in {"configured", "fallback", "refreshed"} =>
            call[p].peers = Peers(HoldingAt(config, chain, call[p].view))
    BY Zenon DEF DiscoveryInv, CallOK
  <2> QED
    BY Zenon, <2>1, <2>2, <2>3 DEF OneSnapshot
<1> QED
  BY <1>1, DiscoveryInvariant, PTL

(* A relay leads to the same addresses whether local-state-query, Dingo or  *)
(* an untyped relay reports it, with the exceptions that ProvidersAgree     *)
(* names, and to none only when it has no name.                             *)
THEOREM DiscoveryProvidersAgree == Spec => []ProvidersAgree
<1>1. DiscoveryInv => ProvidersAgree
  <2> DEFINE lp == [pool |-> 0, stake |-> 0]
  <2>1. lp.pool \in Nat /\ lp.stake \in Nat
    BY DEF lp
  <2>2. \A relay : AddrsOf(lp, relay) = {p.addr : p \in Range(ledgerRelayPeers(lp, relay))}
    BY Zenon DEF AddrsOf
  <2> HIDE DEF lp
  <2> SUFFICES ASSUME DiscoveryInv, NEW i \in DOMAIN chain[slot],
                      NEW r \in Range(chain[slot][i].relays)
               PROVE  /\ NamedByType(r)
                           => AddrsOf(lp, localStateQueryRelayToLedgerRelay(r))
                                = AddrsOf(lp, untypedRelay(r))
                      /\ r.domain = 0 \/ r.port # 0 \/ (r.ipv4 = 0 /\ r.ipv6 = 0)
                           => AddrsOf(lp, dingoRelayToLedgerRelay(r)) = AddrsOf(lp, untypedRelay(r))
                      /\ AddrsOf(lp, untypedRelay(r)) = {}
                           <=> r.domain = 0 /\ r.ipv4 = 0 /\ r.ipv6 = 0
    BY Zenon, <2>2 DEF ProvidersAgree, lp
  <2>3. r \in Relay
    <3>1. chain \in Seq(Ledger) /\ slot \in DOMAIN chain
      BY Zenon, RegistryTypes, Elements DEF DiscoveryInv, RegistryOK
    <3>2. chain[slot] \in Seq(Pools)
      BY Zenon, <3>1, Elements DEF Ledger, Pools
    <3>3. chain[slot][i] \in Pools
      BY Zenon, <3>2, Elements
    <3>4. chain[slot][i].relays \in Seq(Relay)
      BY Zenon, <3>3 DEF Pools
    <3> DEFINE relays == chain[slot][i].relays
    <3>5. \A j \in DOMAIN relays : relays[j] \in Relay
      BY Zenon, <3>4, Elements
    <3> QED
      BY Zenon, <3>5 DEF Range
  <2>4. NamedByType(r)
          => AddrsOf(lp, localStateQueryRelayToLedgerRelay(r)) = AddrsOf(lp, untypedRelay(r))
    BY Zenon, <2>1, <2>3, QueryAgrees DEF NamedByType
  <2>5. r.domain = 0 \/ r.port # 0 \/ (r.ipv4 = 0 /\ r.ipv6 = 0)
          => AddrsOf(lp, dingoRelayToLedgerRelay(r)) = AddrsOf(lp, untypedRelay(r))
    BY Zenon, <2>1, <2>3, DingoAgrees
  <2>6. AddrsOf(lp, untypedRelay(r)) = {} <=> r.domain = 0 /\ r.ipv4 = 0 /\ r.ipv6 = 0
    BY Zenon, <2>1, <2>3, NoneLost
  <2> QED
    BY Zenon, <2>4, <2>5, <2>6
<1> QED
  BY <1>1, DiscoveryInvariant, PTL

(* The stake of the snapshot fits in a uint64, so that the sums of          *)
(* bigLedgerPeers do not wrap around.  Of local-state-query it is enough    *)
(* that the shares sum up to at most one.                                   *)
StakeFits ==
  /\ config.provider = "staked"
       => SumFunction(poolStakes(SnapshotOf("staked", chain[slot]))) <= MaxWord
  /\ config.provider = "query" => SharesOfOne(chain[slot])

(* bigLedgerPeers: the pools chosen are those with most stake, they hold    *)
(* nine tenths of it, and without the smallest of them they would not.      *)
THEOREM DiscoveryBigPoolsAreTopStake == Spec => [](StakeFits => BigPoolsAreTopStake)
<1>1. DiscoveryInv => (StakeFits => BigPoolsAreTopStake)
  <2> DEFINE ledger == chain[slot]
             peers == SnapshotOf(config.provider, ledger)
             stakes == poolStakes(peers)
             big == selectedPools(peers)
             total == SumFunction(stakes)
             sum(K) == SumFunctionOnSet(stakes, K)
             goal == /\ big \subseteq DOMAIN stakes
                     /\ \A k \in big, l \in DOMAIN stakes \ big : stakes[k] >= stakes[l]
                     /\ 10 * sum(big) >= 9 * total
                     /\ \A k \in big : (\A l \in big : stakes[k] <= stakes[l])
                                         => 10 * sum(big \ {k}) < 9 * total
  <2> SUFFICES ASSUME DiscoveryInv, StakeFits, config.provider \in {"staked", "query"}
               PROVE  goal
    BY Zenon DEF BigPoolsAreTopStake
  <2>1. ledger \in Ledger
    <3>1. chain \in Seq(Ledger) /\ slot \in DOMAIN chain
      BY Zenon, RegistryTypes, Elements DEF DiscoveryInv, RegistryOK
    <3> QED
      BY Zenon, <3>1, Elements
  <2>2. peers \in Seq(Entry) /\ total <= MaxWord
    <3>1. CASE config.provider = "staked"
      <4>1. peers = stakedProviderSnapshot(ledger) /\ total <= MaxWord
        BY Zenon, <3>1 DEF SnapshotOf, StakeFits
      <4> QED
        BY Zenon, <2>1, <4>1, StakedTyped
    <3>2. CASE config.provider = "query"
      <4>1. peers = convertLocalStateQueryLedgerPeerSnapshot(ledger) /\ SharesOfOne(ledger)
        BY Zenon, <3>2 DEF SnapshotOf, StakeFits
      <4> QED
        BY Zenon, <2>1, <4>1, QueryTyped, QueryFits
    <3> QED
      BY Zenon, <3>1, <3>2
  <2> HIDE DEF peers
  <2> QED
    BY Zenon, <2>2, BigPools
<1> QED
  BY <1>1, DiscoveryInvariant, PTL

LEMMA HoldingFinite ==
  ASSUME DiscoveryInv, NEW t \in topics PROVE IsFiniteSet(DOMAIN selector[t])
<1>1. /\ held[t] \in 0..slot /\ chain \in Chains
      /\ held[t] # 0 => config.provider \in Snapshotters
      /\ selector[t] = HoldingAt(config, chain, held[t])
  BY Zenon DEF DiscoveryInv, RegistryOK
<1>2. IsFiniteSet(DOMAIN newTopicRuntime)
  <2>1. IsFiniteSet(DOMAIN NewPeerSelector)
    BY Zenon, FS_EmptySet DEF NewPeerSelector
  <2>2. IsFiniteSet(DOMAIN addPeers(NewPeerSelector, TopologyPeers(Topology)))
    BY Zenon, <2>1, TopologyPeersTyped, AddedFinite
  <2>3. StaticPeers \in Seq(Peer)
    BY Zenon, DiscoveryAssumption
  <2> QED
    BY Zenon, <2>2, <2>3, AddedFinite DEF newTopicRuntime
<1>3. CASE held[t] = 0
  <2>1. HoldingAt(config, chain, 0) = newTopicRuntime
    BY Zenon DEF HoldingAt
  <2> QED
    BY Zenon, <1>1, <1>2, <1>3, <2>1
<1>4. CASE held[t] # 0
  <2> DEFINE R == NonLedger(newTopicRuntime)
             peers == PoolPeersAt(config, chain, held[t])
  <2>1. slot \in Nat /\ Len(chain) \in Nat /\ slot <= Len(chain)
    BY Zenon, RegistryTypes
  <2>2. held[t] \in 1..Len(chain)
    BY <1>1, <1>4, <2>1
  <2>3. selector[t] = addPeers(R, peers)
    BY Zenon, <1>1, <1>4, <2>2, HoldingIs
  <2>4. peers \in Seq(PeerOf(LedgerSources))
    BY Zenon, <1>1, <1>4, <2>2, PoolPeersTyped
  <2>5. DOMAIN R \in SUBSET DOMAIN newTopicRuntime
    BY Zenon DEF NonLedger
  <2>6. IsFiniteSet(DOMAIN R)
    BY Zenon, <1>2, <2>5, FS_Subset
  <2> HIDE DEF R, peers
  <2> QED
    BY Zenon, <2>3, <2>4, <2>6, AddedFinite
<1> QED
  BY Zenon, <1>3, <1>4

(* Select returns, in the order of Peers, the first n of the peers that are *)
(* within the quota of their class; n = 0 is all of them.                   *)
THEOREM DiscoverySelectHonoursQuotas == Spec => []SelectHonoursQuotas
<1>1. DiscoveryInv => SelectHonoursQuotas
  <2> SUFFICES ASSUME DiscoveryInv, NEW t \in topics, NEW n \in {0, 1, 3}
               PROVE  LET peers == Peers(selector[t])
                          rank(i) == Cardinality({j \in 1..(i - 1) :
                                       QuotaClass(peers[j].source) = QuotaClass(peers[i].source)})
                          quota(i) == quotaForSource(peers[i].source)
                          eligible == {i \in DOMAIN peers : quota(i) = 0 \/ rank(i) < quota(i)}
                          s == Select(selector[t], n)
                          chosen == {i \in eligible :
                                       n = 0 \/ Cardinality({j \in eligible : j < i}) < n}
                      IN /\ Len(s) = Cardinality(chosen)
                         /\ \A i \in chosen : s[Cardinality({j \in chosen : j <= i})] = peers[i]
    BY Zenon DEF SelectHonoursQuotas
  <2>1. PICK S : Peers(selector[t]) \in Seq(S)
    BY Zenon, HoldingFinite, PeersListed
  <2>2. n \in Nat
    OBVIOUS
  <2> QED
    BY Zenon, <2>1, <2>2, SelectHonours
<1> QED
  BY <1>1, DiscoveryInvariant, PTL
=============================================================================
