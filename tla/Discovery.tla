------------------------------ MODULE Discovery ------------------------------
(***************************************************************************)
(* The topic registry of a Manager (src/manager.go) and the discovery of   *)
(* peers for its topics (src/discovery.go): goroutines register a topic    *)
(* and ask for its peers, while the ledger moves on.  discoverPeers calls  *)
(* the snapshot provider without a lock, replaces the ledger peers in one  *)
(* locked section of the topic's PeerSelector and reads the peers back in  *)
(* another.                                                                *)
(***************************************************************************)
EXTENDS LedgerPeers

CONSTANTS
  Callers,      \* goroutines calling TopicPeers
  Topics,       \* topic names
  Chains,       \* the ledgers the chain goes through, each a sequence of pools
  Configs,      \* ManagerConfig and TopicConfig: see ConfigRecord
  Topology,     \* DiscoveryConfig.Topology
  StaticPeers   \* DiscoveryConfig.StaticPeers

(* "none" is a nil Provider.  "staked", "relay", "denied" and "unset" are   *)
(* DingoLedgerPeerProviderAdapter with a staked provider, with one of       *)
(* relays only that AllowRelayOnly admits or not, and with none; "query" is *)
(* LocalStateQueryLedgerPeerSnapshotProvider.                               *)
Providers == {"none", "staked", "relay", "denied", "unset", "query"}
ConfigRecord ==
  [enabled : BOOLEAN, allowUnsupported : BOOLEAN, provider : Providers,
   authenticatorMissing : BOOLEAN]

ASSUME DiscoveryAssumption ==
  /\ Configs \subseteq ConfigRecord
  /\ Chains \subseteq Seq(Ledger) \ {<<>>}
  /\ Topology \in [localRoots : Seq(Nat \X Nat), publicRoots : Seq(Nat \X Nat),
                   bootstrapPeers : Seq(Nat \X Nat)]
  /\ StaticPeers \in Seq(Peer)

VARIABLES
  config,    \* the configuration in use
  chain,     \* the ledgers the chain goes through
  slot,      \* which of them it is at
  closed,    \* Manager.closed
  topics,    \* keys of Manager.topics
  selector,  \* the map of each topic's PeerSelector
  held,      \* history: the slot of the snapshot it holds; 0 is none
  call       \* the call each caller is in

vars == <<config, chain, slot, closed, topics, selector, held, call>>

LedgerSources == {"ledger", "big-ledger"}

(* A call: the topic, the slot of the snapshot fetched, and what it returns *)
(* (its result, the peers and the slot of the snapshot they come from).     *)
(* began and overtaken are histories: the slot when the call began, and     *)
(* whether another call has stored a snapshot since this one fetched its    *)
(* own.                                                                     *)
NoCall == [pc |-> "idle", topic |-> CHOOSE t \in Topics : TRUE, began |-> 0, fetched |-> 0,
           overtaken |-> FALSE, result |-> "none", view |-> 0, peers |-> <<>>]
Returned(r) == [NoCall EXCEPT !.result = r]

(* newTopicRuntime: the topology's peers first, then the static ones. *)
newTopicRuntime == addPeers(addPeers(NewPeerSelector, TopologyPeers(Topology)), StaticPeers)

(* NewManager: no topic is registered. *)
Init ==
  /\ config \in Configs
  /\ chain \in Chains
  /\ slot = 1 /\ closed = FALSE /\ topics = {}
  /\ selector = [t \in Topics |-> NewPeerSelector]
  /\ held = [t \in Topics |-> 0]
  /\ call = [p \in Callers |-> NoCall]

(* Pools and relays on the ledger change. *)
AdvanceChain ==
  /\ slot < Len(chain)
  /\ slot' = slot + 1
  /\ UNCHANGED <<config, chain, closed, topics, selector, held, call>>

(* Manager.Shutdown, as far as the registry goes; a second call returns     *)
(* at once.                                                                 *)
Shutdown ==
  /\ ~closed
  /\ closed' = TRUE
  /\ UNCHANGED <<config, chain, slot, topics, selector, held, call>>

RegisterResult(t) ==
  IF closed THEN "closed"
  ELSE IF t \in topics THEN "exists"
  ELSE IF config.authenticatorMissing THEN "authenticator_required"
  ELSE "registered"

(* What the others return changes nothing. *)
RegisterTopic(t) ==
  /\ IF RegisterResult(t) = "registered"
     THEN /\ topics' = topics \cup {t}
          /\ selector' = [selector EXCEPT ![t] = newTopicRuntime]
          /\ held' = [held EXCEPT ![t] = 0]
     ELSE UNCHANGED <<topics, selector, held>>
  /\ UNCHANGED <<config, chain, slot, closed, call>>
-----------------------------------------------------------------------------
(* TopicPeers: the lookup under the read lock, then discoverPeers. *)

(* Manager.topic *)
topic(t) == IF closed THEN "closed" ELSE IF t \notin topics THEN "not_found" ELSE "found"

(* The way discoverPeers takes by its configuration alone. *)
discoverPeers ==
  IF ~config.enabled THEN "peers"
  ELSE IF config.provider # "none" THEN "fetch"
  ELSE IF config.allowUnsupported THEN "fallback" ELSE "unset"

TopicPeers(p, t) ==
  /\ call[p].pc = "idle"
  /\ call' = [call EXCEPT ![p] =
       IF topic(t) = "found"
       THEN [NoCall EXCEPT !.topic = t, !.began = slot, !.pc = discoverPeers]
       ELSE Returned(topic(t))]
  /\ UNCHANGED <<config, chain, slot, closed, topics, selector, held>>

(* LedgerPeerSnapshot(ctx, LedgerPeerSnapshotAll) of each provider.         *)
SnapshotOf(provider, ledger) ==
  CASE provider = "staked" -> stakedProviderSnapshot(ledger)
    [] provider = "relay" -> relayOnlySnapshot(ledger)
    [] provider = "query" -> convertLocalStateQueryLedgerPeerSnapshot(ledger)

(* Variant: a snapshot already held is taken to be good enough. *)
FetchSnapshotCached(p) ==
  /\ call[p].pc = "fetch"
  /\ config.provider \in {"staked", "relay", "query"}
  /\ call' = [call EXCEPT ![p].pc = "store",
                          ![p].fetched = IF held[call[p].topic] > 0 THEN held[call[p].topic] ELSE slot]
  /\ UNCHANGED <<config, chain, slot, closed, topics, selector, held>>

FetchSnapshot(p) ==
  /\ call[p].pc = "fetch"
  /\ config.provider \in {"staked", "relay", "query"}
  /\ call' = [call EXCEPT ![p].pc = "store", ![p].fetched = slot]
  /\ UNCHANGED <<config, chain, slot, closed, topics, selector, held>>

(* The providers that may answer ErrLedgerPeerSnapshotUnsupported: without  *)
(* stake metadata, or with a node whose protocol version lacks the query.   *)
MayBeUnsupported == {"denied", "query"}

FetchUnsupported(p) ==
  /\ call[p].pc = "fetch"
  /\ config.provider \in MayBeUnsupported
  /\ call' = [call EXCEPT ![p] =
       IF config.allowUnsupported THEN [@ EXCEPT !.pc = "fallback"] ELSE Returned("unsupported")]
  /\ UNCHANGED <<config, chain, slot, closed, topics, selector, held>>

(* Any other error: the context is done, the source fails, or the adapter   *)
(* has no source.                                                           *)
FetchFails(p) ==
  \/ /\ call[p].pc = "unset"
     /\ call' = [call EXCEPT ![p] = Returned("provider_unset")]
     /\ UNCHANGED <<config, chain, slot, closed, topics, selector, held>>
  \/ /\ call[p].pc = "fetch" /\ config.provider # "denied"
     /\ call' = [call EXCEPT ![p] =
          Returned(IF config.provider = "unset" THEN "provider_unset" ELSE "error")]
     /\ UNCHANGED <<config, chain, slot, closed, topics, selector, held>>

(* setPeersForSources with the pools of the snapshot. *)
PoolPeers(s) ==
  LET pools == BuildLedgerPeerPools(SnapshotOf(config.provider, chain[s]))
  IN pools.all \o pools.big

StoreSnapshot(p) ==
  LET c == call[p]
  IN /\ c.pc = "store"
     /\ selector' = [selector EXCEPT ![c.topic] =
                       setPeersForSources(@, LedgerSources, PoolPeers(c.fetched))]
     /\ held' = [held EXCEPT ![c.topic] = c.fetched]
     /\ call' = [q \in Callers |->
                   IF q = p THEN [c EXCEPT !.pc = "read"]
                   ELSE [call[q] EXCEPT !.overtaken =
                           @ \/ (call[q].pc \in {"store", "read"} /\ call[q].topic = c.topic)]]
     /\ UNCHANGED <<config, chain, slot, closed, topics>>

(* peers := t.peerSelector.Peers() at the end of each way through. *)
ReadPeers(p) ==
  LET c == call[p]
  IN /\ c.pc \in {"peers", "fallback", "read"}
     /\ call' = [call EXCEPT ![p] =
          [c EXCEPT !.pc = "idle", !.view = held[c.topic], !.peers = Peers(selector[c.topic]),
                    !.result = [peers |-> "configured", fallback |-> "fallback",
                                read |-> "refreshed"][c.pc]]]
     /\ UNCHANGED <<config, chain, slot, closed, topics, selector, held>>
-----------------------------------------------------------------------------
Next ==
  \/ AdvanceChain
  \/ Shutdown
  \/ \E t \in Topics : RegisterTopic(t)
  \/ \E p \in Callers :
       \/ \E t \in Topics : TopicPeers(p, t)
       \/ FetchSnapshot(p) \/ FetchUnsupported(p) \/ FetchFails(p)
       \/ StoreSnapshot(p) \/ ReadPeers(p)

Spec == Init /\ [][Next]_vars
-----------------------------------------------------------------------------
(* Properties *)

(* Every variable has its type, and every entry of a PeerSelector has an    *)
(* address and is filed under its own source and address.                   *)
TypeOK ==
  /\ config \in ConfigRecord /\ chain \in Chains /\ slot \in 1..Len(chain)
  /\ closed \in BOOLEAN /\ topics \subseteq Topics
  /\ held \in [Topics -> 0..slot]
  /\ \A t \in Topics : \A k \in DOMAIN selector[t] :
       k = <<selector[t][k].source, selector[t][k].addr>> /\ k[2] # <<0, 0>>
  /\ \A p \in Callers :
       /\ call[p].pc \in {"idle", "peers", "fetch", "fallback", "unset", "store", "read"}
       /\ call[p].fetched \in 0..slot

(* bigLedgerPeers: no pool left out has more stake than one chosen, the     *)
(* pools chosen hold nine tenths of all stake, and without the smallest of  *)
(* them they would not.                                                     *)
BigPoolsAreTopStake ==
  config.provider \in {"staked", "query"} =>
    LET peers == SnapshotOf(config.provider, chain[slot])
        stakes == poolStakes(peers)
        big == selectedPools(peers)
        total == SumFunction(stakes)
        sum(K) == SumFunctionOnSet(stakes, K)
    IN /\ big \subseteq DOMAIN stakes
       /\ \A k \in big, l \in DOMAIN stakes \ big : stakes[k] >= stakes[l]
       /\ 10 * sum(big) >= 9 * total
       /\ \A k \in big :
            (\A l \in big : stakes[k] <= stakes[l]) => 10 * sum(big \ {k}) < 9 * total

(* A relay has no name but the one its type is about, and a port unless it  *)
(* is an SRV name.                                                          *)
NamedByType(r) ==
  /\ r.type # "ipv4" => r.ipv4 = 0
  /\ r.type # "ipv6" => r.ipv6 = 0
  /\ r.type \notin {"domain", "srv"} => r.domain = 0
  /\ r.type = "domain" => r.port # 0
  /\ r.type = "srv" => r.port = 0

(* Whichever provider reports it, a relay leads to the same addresses.      *)
(* Local-state-query agrees with an untyped relay where the type decides    *)
(* nothing that the names do not.  dingoRelayToLedgerRelay agrees with it   *)
(* for every relay but one with a host name, an IP address and no port; and *)
(* no relay that has a name is lost.                                        *)
ProvidersAgree ==
  LET addrs(relay) == {p.addr : p \in Range(ledgerRelayPeers([pool |-> 0, stake |-> 0], relay))}
  IN \A i \in DOMAIN chain[slot] : \A r \in Range(chain[slot][i].relays) :
       /\ NamedByType(r)
            => addrs(localStateQueryRelayToLedgerRelay(r)) = addrs(untypedRelay(r))
       /\ r.domain = 0 \/ r.port # 0 \/ (r.ipv4 = 0 /\ r.ipv6 = 0)
            => addrs(dingoRelayToLedgerRelay(r)) = addrs(untypedRelay(r))
       /\ addrs(untypedRelay(r)) = {} <=> r.domain = 0 /\ r.ipv4 = 0 /\ r.ipv6 = 0

(* Select returns, in the order of Peers, the first n of those peers that   *)
(* have fewer peers of their class before them than its quota: it never     *)
(* exceeds a quota, and leaves out no peer that it has room for.            *)
SelectHonoursQuotas ==
  \A t \in topics :
    LET peers == Peers(selector[t])
        rank(i) == Cardinality({j \in 1..(i - 1) :
                     QuotaClass(peers[j].source) = QuotaClass(peers[i].source)})
        quota(i) == quotaForSource(peers[i].source)
        eligible == {i \in DOMAIN peers : quota(i) = 0 \/ rank(i) < quota(i)}
    IN \A n \in {0, 1, 3} :
         LET s == Select(selector[t], n)
             chosen == {i \in eligible : n = 0 \/ Cardinality({j \in eligible : j < i}) < n}
         IN /\ Len(s) = Cardinality(chosen)
            /\ \A i \in chosen : s[Cardinality({j \in chosen : j <= i})] = peers[i]

(* The entries of a PeerSelector that do not come from the ledger, and what *)
(* a PeerSelector holds with the snapshot of slot s; s = 0 is none.         *)
NonLedger(m) == [k \in {l \in DOMAIN m : m[l].source \notin LedgerSources} |-> m[k]]
Holding(s) ==
  IF s = 0 THEN newTopicRuntime
  ELSE Beside(NonLedger(newTopicRuntime), addPeers(NewPeerSelector, PoolPeers(s)))

(* A topic, and every answer, has the configured peers and the ledger peers *)
(* of one snapshot, whatever refreshes, failures and second registrations   *)
(* overlap: nothing is left of an earlier snapshot, and the two ledger      *)
(* sources are never of different ones.                                     *)
OneSnapshot ==
  /\ \A t \in topics : selector[t] = Holding(held[t])
  /\ \A p \in Callers :
       call[p].result \in {"configured", "fallback", "refreshed"} =>
         call[p].peers = Peers(Holding(call[p].view))

(* A refresh returns ledger peers no older than the call itself, unless     *)
(* another call of the topic stored its snapshot between this call's fetch  *)
(* and its return.                                                          *)
FreshUnlessOvertaken ==
  \A p \in Callers :
    call[p].result = "refreshed" /\ ~call[p].overtaken => call[p].view >= call[p].began

LedgerPeersOf(peers) == SelectSeq(peers, LAMBDA p : p.source \in LedgerSources)

(* AllowUnsupported falls back to the peers that do not come from the       *)
(* ledger.                                                                  *)
FallbackIsNonLedger ==
  \A p \in Callers : call[p].result = "fallback" => LedgerPeersOf(call[p].peers) = <<>>
=============================================================================
