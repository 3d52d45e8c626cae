----------------------------- MODULE LedgerPeers -----------------------------
(***************************************************************************)
(* The pure part of src/discovery.go: from the pool relays registered on   *)
(* the ledger to peers, the choice of the big-ledger pools, and the        *)
(* operations of PeerSelector on its map.  Hosts and pool IDs are natural  *)
(* numbers in the order of the strings they stand for; 0 is "".            *)
(***************************************************************************)
EXTENDS Naturals, Sequences, FiniteSets, FiniteSetsExt, Functions

CONSTANTS
  MaxWord,   \* ^uint64(0)
  Quota      \* PeerSelectionConfig: quota class -> quota, 0 is unlimited

ASSUME LedgerPeersAssumption ==
  /\ MaxWord \in Nat
  /\ Quota \in [{"topology", "sharing", "ledger", "big"} -> Nat]

(* S as a sequence in increasing order (SubSeq has TLC evaluate it once). *)
OrderedBy(S, less(_, _)) ==
  LET ranked == {<<Cardinality({y \in S : less(y, x)}) + 1, x>> : x \in S}
      n == Cardinality(S)
  IN SubSeq([k \in 1..n |-> (CHOOSE r \in ranked : r[1] = k)[2]], 1, n)

(* sort.SliceStable *)
SliceStable(s, less(_, _)) ==
  LET before(i, j) == less(s[i], s[j]) \/ (~less(s[j], s[i]) /\ i < j)
      order == OrderedBy(DOMAIN s, before)
  IN SubSeq([k \in DOMAIN s |-> s[order[k]]], 1, Len(s))

(* A loop that appends one list after the other. *)
AppendAll(lists) ==
  LET appended[n \in 0..Len(lists)] ==
        IF n = 0 THEN <<>> ELSE appended[n - 1] \o lists[n]
  IN appended[Len(lists)]

Below(a, b) == a[1] < b[1] \/ (a[1] = b[1] /\ a[2] < b[2])

(* Two maps in one; where both have a key, the first counts. *)
Beside(m, l) == [k \in DOMAIN m \cup DOMAIN l |-> IF k \in DOMAIN m THEN m[k] ELSE l[k]]
-----------------------------------------------------------------------------
(* Peers.  An address is a pair of host and port; <<0, 0>> is "", and port  *)
(* 0 leaves the host alone.                                                 *)

newPeer(host, port, base) ==
  [base EXCEPT !.host = host, !.port = port, !.addr = <<host, port>>]

Base(source, pool, stake) ==
  [source |-> source, host |-> 0, port |-> 0, addr |-> <<0, 0>>, pool |-> pool, stake |-> stake]

TopologyPeers(topology) ==
  LET from(aps, source) == [i \in DOMAIN aps |-> newPeer(aps[i][1], aps[i][2], Base(source, 0, 0))]
  IN from(topology.localRoots, "topology-local-root")
     \o from(topology.publicRoots, "topology-public-root")
     \o from(topology.bootstrapPeers, "topology-bootstrap")

(* The sources a peer may have, in the order of their strings. *)
SourceOrder == <<"", "big-ledger", "ledger", "peer-sharing", "static",
                 "topology-bootstrap", "topology-local-root", "topology-public-root">>
Sources == {SourceOrder[n] : n \in DOMAIN SourceOrder}
SourceRank(s) == CHOOSE n \in DOMAIN SourceOrder : SourceOrder[n] = s

Peer ==
  [source : Sources, host : Nat, port : Nat, addr : Nat \X Nat, pool : Nat, stake : Nat]
-----------------------------------------------------------------------------
(* Relays.  RelayAccessPoint of local-state-query and PoolRelay of Dingo    *)
(* are one record here: any of the names may be there, 0 is none, and Dingo *)
(* has no type.  "none" is a type that the library does not know.           *)

Relay ==
  [type : {"ipv4", "ipv6", "domain", "srv", "none"},
   domain : Nat, ipv4 : Nat, ipv6 : Nat, port : Nat]

NoRelay == [kind |-> "", srvName |-> 0, hostname |-> 0, port |-> 0, ipv4 |-> 0, ipv6 |-> 0]

(* Variant: the port of a host name is lost. *)
localStateQueryRelayPortLost(r) ==
  CASE r.type = "ipv4" -> [NoRelay EXCEPT !.kind = "address", !.port = r.port, !.ipv4 = r.ipv4]
    [] r.type = "ipv6" -> [NoRelay EXCEPT !.kind = "address", !.port = r.port, !.ipv6 = r.ipv6]
    [] r.type = "domain" -> [NoRelay EXCEPT !.kind = "name", !.hostname = r.domain]
    [] r.type = "srv" -> [NoRelay EXCEPT !.kind = "srv", !.srvName = r.domain]
    [] OTHER -> NoRelay

(* The type says which of the names counts. *)
localStateQueryRelayToLedgerRelay(r) ==
  CASE r.type = "ipv4" -> [NoRelay EXCEPT !.kind = "address", !.port = r.port, !.ipv4 = r.ipv4]
    [] r.type = "ipv6" -> [NoRelay EXCEPT !.kind = "address", !.port = r.port, !.ipv6 = r.ipv6]
    [] r.type = "domain" -> [NoRelay EXCEPT !.kind = "name", !.port = r.port, !.hostname = r.domain]
    [] r.type = "srv" -> [NoRelay EXCEPT !.kind = "srv", !.srvName = r.domain]
    [] OTHER -> NoRelay

(* A ledger relay whose kind the provider has left unset. *)
untypedRelay(r) ==
  [NoRelay EXCEPT !.port = r.port, !.hostname = r.domain, !.ipv4 = r.ipv4, !.ipv6 = r.ipv6]

(* The names there are say which kind it is. *)
dingoRelayToLedgerRelay(r) ==
  [untypedRelay(r) EXCEPT !.kind = IF r.ipv4 # 0 \/ r.ipv6 # 0 THEN "address"
                                   ELSE IF r.domain # 0 /\ r.port = 0 THEN "srv"
                                   ELSE "name"]

IsSRV(relay) ==
  \/ relay.kind = "srv"
  \/ relay.srvName # 0
  \/ relay.kind = "" /\ relay.hostname # 0 /\ relay.port = 0

ledgerRelayPeers(lp, relay) ==
  LET base == Base("ledger", lp.pool, lp.stake)
      srv == IF relay.srvName # 0 THEN relay.srvName ELSE relay.hostname
      port == IF relay.port = 0 THEN 3001 ELSE relay.port
      given(h) == IF h # 0 THEN <<h>> ELSE <<>>
      hosts == given(relay.hostname) \o given(relay.ipv4) \o given(relay.ipv6)
  IN IF IsSRV(relay)
     THEN IF srv = 0 THEN <<>> ELSE <<newPeer(srv, relay.port, base)>>
     ELSE [i \in DOMAIN hosts |-> newPeer(hosts[i], port, base)]
-----------------------------------------------------------------------------
(* Snapshots.  A pool on the ledger has its stake, which a staked provider   *)
(* reports, and its share of all stake, which local-state-query reports.    *)

(* A fraction that is missing or not positive has num = 0. *)
Rat == [num : Nat, den : Nat \ {0}]
Ledger == Seq([pool : Nat, stake : Nat, share : Rat, relays : Seq(Relay)])

(* The fraction scaled to 0..MaxWord. *)
ledgerStakeFromRat(r) ==
  IF r.num = 0 THEN 0
  ELSE LET scaled == (r.num * MaxWord) \div r.den
       IN IF scaled > MaxWord THEN MaxWord ELSE scaled

(* No pool has an ID.  A nil snapshot is one without pools. *)
convertLocalStateQueryLedgerPeerSnapshot(ledger) ==
  [i \in DOMAIN ledger |->
     [pool |-> 0, stake |-> ledgerStakeFromRat(ledger[i].share),
      relays |-> [j \in DOMAIN ledger[i].relays |->
                    localStateQueryRelayToLedgerRelay(ledger[i].relays[j])]]]

stakedProviderSnapshot(ledger) ==
  [i \in DOMAIN ledger |->
     [pool |-> ledger[i].pool, stake |-> ledger[i].stake,
      relays |-> [j \in DOMAIN ledger[i].relays |-> untypedRelay(ledger[i].relays[j])]]]

(* Relay-only: every relay is an entry without pool or stake. *)
relayOnlySnapshot(ledger) ==
  LET relays == AppendAll([i \in DOMAIN ledger |-> ledger[i].relays])
  IN [i \in DOMAIN relays |->
        [pool |-> 0, stake |-> 0, relays |-> <<dingoRelayToLedgerRelay(relays[i])>>]]
-----------------------------------------------------------------------------
(* The pools                                                                *)

(* strconv.Itoa(n), as a number: in the order of the strings as long as     *)
(* these have up to five digits.                                            *)
Itoa(n) ==
  CASE n < 10 -> 60000 * n + 1
    [] n >= 10 /\ n < 100 -> 6000 * n + 2
    [] n >= 100 /\ n < 1000 -> 600 * n + 3
    [] n >= 1000 /\ n < 10000 -> 60 * n + 4
    [] OTHER -> 6 * n + 5

(* "pool:" with the ID, or "idx:" with the place, counted from 0. *)
ledgerPeerPoolKey(peer, i) ==
  IF peer.pool # 0 THEN <<2, peer.pool>> ELSE <<1, Itoa(i - 1)>>

(* The highest stake of each pool, of those with any. *)
poolStakes(peers) ==
  LET staked == {i \in DOMAIN peers : peers[i].stake > 0}
      key(i) == ledgerPeerPoolKey(peers[i], i)
  IN [k \in {key(i) : i \in staked} |->
        Max({peers[i].stake : i \in {j \in staked : key(j) = k}})]

(* Variant: nine tenths rounded down, and then rounded down again. *)
bigThresholdLow(total) == (total \div 10) * 9

bigThreshold(total) == total - total \div 10

(* The keys of the pools taken in order of stake until they reach the       *)
(* threshold; sums wrap around.                                             *)
selectedPools(peers) ==
  LET stakes == poolStakes(peers)
      total == SumFunction(stakes) % (MaxWord + 1)
      before(k, l) == stakes[k] > stakes[l] \/ (stakes[k] = stakes[l] /\ Below(k, l))
      order == OrderedBy(DOMAIN stakes, before)
      acc(n) == SumFunction([i \in 1..n |-> stakes[order[i]]]) % (MaxWord + 1)
  IN IF total = 0 THEN {}
     ELSE {order[n] : n \in {m \in DOMAIN order :
                               \A l \in 1..(m - 1) : acc(l) < bigThreshold(total)}}

bigLedgerPeers(peers) ==
  LET selected == selectedPools(peers)
      relayPeers(i) == AppendAll([j \in DOMAIN peers[i].relays |->
                                     ledgerRelayPeers(peers[i], peers[i].relays[j])])
      big(i) == IF ledgerPeerPoolKey(peers[i], i) \in selected THEN relayPeers(i) ELSE <<>>
      all == AppendAll([i \in DOMAIN peers |-> big(i)])
  IN [i \in DOMAIN all |-> [all[i] EXCEPT !.source = "big-ledger"]]

BuildLedgerPeerPools(peers) ==
  LET all == AppendAll([i \in DOMAIN peers |->
               AppendAll([j \in DOMAIN peers[i].relays |->
                             ledgerRelayPeers(peers[i], peers[i].relays[j])])])
      byStake(a, b) == a.stake > b.stake \/ (a.stake = b.stake /\ Below(a.addr, b.addr))
  IN [all |-> SliceStable(all, byStake), big |-> bigLedgerPeers(peers)]
-----------------------------------------------------------------------------
(* PeerSelector: a map from source and address to the peer.                 *)

NewPeerSelector == [k \in {} |-> Base("", 0, 0)]

(* Variant: a peer with neither address nor host is filed as well. *)
addPeersUnchecked(m, peers) ==
  LET addressed(p) == IF p.addr = <<0, 0>> THEN newPeer(p.host, p.port, p) ELSE p
      key(i) == <<peers[i].source, addressed(peers[i]).addr>>
      at(k) == {i \in DOMAIN peers : key(i) = k}
  IN [k \in DOMAIN m \cup {key(i) : i \in DOMAIN peers} |->
        IF at(k) = {} THEN m[k] ELSE addressed(peers[Max(at(k))])]

(* A missing address is derived from host and port; of two peers with one   *)
(* key the later one stays.                                                 *)
addPeers(m, peers) ==
  LET addressed(p) == IF p.addr = <<0, 0>> THEN newPeer(p.host, p.port, p) ELSE p
      named == {i \in DOMAIN peers : peers[i].addr # <<0, 0>> \/ peers[i].host # 0}
      key(i) == <<peers[i].source, addressed(peers[i]).addr>>
      at(k) == {i \in named : key(i) = k}
  IN [k \in DOMAIN m \cup {key(i) : i \in named} |->
        IF at(k) = {} THEN m[k] ELSE addressed(peers[Max(at(k))])]

(* Variant: peers that the new snapshot no longer has are kept. *)
setPeersKeepingOld(m, sources, peers) == addPeers(m, peers)

setPeersForSources(m, sources, peers) ==
  addPeers([k \in {l \in DOMAIN m : m[l].source \notin sources} |-> m[k]], peers)

Peers(m) ==
  LET before(k, l) == \/ SourceRank(k[1]) < SourceRank(l[1])
                      \/ k[1] = l[1] /\ Below(k[2], l[2])
      order == OrderedBy(DOMAIN m, before)
  IN SubSeq([n \in DOMAIN order |-> m[order[n]]], 1, Len(order))

QuotaClass(source) ==
  CASE source \in {"topology-local-root", "topology-public-root",
                   "topology-bootstrap", "static"} -> "topology"
    [] source = "peer-sharing" -> "sharing"
    [] source = "ledger" -> "ledger"
    [] source = "big-ledger" -> "big"
    [] OTHER -> source

quotaForSource(source) ==
  IF QuotaClass(source) \in DOMAIN Quota THEN Quota[QuotaClass(source)] ELSE 0

(* Variant: a class may be one over its quota. *)
overQuotaOffByOne(quota, count) == quota > 0 /\ count > quota

overQuota(quota, count) == quota > 0 /\ count >= quota

(* The loop of Select; selected[i] is what it has chosen after i peers. *)
Select(m, n) ==
  LET peers == Peers(m)
      count(s, class) == Cardinality({i \in DOMAIN s : QuotaClass(s[i].source) = class})
      step(s, p) ==
        IF \/ n > 0 /\ Len(s) >= n
           \/ overQuota(quotaForSource(p.source), count(s, QuotaClass(p.source)))
        THEN s
        ELSE Append(s, p)
      selected[i \in 0..Len(peers)] ==
        IF i = 0 THEN <<>> ELSE step(selected[i - 1], peers[i])
  IN selected[Len(peers)]
=============================================================================
