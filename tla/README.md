# dmq-lib in TLA+

dmq-lib is a Go library for CIP-0137 decentralized message queues. This directory
holds TLA+ models of its parts, TLC configurations that check them on small
instances, and TLAPS proofs, for every value of the constants, of each safety property
that the passing runs check.

## The system

| Part | Source | Model |
|---|---|---|
| Topic runtime: queue, seen map, expiry, subscriptions | `topic.go`, `payload.go`, `types.go`, `errors.go` | `Topic`, `TopicProofs`; `TopicService`, `TopicRefinement`, `TopicRefinementProofs` |
| Manager: topics and services, shut down as one | `manager.go` | `Node` (life cycle), `Discovery` (registry) |
| Node-to-node service: listener, outbound dials, connections | `network.go` | `Node`, `NodeProofs` |
| Message-submission protocol: announce, request, deliver | `protocol.go` | `Submission`, `SubmissionProofs` |
| Local submission and notification adapters | `protocol.go` | submitters of `Topic` and `Submission` |
| File signer, KES providers, reloading wrappers | `signer.go`, `kes_payload.go`, `reloading.go` | `Signing`, `SigningProofs` |
| TopicNode: a manager with one topic | `topic_node.go` | `Node` with `ViaTopicNode = TRUE` |
| Peer discovery: snapshots, pools, peer selection | `discovery.go` | `LedgerPeers`, `Discovery`; `LedgerPeersProofs`, `SelectionProofs`, `DiscoveryProofs` |
| Slot and KES period arithmetic, credential status | `cardano.go`, `kes_payload.go` | `CardanoTime`, `Signing`, `SigningProofs` |

An application publishes to a topic. The payload is stamped with an expiry, signed
(`Signing`), validated and admitted to the queue (`Topic`). Connections that
the service keeps up (`Node`) carry it to peers, which pull it (`Submission`) and
admit it in turn. Which peers there are, an application asks `TopicPeers`
(`Discovery`). Queue and seen map live in memory only, so there is no crash
recovery to model.

A section of code under a mutex is one step of a model. Everything else
interleaves, and what a goroutine read before a lock it still holds after it.

## Modules

**Topic.** `call[p]` is a goroutine inside `publish` or `submitSigned`: payload (`Publish`),
signer (`SignReturn`, `SignFail`), validation (`Validate`), the clock reading that becomes
`now` (`Stamp`), and the locked section (`AdmitClosed`, `AdmitDuplicate`, `AdmitFull`,
`AdmitAccept`). `log` is the history of acceptances; `queue` is a set of positions in it.
The clock ticks in fractions of a second because the code keeps `time.Time` in the seen map
but whole seconds on the wire; `DefaultTTL` and `MaxTTL` are durations in ticks. gOuroboros'
TTL validator, the message ID and `time.Time.Unix` are external. Two things about the
validator are left open by constants: whether a message is expired in the very second of its
expiry (`ExpiryInclusive`), and whether `MaxTTL` is cut to whole seconds before it is added
(`MaxTTLTruncated`). A signer is assumed to return the body and expiry it was given.

**TopicService, TopicRefinement.** `TopicService` is no translation of code: it is
what a topic promises. It has no seen map, no clock readings and no lock, and it
answers a call in one step. A message is refused as a duplicate or accepted
according to the acceptances within `DuplicateTTL`; a live message is lost only to a
call that was under way when it was accepted; every subscriber with room is told.
`TopicRefinement` maps `Topic` onto it. An acceptance is dated by the reading that
went into the seen map, and a caller by the instant of its validation, so the second
reading, at `Stamp`, is a stutter. Queue, buffers and subscribers are the same in both.

**Node.** One manager, one topic, one service. The actions follow `StartNodeToNode`
and `start` line by line, `Close` with its four possible callers, the accept loop (which,
when it gives up, records its error, closes the listener and cancels the service in three
steps), each outbound loop with its backoff, and each connection's handler and
`forwardErrors` goroutine. `SharedManager` says whether `Shutdown` may run during
`StartNodeToNode`: a `TopicNode` has its manager to itself until it is built. With
`ViaTopicNode` the calls are those of `NewTopicNode`, which registers its topic, starts
the service if a network is configured, and on failure shuts the manager down and
forgets it.

**Submission.** A sender S and a receiver R with one or two connections. The
replier goroutine of `replyIDs` reads the queue in one step and marks IDs in the
next. The flow tables, and the goroutine that drops an entry, are explicit. The
protocol is half duplex, so each connection has at most one message in transit.
`SharedFlows` selects the public `MessageSubmissionConfig`, which serves several
connections. S may accept a message again once its duplicate window is over, so that its queue
holds two copies: acceptances are numbered by `slog`, and the queue, the lists in transit and
the history `said` are sets of these numbers, in whose order lists are. A submission at S may
also drop live messages, as in `topic_retention`. Which messages may do what is bounded by
`Perishable`, `Outlasting`, `Overtaken` and `Elsewhere`. What R does with a message is decided
by its seen map, and otherwise left open: it may be accepted or refused.

**Signing.** Callers take the active signer, read the period, then sign under the
signer's lock. `Reload` reads the key file, then the certificate file, then swaps.
An operator may replace the two files between any two steps. The kind of signer is
chosen in the initial state, with its network: either parameters that the application
gives, or those that `NetworkParamsFromShelleyGenesis` makes of a genesis file. A
`FileSigner` comes with a period function (`file`) or without one (`fixed`, which
signs at its certificate's first period, and `configured`, which signs at `KESPeriod`), and it
takes a period that the payload already carries. A provider is asked for the period, for the
certificate and for the signature in three calls, between which other callers move the key.
A `FileSigner` ignores the network's maximum of evolutions; only the key's own
limit stops it.

**CardanoTime.** From the clock to slots and KES periods and back, and the
`ExpiresAt` that `NewOperationalCredentialStatus` reports. `MaxWord` and `MaxDuration` stand
for the limits of `uint64` and `time.Duration`: a product that does not fit is noticed where
the code uses `bits.Mul64`, wraps around where it does not, and `Time.Sub` saturates.

**LedgerPeers.** Pure functions: the relays of the three kinds of provider are converted to
ledger relays and these to peers (a relay may have several names, and a type that fits none
of them); the shares of a local-state-query answer, any fractions, are scaled to `MaxWord`;
pools are ordered by stake, the big ones chosen until they hold nine tenths; a
`PeerSelector` is a map from source and address. Host names and pool IDs are numbers in the
order of the strings; a pool without an ID is named by its index, and `Itoa` keeps the order
of decimal strings (`"10"` before `"9"`) for up to five digits. `AppendAll` (a loop that
appends list after list) and `Beside` (two maps in one) are operators of the module because
the provers can reason about their definitions.

**Discovery.** The manager's registry, and callers of `TopicPeers`. A call looks its topic
up, fetches a snapshot without a lock, stores its peers in one locked section of the
selector and reads them back in another, while the ledger changes and the manager may be
shut down. The provider, `AllowUnsupported` and the switch are chosen in the initial state.

## Runs

| Run | Shows |
|---|---|
| `topic_admission` | duplicate window, seen map, expiry rounding and retention hold for two interleaved submitters |
| `topic_fanout` | no panic, ordered delivery, nothing queued twice when `DuplicateTTL >= MaxTTL` and a second; here and in `topic_admission` the topic implements `TopicService` |
| `topic_retention` | *violated*: a live message is pruned by a submission with an older clock reading |
| `node_safety` | after `Close` returns nothing of the service runs, unless `Shutdown` met `StartNodeToNode`; peers, connections, listener errors and the registry are right even then |
| `node_live` | cancellation, a failed `Accept` and `Shutdown` each stop the service; `Shutdown` returns; a lost peer is dialled again; `NewTopicNode` returns |
| `node_start_race` | *violated*: a listener survives a `Shutdown` that meets `StartNodeToNode` |
| `node_failed_start` | *violated*: `NewTopicNode` returns its error while the listener is open |
| `submission_delivery` | acknowledgements match announcements; acceptances are announced in order, each at most once and none passed over, also when the queue holds two copies of a message or loses a live one; the pull never stalls; all this also when either context is cancelled in mid-exchange and flows are dropped under a live connection |
| `submission_reuse` | *violated*: a reused connection ID gets the old flow |
| `signing_clock` | messages are consistent, at a period of the call; refusals only across periods; a key that was not sent ahead is at a period the clock has shown; period boundaries fall where `KESPeriodStart` puts them, and a reported `ExpiresAt` is when signing stops |
| `discovery_refresh` | the ledger peers of a topic, and of an answer, are of one snapshot, no older than the call unless another refresh came between, with the configured peers beside them; big pools are the top nine tenths; providers agree on addresses (with the exceptions that `ProvidersAgree` names); `Select` keeps quotas and leaves out no peer it has room for |
| `discovery_fallback` | *violated*: the fallback for an unsupported snapshot returns ledger peers of an earlier one |

The violated runs are disagreements between the code and its own comments or
documents; `PROJECT.json` quotes each line under `findings`.

**Bounds.** `MaxClock`, `MaxCalls`, `MaxAccepted`, `MaxNow` and `MaxLoads` bound otherwise
endless behaviours. Two goroutines suffice for each race above, because each is between one
goroutine that holds a stale reading and one that acts on fresh state. The topic's limits
are at most three, so that full queues, expired windows and dropped notifications all occur.
`submission_delivery` has three acceptances of two messages in batches of two, which reach
the boundary of a request, two copies in one batch and in two, and the refusal of a message
that was announced. `node_safety` has one inbound and one outbound connection; `node_live`
has the listener and an outbound connection only, to stay small, so that an inbound
handler's end is checked for safety (`CloseMeansStopped`) and not for liveness. In both the
first delay of an outbound loop is also the longest, so that doubling always meets the cap
and its growth is not exercised (longer delays triple the states of `node_live`; the bounds
of the delay are proved for every `InitialBackoff <= MaxBackoff`, by `NodeTypeOK`);
`node_safety` gives `Shutdown` no deadline (`ShutdownDeadline`), as none of its properties
is about what `Shutdown` returns. The histories of `Submission` stop at `2 * RequestCount`
unacknowledged IDs, which only a connection whose receiver's context has ended can reach.
`signing_clock` has words up to 12, durations up to 7, KES keys of two periods and four
instants on two networks: mainnet's, made of a genesis file without a start slot and without
a maximum of its own, and one whose first slot is inside a period and whose maximum is below
the key's. Certificates begin at periods 0 and 1, so that validity ends, and the second
certificate's begins, within the run. In `discovery_refresh` a ledger of three pools changes
once, in one chain to an empty one; the stakes make nine tenths exactly and nearly, with
ties and with none; a relay is shared by two pools and by a configured peer, others have
several names or a type that fits none; each kind of provider and each answer of
`RegisterTopic` occurs. Deadlock is not checked in `Node`, `Submission` and `Signing`, since
a service that has shut down, and a bounded clock, really stop.

**Fairness.** Every goroutine that can take a step takes it (weak fairness): the Go
scheduler is preemptive and none of these steps is in a race for a lock it
could lose for ever. Timers fire. The network, applications, the clock and
contexts have no fairness, except that a message on a connection that stays up
arrives.

## Proofs

**Topic.** `TopicProofs` proves, for any sets of callers, bodies and subscribers and any
limits that satisfy `ConfigAssumption` and `WireAssumption`:

- `TopicTypeOK` and `TopicQueueBounded`;
- `TopicNoPanic`, by `SubscribersOpen`: the subscribers map holds open channels
  only. The property alone is not inductive, since it says nothing of what the next
  fanout or close will meet;
- `TopicReadingsOrdered`: a call's validation reading is at most its `now`, which is
  at most the clock, and the same for accepted messages;
- `TopicDuplicateWindow`, from `SeenUntilWindowPasses`: an accepted ID stays in the
  seen map, with the reading it was accepted with, until the real clock is past its
  window. Pruning with a stale `now` forgets too little, never too much, because
  `now` is never ahead of the clock;
- `TopicUniqueQueued`, from `QueuedAreSeen`: with `DuplicateTTL >= MaxTTL + TicksPerSecond` (the
  second because lifetimes are compared in whole ones) whatever pruning keeps
  in the queue it keeps in the seen map;
- `TopicRetained`: `RetainedUnlessOvertaken`, what is true where `topic_retention` fails;
- `TopicDeliveryInOrder`: what waits in a subscriber's buffer was accepted after what the
  subscriber has received, and in that order, however many notifications were dropped;
- `TopicPublishNeverTooFar`: the expiry that `publish` stamps is computed from a reading no later
  than the one it is validated with, and rounding to seconds does not carry it over the limit. It
  needs `DefaultTTL <= MaxTTL`, which `defaultTopicConfig` sees to, and, of a validator that cuts
  `MaxTTL` to whole seconds, a `DefaultTTL` within those.

`TopicRefinementProofs` adds, under the same assumptions:

- `TopicSeenOnlyAccepted`: each entry of the seen map is the reading of an acceptance;
- `TopicImplementsService`: `Spec => ImplementsService`, with one lemma per action of `Topic`.
  Beyond the invariants above it needs `Unanswered` (a call under way has no result yet).
  That an acceptance is fresh follows from `SeenUntilWindowPasses`; that a refusal as
  duplicate is justified, from `SeenOnlyAccepted` and pruning with the call's own reading; that a
  live message is lost only to an older call, from `ReadingsOrdered`.

**Signing.** `SigningProofs` proves, for any networks, genesis files, certificates,
callers and word sizes with `MaxDuration + CryptoMax <= MaxWord` (2^63 - 1 and 64 against
2^64 - 1 in the code):

- `BoundaryExact`, `BoundariesExact`: the clock has reached a period exactly when it has
  reached `KESPeriodStart` of it. `Time.Sub` saturates, but harmlessly, as `KESPeriodStart`
  gives no instant beyond `MaxDuration` after the start;
- `ExpiryExact`, `StatusExact`: `ExpiresAt` is when a credential stops serving. The sum of
  the certificate's period and the maximum of evolutions is not checked by the code. If it
  wrapped around, the clock would have to be more than `MaxDuration` slots past the
  network's start for the result to lie after that start; so it wraps only where no instant
  is given;
- `SigningInvariant`: the inductive invariant. Every signer has a key that matches its
  certificate, whatever was on disk when; a reload that is to swap has built one; a call
  that has read its period read it at an instant between its beginning and now
  (`Justified`). `MessagesConsistent` alone is not inductive: it says nothing of the signer
  that a call holds while it is under way;
- `SigningTypeOK` and `MessagesConsistent`;
- `PeriodsWithinCall`, `RefusedAcrossPeriods` and `KeysNotAhead`, from `ReadInv`, which adds
  where the period of each call and of each key comes from: the clock, the payload, or the
  certificate.

**Node.** `NodeProofs` proves, for any sets of peers and inbound connections and both values
of `SharedManager` and `ViaTopicNode`, `NodeTypeOK`, `NodeCloseMeansStopped`,
`NodeNoPeersAfterClose`, `NodeNoListenErrorOnClose`, `NodeShutdownLeavesNone` and
`NodeUntrackedIsClosed`. They follow from one invariant, `NodeInv` (`NodeInvariant`), because they
support one another. It says in which order one `Close` cancels, unregisters and closes
(`CloseOrder`), when a listener exists and who knows of it (`ListenerOrder`), how far
`StartNodeToNode` can be when the manager or the service is closed (`StartOrder`), and that an
open connection has a handler that will close it (`HandlerOrder`). That `Close` saw the listener
is what fails when `Shutdown` meets `StartNodeToNode`; what depends on it is therefore stated
under `~raced`, as `CloseMeansStopped` is.

**Submission.** `SubmissionProofs` proves, for any connections, messages and `RequestCount`:

- `SubmissionTypeOK`;
- `SubmissionAcksWhatWasAnnounced`, from `FlowInv`: a flow belongs to the connection it is named
  after, one side has the turn, and whoever has it knows the number of IDs that are not
  acknowledged;
- `SubmissionAnnouncedOnceInOrder` and `SubmissionNoneSkipped`, from `AnnounceInv`: what S
  remembers of a connection was announced there, and whatever is queued is remembered or was
  accepted after all that was announced. The same holds, between the
  two halves of `newIDs`, of what the first half read.

The last three assume `~SharedFlows`, as their run does; `submission_reuse` shows what becomes of
the flows otherwise.

**Discovery.** `DiscoveryProofs` proves, for any callers, topics, ledgers, configurations,
topology, static peers and quotas:

- `DiscoveryInvariant`: a topic's `PeerSelector` is determined by the slot of the snapshot
  that it holds, and what each call in progress has fetched relates to that slot. From it
  follow `DiscoveryTypeOK`, `DiscoveryOneSnapshot` and `DiscoveryFreshUnlessOvertaken`. The
  step that stores a snapshot needs that every peer is filed under its own source (`Filed`),
  so that removing by source and adding again leaves nothing of the earlier snapshot;
- `DiscoveryProvidersAgree`: the conversions of a relay lead to the same addresses. Excepted
  are, for local-state-query, a relay with names that its type is not about, or without the
  port that it asks for (`NamedByType`), and for Dingo one with a host name, an IP address
  and no port. No relay that has a name is lost;
- `DiscoveryBigPoolsAreTopStake`. The loop of `bigLedgerPeers` adds stakes in a `uint64`, so
  the theorem is under `StakeFits`: for a staked provider, the stake of the snapshot fits in
  one. If it did not, the sums would wrap around. For local-state-query it is enough that
  the shares sum up to at most one (`SharesOfOne`): each is scaled to `MaxWord` and rounded
  down, and `QueryFits` shows that the scaled ones then fit;
- `DiscoverySelectHonoursQuotas`: the loop of `Select` counts what it has chosen so far, the
  property counts over the whole list. `HasRoom` shows that both admit the same peers, since
  where a class has as many peers as its quota, the loop has already chosen that many
  (`FirstOf`).

`LedgerPeersProofs` and `SelectionProofs` hold the lemmas on the pure functions: what the
conversions return, that a list sorted by a strict order is one (`OrderedList`), that a sum
over a finite set does not depend on the order (`SumLaw`), what `addPeers` adds.

**Induction over data.** The theorems on induction of the library take an operator as a
parameter, which the installed provers cannot instantiate. Where a proof needs induction
(over a list, a sum, the loops of `AppendAll` and `Select`) it takes the least
counterexample instead (`LeastNatural`) and shows that there is a smaller one.

**Only model-checked.** Liveness under fairness, which is out of the prover's reach:
`CancelStopsService`, `ListenErrorStopsService`, `ShutdownStopsServices`, `ShutdownReturns`,
`Redials` and `NewTopicNodeReturns` of `Node`, and `Delivered` of `Submission`. And the
violated runs, each of which is a counterexample.

## Observations

Found while modelling, and not disagreements that a run could show:

- `UseLedgerAfterSlot`, `RefreshInterval` and the settings of peer sharing are stored and
  never acted on. Nothing in the package calls `PeerSelector.Select`, so `TopicPeers`
  returns peers without regard to `Target` and `BigLedgerTarget`.
- A static peer without a `Source` belongs to no quota class and escapes the topology quota.
- A `Close` that is not the first returns at once, so `Shutdown` too may return nil while another
  goroutine's `Close` of the same service is still at work. `CloseMeansStopped` is about the first
  `Close` for this reason; `node_failed_start` shows what a failing `NewTopicNode` makes of it.
- Of two overlapping reloads the one that read the older files may be the last to swap.
- A message that R refuses because its queue is full is acknowledged all the same, and not
  offered again on that connection while S keeps it (`Delivered` excepts it).
- With the default settings (`DuplicateTTL` of 10 minutes, `MaxTTL` of 30) a message that is
  resubmitted within its lifetime is queued twice.
- `dingoRelayToLedgerRelay` makes an IP relay of one that has a host name too; without a port its
  host name is then not taken for an SRV name.
- A payload with a future KES period moves a `FileSigner`'s key ahead of the clock, and
  later calls at the current period are refused (`RefusedOnlyAcrossPeriods` excepts them).

## Not modelled

- Encoding, cryptography, logging, and hooks (calls into the application).
- File formats and parsing: topology files, text envelopes, the output of the external
  signing helper. They are pure and sequential, and depend on characters.
- The handshake's contents, and the gOuroboros protocol state machine and muxer, which
  are libraries.
- `mergeDiscoveryConfig` of `topic_node.go` and the defaults that configurations receive: the
  models take configurations as they are after that.
- The table of known networks and `CurrentEpochFor`, which nothing in the package calls.
- Big-ledger snapshots: the package asks its providers only for all ledger peers.
- Several services in one manager, and clocks that run backward.

## Plan

1. Two nodes that relay to one another, with the default window shorter than
   the lifetime.
2. Several services in one manager.
