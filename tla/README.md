# Sonicpeer in TLA+

Sonicpeer is a sentry node of the Sonic network: it connects to many peers, watches
the transactions they announce, filters them and offers them to RPC subscribers,
while one trusted backend node tells it the state of the chain. This directory holds
TLA+ specifications of its core, the TLC runs that check them, and proofs that TLAPS
checks. Every definition is translated from the Go code under `src/`; `PROJECT.json`
maps each one to its lines.

## 1. The system

| Part | Code | State | Operations | Talks to |
|---|---|---|---|---|
| Peer set | `peerset.go` | map id -> peer, `closed` | RegisterPeer, UnregisterPeer, List, Len, UselessNum, PeersWithout*, Close | sessions, loops, Stop |
| Session | `service.go` MakeProtocols.Run, `handler.go` handle | where the goroutine is, `useless`, WaitGroups `wg`, `peerWG` | admission, handshake, registration, message loop, unregistration | peer set, p2p server |
| Handler life cycle | `handler.go` Start, Stop | `started`, `quitSync`, stop channels, `loopsWg` | Start, Stop | everything |
| Background loops | `handler.go`, `backend.go` | tickers | collection, maintenance, backend progress, statistics | peer set, advisor, backend |
| Handshake | `peer.go` Handshake, readStatus | `errc`, two goroutines, a timer | write status and progress, read status | remote peer |
| Message loop | `handler.go` handleMsg | `msgSemaphore`, shared | read, acquire, decode, handle, release, discard | all handlers |
| Transaction sniffing | `handler.go` handleTxHashes, handleTxs | `txHashCache` shared by all loops, `knownTxs` of a peer | mark, look up, claim, request, validate, hook | feed pump |
| Event sniffing | `handler.go` handleEventHashes, handleEvents, checkNewEpoch | `eventIDCache`, `trackedEpoch`, `knownEvents` of a peer | mark, look up, claim, request, compare and swap | not called in this commit |
| Feed pump and RPC | `service.go`, `api.go` | `txCh` (16384), the feed, subscriptions | hook, pump, subscribe, notify | RPC clients |
| Known-caches | `peer.go` txCache, eventCache | a ring, an index, a set | Add, Contains | sniffing, sending |
| Outgoing queue | `peer.go` send methods, broadcast, Close | `queue`, `queuedDataSemaphore`, `term` | try, acquire, push, write, close | remote peer |
| Epoch guard | `backend.go`, `handler.go` checkPeerStaleness | stored progress, `staleSince` | fetch on a new head, compare on ProgressMsg | backend node |
| Discovery | `handler.go` PeerInfosMsg, collection loop, savePeers, loadPeers, iterator | `discoveredNodes`, `nextSuggestedPeer` (1024), `nodes.json` | report, suggest, drop, save, load, dial | advisor, dialer, disk |
| Connection advisor | `topology/connection_advisor.go` | `neighborhood` with times | UpdatePeers, new and redundant suggestion | collection loop |
| Broadcast planning | `handler.go` BroadcastTxs, BroadcastEvent, decideBroadcastAggressiveness, `peer.go` SplitTransactions | the lists of one call | look up recipients, decide, split, hand over | outgoing queues; not called in this commit |
| Launcher and assembly | `cmd/`, `sentry.go` | main thread, signal goroutine, interrupts left, goroutine of Stop | start, announce, take a signal, count interrupts, stop, wait | node, service, handler |
| Sidecar | `sidecar/main.go` | `seen` map under `mu`, one goroutine for each subscription, the cleaner | receive, record, clean, ask for peers | RPC servers |
| `config/` | `config/` | none | flags | not imported by the program |

What is hard here: every session is a goroutine and all of them share the peer set,
the message semaphore, the hash cache and the hook; Stop has to bring down loops,
sessions and a pump that wait for each other; bounded channels and semaphores with
three different policies (drop, wait, wait with a timeout); check-then-act pairs with
the lock released in between; a loader goroutine nobody waits for beside a save
nobody waits with; a process whose end needs three threads, a node and a server that
outlives the handler; a lock that is kept during remote calls; time-outs (handshake, acquire, grace period, age of reports).
`PROJECT.json` lists the hazards with the lines where they bite and the properties
that would show them.

## 2. Modules

| Module | Models | Used with |
|---|---|---|
| `PeerRegistry` | abstract: who may be a member, and when | refined by `PeerLifecycle` |
| `PeerLifecycle` | Start, the loops, Run, handle, the peer set, Stop | `MCPeerLifecycle`, `PeerLifecycleProofs` |
| `Launcher` | the process around it: main, signals, Sentry.Stop, the node and its server | extends `PeerLifecycle`; `MCLauncher`, `PeerLifecycleProofs` |
| `TxFeed` | hook, channel, pump, feed, subscriptions | extended by `TxSniff` |
| `TxSniff` | handleTxHashes, handleTxs over the shared cache | `MCTxSniff`, `TxSniffProofs` |
| `EventSniff` | handleEventHashes, handleEvents, checkNewEpoch | extended by `Broadcast` |
| `Broadcast` | BroadcastEvent, BroadcastTxs, the decision, SplitTransactions | `MCBroadcast`, `BroadcastProofs` |
| `BoundedFifo` | abstract: a memory of the last distinct items | refined by `KnownCache` |
| `RingCache` | txCache, eventCache as operators | `KnownCache`, `PeerQueue` |
| `KnownCache` | one known-cache under any sequence of calls | extended by `PeerQueue`; `PeerQueueProofs` |
| `Outbox` | abstract: accepted messages are written in order, once, within the room | refined by `PeerQueue` |
| `PeerQueue` | senders, semaphore, queue, broadcast, Close, marks in a `KnownCache` | `MCPeerQueue`, `PeerQueueProofs` |
| `Handshake` | the handshake of a session | extended by `MsgDispatch` |
| `MsgDispatch` | the message loop and the message semaphore | `MCMsgDispatch`, `MsgDispatchProofs` |
| `EpochGuard` | NodeProgressLoop and checkPeerStaleness | `MCEpochGuard`, `EpochGuardProofs` |
| `Discovery` | advisor, collection loop, loader, nodes.json | `MCDiscovery`, `DiscoveryProofs` |
| `Sidecar` | subscriptions, record, the cleaner, time | `MCSidecar`, `SidecarProofs` |

How code becomes state and actions. A goroutine is a value of a `pc` function; an
action is what it does between two points where another goroutine can come between:
a lock, a channel operation, a WaitGroup, a read or a write of the connection. A
`WaitGroup` is the set of goroutines it counts. A channel is a sequence with a
capacity; a `select` is one action for each case, so that Go's free choice is TLC's.
Messages, transactions and nodes are model values; a transaction stands for its hash.
External parts are modelled from how `src/` uses them and marked so in the map:
`datasemaphore` (counts messages and bytes, may wait, may be terminated), `wlru`
(bounded, least recently added out first), `event.Feed` (Send waits for every
subscriber), the p2p server (closes the connection of a session that returned, asks
the iterator for nodes), the backend node.

The three places where a message is handled meet in `MsgDispatch`: there the handling
of a message succeeds or fails, and `TxSniff`, `EpochGuard` and `Discovery` say what
it does. `PeerLifecycle` leaves the handshake (succeeds or fails) to `Handshake`. `Launcher`
takes every step of `PeerLifecycle` as it is and says when Start and Stop are called
and when sessions can be accepted. The composition in `Broadcast` is of the message
loops, which mark what peers show, with the two methods that read those marks.

## 3. Runs

`event_gossip` (1.2 million states) and `lifecycle_safety` (about one million) are the
largest runs, `peer_queue` (0.6 million) the largest with liveness. Each finishes
within three minutes on two workers.

| Run | Shows |
|---|---|
| `lifecycle_safety` | `LifecycleInv` (the inductive invariant), `PeerSetOwned`, `ClosedDisconnects`, `StoppedIsEmpty`, and `ImplementsRegistry`: three sessions, two of one node, one slot, one trusted node |
| `lifecycle_liveness` | `ReturnedIsQuiet`, `StopReturns`, `ShutdownCompletes` of the whole process, two sessions and two loops, two interrupts, end points that may fail, a backend that accepts the subscription |
| `stop_hangs` | violation of `StopReturns` when the backend refuses it |
| `tx_pipeline` | `ClaimedOnce`, `PushedIsHooked`, `NothingMissed`, `LoopsReturn`, `PumpEnds`: two loops, two transactions, a cache of one entry (so that evictions happen), a channel of one, a subscription of one |
| `tx_announced_lost` | violation of `ReceivedIsHooked` |
| `event_gossip` | `AskedOnce`, `OfferedOnce`, `BatchesCover`, `TrackedFollows`: two loops, two events of different epochs, a cache of one entry, a batch of three transactions of two sizes; the peers send three items in all (`MaxInputs`) |
| `peer_queue` | `PermitsAccounted`, `RoomForHolders`, `KnownIsJustified`, `CloseReleases`, `RingMatchesSet`, `ImplementsFifo`, `ImplementsOutbox`: two senders with calls of every kind, sizes 1 and 2 with room for 3, a ring of two that turns |
| `msg_dispatch` | `RoomAccounted`, `OkIsVerified`, `GoroutinesEnd` (but for the case of section 4), `SessionEnds`: two sessions, room for two bytes |
| `slow_read` | violation of `ReadingTakesNoRoom` |
| `epoch_guard` | `GuardInv`, `LocalNeverBack`, `AgreementForgives`, `LaggardsLeave`, `LocalCatchesUp`: three epochs, a grace period of one tick |
| `discovery` | `TypeOK`, `SaveKeepsLoaded`, `WarmStart`, `StopFinishes`: two nodes that report each other, one slot, a channel of one, any number of restarts, crashes and failed writes |
| `sidecar` | `AnnouncementsAccounted`, `TrackedNotLong`, `ReceivedIsRecorded`: the sentry and two standard nodes, one hash announced twice by each, a window of two periods, calls that may take longer than a period |

Why the bounds are enough. Races here are between two goroutines over one object, so
two of each (three sessions where a refused one must also meet a registered one) show
every order. Limits (slots, channels, caches, permits) are one to three, so that they
are reached and passed, turned around and emptied again. `MaxMsgs`, `MaxSends`,
`MaxSubs`, `MaxEpoch`, `MaxInputs` and `MaxAnnounced` bound how often something is
done. `MaxMsgs` and `MaxSubs` are 1: each loop gets one message (of up to two
transactions), and a subscription is made once and may end at any time. That it can
be made *again* and still misses and repeats nothing is not seen in the run; the
theorem `SubscriptionComplete` covers it, for any number of times (the model is the
same with `MaxSubs = 2`, which TLC has also been through without an error, but it
takes most of five minutes). In `discovery` no node reports the local one, which would
make the run too large; that it never becomes a candidate is proved (`TypesHold`). Ages in `EpochGuard` stop one tick after the grace
period, where the code no longer tells them apart. Sessions of `PeerLifecycle` are
slots that are used again without a bound. `MaxHold` of `Sidecar` is not a bound but
an assumption: the code gives its calls no timeout, so how long they take is for the
nodes to say. The limits of `Broadcast` are scaled down (a batch is full at 4 bytes
instead of 2 MB), its ages are the code's thresholds and beyond.

Deadlock checking is off where the system may come to rest: all messages sent and
everything stopped, or the process over (`TxSniff`, `PeerQueue`, `MsgDispatch`,
`Broadcast`, `Launcher`). `discovery` needs no
exception for the program's part (a new process may always start); it is off there
because a stopped process may also never be started again.

### Fairness

Each module states its own, next to `FairSpec`. In all of them a goroutine that can
run does run (weak fairness of its steps), and nothing makes the outside act: no peer
has to connect, send, report, behave or hang up, Stop need not be called, no
subscriber has to stay. Strong fairness appears where Go's `select` chooses among
ready cases: a closed stop channel or `quitSync` is taken in the end although ticks
or items keep coming; a sender blocked on a channel is served before later senders
(the loader of `Discovery`); a fetch from the backend succeeds again and again. What
ends by a timer has weak fairness on its end: the handshake (15 s), the wait for the
message semaphore, Acquire in the Enqueue methods, a notification (write deadline of
the connection). The dialer asks for nodes only while there is room for peers.

`Launcher` adds the fairness of its own threads and of the node's shutdown, but none of
a signal and none of `Announced`: nobody has to read an announcement, so the signal
goroutine may never start, and `ShutdownCompletes` begins when a signal is taken. In
`Sidecar` time goes on, the cleaner runs and its calls end within `MaxHold`; recording
has strong fairness because a Go mutex hands over to the goroutine that has waited
longest. `Broadcast` states no fairness: its properties are safety properties.

## 4. Disagreements between the code and what is said of it

* `stop_hangs`: NodeProgressLoop returns on a failed subscription before
  `defer wg.Done()`, and Stop waits for it for ever.
* `tx_announced_lost`: a hash that was announced is cached at once; when its
  transaction comes it is taken for a duplicate and never reaches the hook.
* `slow_read`: the semaphore is acquired before the payload is decoded, the test
  `TestHandleMsg_SlowRead_SemaphoreRelease` says it is not. (A connection that buffers
  whole messages, as the p2p server's does, makes the decoding short; the test's
  reader does not buffer.)

Seen while modelling, without a run of their own: a handshake whose status could not
be written reports three values on a channel of two (peer.go:533), and when the timer
fires before the session has taken one, nobody takes them and a goroutine waits for
ever (`OneLeftBehind`; `GoroutinesEnd` shows that this is the only way); the cap on useless peers
(handler.go:330) counts registered peers only and can be passed by sessions that are
admitted together; a session can count itself in `handler.wg` after Stop has waited
for it (handler.go:286); the Enqueue methods mark what they could not queue as known
(peer.go:336); a peer *ahead* of a backend that stands still is dropped although the
changelog speaks of lagging peers; a mismatch of epochs that was over before the next
report still counts as lasting; the pump waits for the slowest subscriber although
the changelog calls it non-blocking; a Stop before the loader is through overwrites `nodes.json` without the nodes it has
not reached (handler.go:973; CHANGELOG.md:9 says that known nodes are kept); failed
RPC endpoints make Start wait for sessions that wait for Start (service.go:145);
announcements that nobody reads keep the signal goroutine from starting
(launcher.go:148); after the tenth interrupt debug.Exit flushes profiles and returns,
so the process does not panic.

Of the sidecar: a third announcement of a hash starts a new record after the pair and
may be counted as an orphan although both nodes had the hash (Help strings at
sidecar/main.go:28-36); the delta is taken after waiting for the lock, so its size,
and its sign, may differ from the order of arrival; the calls of the cleaner run
under the lock and have no timeout.

Code without a caller: nothing in this commit calls BroadcastTxs, BroadcastEvent,
handleEvents, handleEventHashes (nor checkNewEpoch but from these two), the Enqueue
methods or AsyncSendProgress; sendItem, asyncSendEncodedItem and the other AsyncSend
methods are reached from the two Broadcast methods only. So nothing enters the
outgoing queue of a running node, whose broadcast goroutine and Close do run. What
`event_gossip` and the senders of `peer_queue` show holds for these methods as they
are written. Of the same code: the default ThroughputImportance of 0
(config.go:108-109) makes decideBroadcastAggressiveness choose everyone
(handler.go:659), and its disjunct `passed == 0` is never the one that decides.

## 5. Proofs

`PeerLifecycleProofs` (for any finite or infinite sets of sessions, ids and loops,
from `LifecycleAssumption`):
* `LifecycleInvariant`: `Spec => []LifecycleInv`. The invariant is inductive: to the
  properties it adds what each WaitGroup counts (exactly the sessions whose `pc` is in
  the counted part of Run or handle), that the gate is closed exactly from
  `StopClosePeers` on, and that when `wg.Wait` is over nobody is registered. Without
  the counting the last part does not follow from a step: Stop knows the set is empty
  only because a registered session is counted.
* `OwnershipHolds`, `DisconnectionHolds`, `EmptinessHolds` follow from it.
* `RegistryRefined`: `Spec => ImplementsRegistry`; each action maps to a step of
  `PeerRegistry` or leaves its variables alone.
* `LaunchInvariant`: `LaunchSpec => []LaunchInv`, for the whole process and any number
  of end points and interrupts. A step of `Launcher` is a step of the handler, a step that
  leaves it alone, or the disconnections of the p2p server (`LaunchStep`), so
  `LifecycleInv` holds there too. `LoopsInv` says which loops are counted,
  `ProcessInv` how the flags of main, the signal goroutine, Stop, the node and its
  server go together.
* `ProcessEndsQuiet`: `LaunchSpec => []ReturnedIsQuiet`. handler.Stop may return while
  a late session runs (a WaitGroup does not count it yet); the process is quiet all the
  same because main waits for the node, the node for the server, and the server is down
  only when every session is off.
* `RegistryInProcess`: the process implements `PeerRegistry` as well.

`PeerQueueProofs` (for any finite or infinite set of senders, any hashes and sizes, and
every limit and capacity > 0). First the cache:
* `RingInvariant`: ring and set agree, without repetitions, within the capacity.
* `FifoRefined`: the ring read from its eviction index on is the FIFO memory of
  `BoundedFifo`; the lemmas say what a turn of the ring does to that reading.
* `RingInUse`, `FifoInUse`: both in every behaviour of the queue, whoever adds.

Then the queue. Its inductive invariant is `QueueInv`: the types, that a sender inside a
send method and the goroutine inside a write have a hash in hand, and the two equations
of `PermitsAccounted`. That only finitely many permits are out belongs to it: without
it the sums need not be numbers. A sum of sizes is the number of the bytes, each a pair
of a place and an offset (`Bytes`), so that the library's facts about cardinalities say
what an Append, a Tail or another sender does to it.
* `PermitsConserved`: `Spec => []PermitsAccounted`.
* `HoldersFindRoom`: `Spec => []RoomForHolders`, from the equation of numbers and the
  limit: a sender with a permit is counted and not in the queue.
* `MarksJustified`: `Spec => []KnownIsJustified`. Not inductive as it stands: a sender
  about to mark its hash must have the reason for it already, and an addition to the
  ring makes no other hash known.
* `OutboxRefined`: `Spec => ImplementsOutbox`. Each action accepts a message, writes the
  oldest, or stutters; that an accepting step finds room in `Outbox`, where a message
  keeps its place until it is written, needs `QueueInv`.

`EpochGuardProofs` (for any peers, grace period and last epoch):
* `GuardInvariant`: `Spec => []GuardInv`, inductive: the types, the order localEpoch <=
  fetched <= backendEpoch, and that no stamp is older than its peer's last agreement.
* `LocalEpochNeverBack`: a late store cannot take the local epoch back, because what
  was fetched is never behind what is stored.
* `AgreementIsForgiven`: a peer is dropped only by a stamp older than the grace
  period, and then its last agreement is at least as old.

`TxSniffProofs` (for any peers, transactions, prices, caches and subscriptions):
* `OnceClaimed`: `Spec => []ClaimedOnce`, with the types. Not inductive as it stands: a
  hash that is not in the cache was evicted as often as a loop claimed it, and the same
  must be known of the hash a loop has looked up and not yet added.
* `PushedReachesHook`: needs why a hash is in the cache: announced, hooked, or in the
  hands of a loop that will hook it.
* `SubscriptionComplete`: needs who is subscribed, that nobody is owed anything between
  two Sends, and the four ways in which concatenations are regrouped (`Moves`).

`BroadcastProofs` (for any events, transactions, cache, epochs, sizes and settings, and
any finite set of peers, as a map in memory is; the size limit of a batch is not zero,
2 MB in the code):
* `OnceAsked`, by the same argument for events, and `TrackedEpochFollows`, because what a
  loop has read of the backend is never ahead of it.
* `OnceOffered`: `Spec => []OfferedOnce`. What is added to it (`OfferInv`) is that the whole
  event went to no more than the quota; the equation of the last conjunct appears with
  the first id, when the guard of the code finds the quota or the worthy exhausted.
* `BatchesComplete`: `Spec => []BatchesCover`. A batch is the least prefix that reaches a
  limit; least elements and the laws of FlattenSeq (a recursive function in
  SequencesExt) are proved by least counterexample, from the well-foundedness of `<` on
  the naturals (`WFMin`), which needs no induction theorem with an operator parameter.
* `AgeNeverAdds`: the decision is monotone: with any setting, a later broadcast of the
  same event goes whole to no more peers.

`MsgDispatchProofs` (for any sessions, finitely or infinitely many, and any messages and
limits): `RoomCounted`, `Spec => []RoomAccounted`, whose invariant adds that only finitely
many sessions hold room, and what a message with room may be; and `HandshakeVerified`. The
session counts results without knowing whose they are; the invariant accounts for
each nil taken or waiting by a goroutine that did its work, and a connection that is
down stays down, so the goroutine that reports twice reports errors.

`DiscoveryProofs` (for any nodes, reports and limits): `TypesHold` and
`LoadedIsSaved`: of an intact file a running process has recorded every node the
loader has no longer to do.

`SidecarProofs` (for any subscriptions, hashes, window, period and bound on the calls):
`Accounting`, one counter at a time, and `WaitIsBounded`, from the age an entry can
have in each phase of the ticker and of the calls.

Every invariant and every action property of a passing run, and each of the three
refinements (`PeerRegistry`, `BoundedFifo`, `Outbox`), is stated by a theorem. TLC checks
the inductive invariants of the other modules through the properties they imply;
`LifecycleInv` and `GuardInv` are invariants of runs themselves.

Model-checked only: the liveness properties, whose proofs need fairness and ENABLED,
beyond this prover: `StopReturns`, `ShutdownCompletes`, `LoopsReturn`, `PumpEnds`,
`CloseReleases`, `GoroutinesEnd`, `SessionEnds`, `LaggardsLeave`, `LocalCatchesUp`,
`WarmStart`, `StopFinishes` and `ReceivedIsRecorded`.

## 6. Not modelled

End-point addresses and the requests for them (they change no state this side reads
but the age of an address); the public and net API (reads of one atomic each);
SplitEvents (the loop of SplitTransactions over events); products beyond 64 bits in
decideBroadcastAggressiveness; building the node and mapping configuration fields;
flag parsing; the legacy configuration package, which the program does not import;
metrics, the value of the sidecar's delta, and logging.

## 7. Plan

Done: life cycle, registry, launcher and their proofs; known-caches, outgoing queue and
its abstract specification, and their proofs; transactions and events with their
proofs; epoch guard and its proofs; handshake and message loop with their proofs;
discovery and its proofs; broadcast planning and its proofs; sidecar and its proofs.

Left to prove, where it is within reach: the safety that the liveness properties rest on
(what a waiting goroutine waits for is still there: a closed `quitSync`, a counted
session, a terminated semaphore), and facts about the decision of
`Broadcast` other than its monotonicity in age.
