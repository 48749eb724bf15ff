----------------------------- MODULE EventSniff ------------------------------
(***************************************************************************)
(* What the handler does with announced and delivered events: the message   *)
(* loops run handleEventHashes and handleEvents concurrently over the one   *)
(* cache of seen event ids, and keep the highest epoch they have seen at    *)
(* the backend.  The handlers are those of the code; its handleMsg skips    *)
(* the event messages and calls neither.                                    *)
(*                                                                          *)
(* The epoch of the backend client only grows (EpochGuard).                 *)
(***************************************************************************)
EXTENDS Naturals, Sequences, FiniteSets, FiniteSetsExt, SequencesExt

CONSTANTS
    Peers,
    Events,
    EpochOf,       \* epoch of each event, part of its id
    MaxEpoch,      \* bound: last epoch of the backend
    CacheCap,      \* entries of eventIDCache
    SoftLimit,     \* softLimitItems
    MaxInputs      \* bound: items that all peers send

ASSUME EventSniffAssumption ==
    /\ MaxEpoch \in Nat \ {0}
    /\ EpochOf \in [Events -> 1..MaxEpoch]
    /\ CacheCap \in Nat \ {0} /\ SoftLimit \in Nat \ {0}
    /\ MaxInputs \in Nat

VARIABLES
    epoch,         \* backendClient.GetEpoch
    trackedEpoch,
    eventIDCache,  \* seen ids, the most recently added first
    knownEvents,   \* knownEvents[p]: ids marked as known to p
    progress,      \* progress[p]: the epoch p has reported, 0 before
    pc,            \* pc[p]: where the message loop of p is
    kind,          \* kind[p]: the handler it is in, or none
    current,       \* current[p]: checkNewEpoch: what it read of the backend
    tracked,       \* tracked[p]: ... and of trackedEpoch
    todo,          \* todo[p]: items not yet handled
    toRequest,     \* toRequest[p]: ids the loop will ask p for
    inputs,        \* items received
    claims,        \* history: claims[p][e]: times p's loop added e to request it
    evictions      \* history: evictions[e]: times the cache evicted e

checkVars == <<current, tracked>>
itemVars  == <<todo, toRequest, inputs>>
cacheVars == <<eventIDCache, claims, evictions>>
peerVars  == <<knownEvents, progress>>
sniffVars == <<epoch, trackedEpoch, cacheVars, peerVars, pc, kind, checkVars, itemVars>>

SniffInit ==
    /\ epoch = 1 /\ trackedEpoch = epoch
    /\ eventIDCache = <<>>
    /\ knownEvents = [p \in Peers |-> {}]
    /\ progress = [p \in Peers |-> 0]
    /\ pc = [p \in Peers |-> "read"]
    /\ kind = [p \in Peers |-> "none"]
    /\ current = [p \in Peers |-> 0]
    /\ tracked = [p \in Peers |-> 0]
    /\ todo = [p \in Peers |-> <<>>]
    /\ toRequest = [p \in Peers |-> <<>>]
    /\ inputs = 0
    /\ claims = [p \in Peers |-> [e \in Events |-> 0]]
    /\ evictions = [e \in Events |-> 0]

Goto(p, from, to) == pc[p] = from /\ pc' = [pc EXCEPT ![p] = to]

-----------------------------------------------------------------------------
(* The backend client stores a later epoch.                                 *)
EpochAdvances ==
    /\ epoch < MaxEpoch
    /\ epoch' = epoch + 1
    /\ UNCHANGED <<trackedEpoch, cacheVars, peerVars, pc, kind, checkVars, itemVars>>

(* A peer reports its progress.                                             *)
Progress(p) ==
    /\ pc[p] = "read"
    /\ inputs < MaxInputs /\ inputs' = inputs + 1
    /\ \E n \in (progress[p] + 1)..MaxEpoch : progress' = [progress EXCEPT ![p] = n]
    /\ UNCHANGED <<epoch, trackedEpoch, cacheVars, knownEvents, pc, kind, checkVars, todo,
                   toRequest>>

(* A message of ids or of events; checkNewEpoch begins and reads the epoch  *)
(* of the backend.                                                          *)
Receive(p) ==
    /\ Goto(p, "read", "load")
    /\ \E n \in 1..(MaxInputs - inputs), k \in {"ids", "events"} :
        /\ inputs' = inputs + n
        /\ kind' = [kind EXCEPT ![p] = k]
        /\ \E items \in [1..n -> Events] : todo' = [todo EXCEPT ![p] = items]
    /\ current' = [current EXCEPT ![p] = epoch]
    /\ UNCHANGED <<epoch, trackedEpoch, cacheVars, peerVars, tracked, toRequest>>

(* checkNewEpoch loads trackedEpoch ...                                     *)
LoadTracked(p) ==
    /\ Goto(p, "load", "swap")
    /\ tracked' = [tracked EXCEPT ![p] = trackedEpoch]
    /\ UNCHANGED <<epoch, trackedEpoch, cacheVars, peerVars, kind, current, itemVars>>

(* ... and raises it if nobody else has changed it since.                   *)
MaySwapBlindly(p) == current[p] > tracked[p]
MaySwap(p) == current[p] > tracked[p] /\ trackedEpoch = tracked[p]
Swap(p) ==
    /\ Goto(p, "swap", "item")
    /\ trackedEpoch' = IF MaySwap(p) THEN current[p] ELSE trackedEpoch
    /\ current' = [current EXCEPT ![p] = 0]
    /\ tracked' = [tracked EXCEPT ![p] = 0]
    /\ UNCHANGED <<epoch, cacheVars, peerVars, kind, itemVars>>

-----------------------------------------------------------------------------
(* eventIDCache: external, an LRU cache whose calls lock it one by one.     *)
Cached(e) == e \in ToSet(eventIDCache)
Trim(q) == SubSeq(q, 1, IF Len(q) > CacheCap THEN CacheCap ELSE Len(q))
CacheNothing(e) == eventIDCache
CacheEvent(e) == Trim(<<e>> \o RemoveFirst(eventIDCache, e))

Cache(e) ==
    /\ eventIDCache' = CacheEvent(e)
    /\ evictions' = [x \in Events |-> evictions[x] +
                      (IF x \in ToSet(eventIDCache) \ ToSet(eventIDCache') THEN 1 ELSE 0)]

(* The next item, the request after the last id, the next message.          *)
Advance(p, from) ==
    /\ todo' = [todo EXCEPT ![p] = Tail(@)]
    /\ LET to == IF Len(todo[p]) > 1 THEN "item"
                 ELSE IF kind[p] = "ids" THEN "request" ELSE "read"
       IN /\ Goto(p, from, to)
          /\ kind' = IF to = "read" THEN [kind EXCEPT ![p] = "none"] ELSE kind

(* The id is marked and looked up; an event of another epoch than the       *)
(* backend's is looked up by nobody.                                        *)
Skips(p, e) == kind[p] = "events" /\ EpochOf[e] # epoch
Item(p) ==
    LET e == Head(todo[p]) IN
    /\ pc[p] = "item"
    /\ knownEvents' = [knownEvents EXCEPT ![p] = @ \cup {e}]
    /\ IF Skips(p, e) \/ Cached(e)
       THEN Advance(p, "item")
       ELSE Goto(p, "item", "add") /\ UNCHANGED <<todo, kind>>
    /\ UNCHANGED <<epoch, trackedEpoch, cacheVars, progress, checkVars, toRequest, inputs>>

(* It is added to the cache and, when it was announced, to the request.     *)
AddItem(p) ==
    LET e == Head(todo[p]) IN
    /\ pc[p] = "add"
    /\ Cache(e)
    /\ IF kind[p] = "ids"
       THEN /\ toRequest' = [toRequest EXCEPT ![p] = Append(@, e)]
            /\ claims' = [claims EXCEPT ![p][e] = @ + 1]
       ELSE UNCHANGED <<toRequest, claims>>
    /\ Advance(p, "add")
    /\ UNCHANGED <<epoch, trackedEpoch, peerVars, checkVars, inputs>>

(* RequestEvents sends one batch; a failed send gives up the rest.          *)
RequestBatch(p) ==
    /\ pc[p] = "request"
    /\ \E left \in {SubSeq(toRequest[p], SoftLimit + 1, Len(toRequest[p])), <<>>} :
        /\ toRequest' = [toRequest EXCEPT ![p] = left]
        /\ IF left = <<>>
           THEN Goto(p, "request", "read") /\ kind' = [kind EXCEPT ![p] = "none"]
           ELSE UNCHANGED <<pc, kind>>
    /\ UNCHANGED <<epoch, trackedEpoch, cacheVars, peerVars, checkVars, todo, inputs>>

-----------------------------------------------------------------------------
HandleEvent(p) ==
    LoadTracked(p) \/ Swap(p) \/ Item(p) \/ AddItem(p) \/ RequestBatch(p)

SniffNext ==
    \/ EpochAdvances
    \/ \E p \in Peers : Progress(p) \/ Receive(p) \/ HandleEvent(p)

-----------------------------------------------------------------------------
(* Properties.                                                              *)

SniffTypeOK ==
    /\ epoch \in 1..MaxEpoch /\ trackedEpoch \in 1..MaxEpoch
    /\ eventIDCache \in Seq(Events) /\ Len(eventIDCache) <= CacheCap
    /\ knownEvents \in [Peers -> SUBSET Events]
    /\ progress \in [Peers -> 0..MaxEpoch]
    /\ pc \in [Peers -> {"read", "load", "swap", "item", "add", "request"}]
    /\ kind \in [Peers -> {"none", "ids", "events"}]
    /\ current \in [Peers -> 0..MaxEpoch] /\ tracked \in [Peers -> 0..MaxEpoch]
    /\ todo \in [Peers -> Seq(Events)] /\ toRequest \in [Peers -> Seq(Events)]

(* A loop asks its peer for an event once, and again only after the cache   *)
(* has evicted its id, however announcements and deliveries of all peers    *)
(* interleave (handleEventHashes, handleEvents).                            *)
AskedOnce ==
    /\ SniffTypeOK
    /\ \A p \in Peers, e \in Events : claims[p][e] <= 1 + evictions[e]

(* The tracked epoch follows the backend's: no loop that was overtaken      *)
(* between its reads and its write takes it back or beyond (checkNewEpoch). *)
TrackedFollows ==
    [][trackedEpoch' >= trackedEpoch /\ trackedEpoch' <= epoch']_sniffVars
=============================================================================
