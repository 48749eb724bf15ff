--------------------------- MODULE BroadcastProofs ---------------------------
(***************************************************************************)
(* That a loop asks for an event once, that the tracked epoch only follows  *)
(* the backend's, and that a broadcast leaves no peer and no transaction    *)
(* out, for any peers, events, transactions, caches, limits and decisions.  *)
(*                                                                          *)
(* AskedOnce is not inductive: that an id which is not in the cache has     *)
(* been evicted as often as it was asked for must also be known for the id  *)
(* that a loop has looked up and not yet added, although others may add it  *)
(* meanwhile.  TrackedFollows needs that what a loop has read of the        *)
(* backend is not ahead of it.  OfferedOnce needs that the payload went to  *)
(* worthy peers within the quota only, BatchesCover that the form of what a *)
(* peer still gets is that of what it got.                                  *)
(***************************************************************************)
EXTENDS Broadcast, SequenceTheorems, FiniteSetTheorems, TLAPS

InCache(e) == e \in ToSet(eventIDCache)

ItemOK == bpc = "events" => item \in Events

Counters ==
    /\ claims \in [Peers -> [Events -> Nat]]
    /\ evictions \in [Events -> Nat]

HasItems == \A p \in Peers : pc[p] \in {"load", "swap", "item", "add"} => todo[p] # <<>>

Asked ==
    \A p \in Peers, e \in Events :
        claims[p][e] <= evictions[e] + (IF InCache(e) THEN 1 ELSE 0)

Adding ==
    \A p \in Peers : pc[p] = "add" =>
        claims[p][Head(todo[p])] <= evictions[Head(todo[p])]

Behind ==
    /\ trackedEpoch <= epoch
    /\ \A p \in Peers : current[p] <= epoch

IInv ==
    /\ SniffTypeOK /\ inputs \in Nat /\ ItemOK
    /\ Counters /\ HasItems /\ Asked /\ Adding /\ Behind

LEMMA InitIInv == Init => IInv
  <1> SUFFICES ASSUME Init PROVE IInv
    OBVIOUS
  <1>1. /\ epoch = 1 /\ trackedEpoch = 1 /\ 1 \in 1..MaxEpoch /\ 0 \in 0..MaxEpoch
        /\ eventIDCache = <<>> /\ bpc = "idle" /\ inputs = 0
    BY EventSniffAssumption DEF Init, SniffInit
  <1>2. SniffTypeOK
    BY <1>1, EventSniffAssumption DEF Init, SniffInit, SniffTypeOK
  <1>3. ItemOK /\ Counters /\ HasItems /\ Adding
    BY <1>1 DEF Init, SniffInit, ItemOK, Counters, HasItems, Adding
  <1>4. Asked /\ Behind
    BY <1>1 DEF Init, SniffInit, Asked, Behind
  <1>5. QED
    BY <1>1, <1>2, <1>3, <1>4 DEF IInv

-----------------------------------------------------------------------------
(* The least of some numbers: how what holds for a first one is shown.      *)
LEMMA LeastNat ==
    ASSUME NEW I \in SUBSET Nat, I # {} PROVE \E x \in I : \A y \in I : x <= y
  <1> DEFINE R == {ss \in Nat \X Nat : ss[1] < ss[2]}
  <1>1. IsWellFoundedOn(R, Nat)
    BY NatLessThanWellFounded DEF OpToRel
  <1> HIDE DEF R
  <1>2. PICK x \in I : \A y \in I : <<y, x>> \notin R
    BY <1>1, WFMin
  <1>3. \A y \in I : x <= y
    <2> SUFFICES ASSUME NEW y \in I PROVE x <= y
      OBVIOUS
    <2>1. x \in Nat /\ y \in Nat /\ ~(y < x)
      BY <1>2 DEF R
    <2>2. QED
      BY <2>1
  <1>4. QED
    BY <1>3

-----------------------------------------------------------------------------
(* The cache.                                                               *)

LEMMA RemoveFirstType ==
    ASSUME NEW q \in Seq(Events), NEW e
    PROVE  RemoveFirst(q, e) \in Seq(Events)
  <1>1. CASE \E i \in 1..Len(q) : q[i] = e
    <2>1. PICK i \in 1..Len(q) : RemoveFirst(q, e) = RemoveAt(q, i)
      <3> DEFINE I == {i \in 1..Len(q) : q[i] = e}
      <3>1. I \in SUBSET Nat /\ I # {}
        BY <1>1
      <3>2. PICK x \in I : \A y \in I : x <= y
        <4> HIDE DEF I
        <4>1. QED
          BY <3>1, LeastNat
      <3>3. Min(I) \in I
        BY <3>2 DEF Min
      <3>4. RemoveFirst(q, e) = RemoveAt(q, Min(I))
        BY <1>1, <3>1 DEF RemoveFirst, SelectInSeq
      <3>5. QED
        BY <3>3, <3>4
    <2>2. /\ SubSeq(q, 1, i - 1) \in Seq(Events)
          /\ SubSeq(q, i + 1, Len(q)) \in Seq(Events)
      BY SubSeqProperties, LenProperties, ElementOfSeq
    <2>3. QED
      BY <2>1, <2>2, ConcatProperties DEF RemoveAt
  <1>2. CASE ~\E i \in 1..Len(q) : q[i] = e
    BY <1>2 DEF RemoveFirst
  <1>3. QED
    BY <1>1, <1>2

(* What was added is the first entry, and nothing is over the capacity.     *)
LEMMA CacheProperties ==
    ASSUME eventIDCache \in Seq(Events), NEW e \in Events
    PROVE  /\ CacheEvent(e) \in Seq(Events) /\ Len(CacheEvent(e)) <= CacheCap
           /\ e \in ToSet(CacheEvent(e))
  <1> DEFINE q == <<e>> \o RemoveFirst(eventIDCache, e)
             n == IF Len(q) > CacheCap THEN CacheCap ELSE Len(q)
  <1>1. q \in Seq(Events) /\ Len(q) \in Nat /\ Len(q) >= 1 /\ q[1] = e
    <2>1. <<e>> \in Seq(Events) /\ Len(<<e>>) = 1 /\ <<e>>[1] = e
      OBVIOUS
    <2>2. RemoveFirst(eventIDCache, e) \in Seq(Events)
      BY RemoveFirstType
    <2>3. QED
      BY <2>1, <2>2, ConcatProperties, LenProperties
  <1> HIDE DEF q
  <1>2. n \in 1..Len(q) /\ n <= CacheCap
    BY <1>1, EventSniffAssumption
  <1>3. \A i \in 1..n : q[i] \in Events
    BY <1>1, <1>2, ElementOfSeq
  <1>4. SubSeq(q, 1, n) \in Seq(Events) /\ Len(SubSeq(q, 1, n)) = n
        /\ SubSeq(q, 1, n)[1] = e
    BY <1>1, <1>2, <1>3, SubSeqProperties
  <1>5. CacheEvent(e) = SubSeq(q, 1, n)
    BY DEF CacheEvent, Trim, q
  <1>6. QED
    BY <1>2, <1>4, <1>5, LenProperties DEF ToSet

-----------------------------------------------------------------------------
(* The steps.                                                               *)

LoopVars == <<epoch, trackedEpoch, cacheVars, pc, kind, checkVars, todo, toRequest>>

(* A step that only reports, marks or broadcasts.                           *)
LEMMA MarkingKeeps ==
    ASSUME IInv, UNCHANGED LoopVars, inputs' \in Nat, ItemOK',
           knownEvents' \in [Peers -> SUBSET Events], progress' \in [Peers -> 0..MaxEpoch]
    PROVE  IInv'
  <1>1. UNCHANGED <<epoch, trackedEpoch, eventIDCache, claims, evictions, pc, kind, current,
                    tracked, todo, toRequest>>
    BY DEF LoopVars, cacheVars, checkVars
  <1>2. SniffTypeOK'
    BY <1>1 DEF IInv, SniffTypeOK
  <1>3. Counters' /\ HasItems' /\ Asked' /\ Adding' /\ Behind'
    BY <1>1 DEF IInv, Counters, HasItems, Asked, InCache, Adding, Behind
  <1>4. QED
    BY <1>2, <1>3 DEF IInv

LEMMA EpochKeeps ==
    ASSUME IInv, EpochAdvances, UNCHANGED <<bpc, item>>
    PROVE  IInv'
  <1>1. /\ epoch' = epoch + 1 /\ epoch' \in 1..MaxEpoch
        /\ UNCHANGED <<trackedEpoch, eventIDCache, claims, evictions, knownEvents, progress, pc,
                       kind, current, tracked, todo, toRequest, inputs>>
    BY EventSniffAssumption
    DEF EpochAdvances, IInv, SniffTypeOK, cacheVars, peerVars, checkVars, itemVars
  <1>2. SniffTypeOK' /\ ItemOK'
    BY <1>1 DEF IInv, SniffTypeOK, ItemOK
  <1>3. Behind'
    BY <1>1, EventSniffAssumption DEF IInv, SniffTypeOK, Behind
  <1>4. Counters' /\ HasItems' /\ Asked' /\ Adding'
    BY <1>1 DEF IInv, Counters, HasItems, Asked, InCache, Adding
  <1>5. QED
    BY <1>1, <1>2, <1>3, <1>4 DEF IInv

LEMMA ProgressKeeps ==
    ASSUME IInv, NEW p \in Peers, Progress(p), UNCHANGED <<bpc, item>>
    PROVE  IInv'
  <1>1. UNCHANGED LoopVars /\ inputs' \in Nat /\ ItemOK' /\ knownEvents' = knownEvents
    BY DEF Progress, LoopVars, IInv, ItemOK
  <1>2. progress' \in [Peers -> 0..MaxEpoch]
    BY EventSniffAssumption DEF Progress, IInv, SniffTypeOK
  <1>3. QED
    BY <1>1, <1>2, MarkingKeeps DEF IInv, SniffTypeOK

LEMMA ReceiveKeeps ==
    ASSUME IInv, NEW p \in Peers, Receive(p), UNCHANGED <<bpc, item>>
    PROVE  IInv'
  <1>1. /\ UNCHANGED <<epoch, trackedEpoch, eventIDCache, claims, evictions, knownEvents,
                       progress, tracked, toRequest>>
        /\ pc' = [pc EXCEPT ![p] = "load"]
        /\ current' = [current EXCEPT ![p] = epoch]
    BY DEF Receive, Goto, cacheVars, peerVars
  <1>2. PICK n \in 1..(MaxInputs - inputs) : \E k \in {"ids", "events"} :
            /\ inputs' = inputs + n
            /\ kind' = [kind EXCEPT ![p] = k]
            /\ \E items \in [1..n -> Events] : todo' = [todo EXCEPT ![p] = items]
    BY DEF Receive
  <1>3. PICK items \in [1..n -> Events] : todo' = [todo EXCEPT ![p] = items]
    BY <1>2
  <1>4. n \in Nat \ {0} /\ items \in Seq(Events) /\ items # <<>> /\ inputs' \in Nat
    <2>1. n \in Nat \ {0}
      BY EventSniffAssumption DEF IInv
    <2>2. items \in Seq(Events) /\ Len(items) = n
      BY <2>1, SeqDef
    <2>3. QED
      BY <1>2, <2>1, <2>2 DEF IInv
  <1>5. SniffTypeOK'
    <2>1. todo' \in [Peers -> Seq(Events)] /\ kind' \in [Peers -> {"none", "ids", "events"}]
      BY <1>2, <1>3, <1>4 DEF IInv, SniffTypeOK
    <2>2. /\ pc' \in [Peers -> {"read", "load", "swap", "item", "add", "request"}]
          /\ current' \in [Peers -> 0..MaxEpoch]
      BY <1>1, EventSniffAssumption DEF IInv, SniffTypeOK
    <2>3. QED
      BY <1>1, <2>1, <2>2 DEF IInv, SniffTypeOK
  <1>6. Behind'
    BY <1>1, EventSniffAssumption DEF IInv, SniffTypeOK, Behind
  <1>7. HasItems' /\ Adding'
    BY <1>1, <1>3, <1>4 DEF IInv, SniffTypeOK, HasItems, Adding
  <1>8. Counters' /\ Asked' /\ ItemOK'
    BY <1>1 DEF IInv, Counters, Asked, InCache, ItemOK
  <1>9. QED
    BY <1>4, <1>5, <1>6, <1>7, <1>8 DEF IInv

LEMMA LoadKeeps ==
    ASSUME IInv, NEW p \in Peers, LoadTracked(p), UNCHANGED <<bpc, item>>
    PROVE  IInv'
  <1>1. /\ UNCHANGED <<epoch, trackedEpoch, eventIDCache, claims, evictions, knownEvents,
                       progress, kind, current, todo, toRequest, inputs>>
        /\ pc[p] = "load" /\ pc' = [pc EXCEPT ![p] = "swap"]
        /\ tracked' = [tracked EXCEPT ![p] = trackedEpoch]
    BY DEF LoadTracked, Goto, cacheVars, peerVars, itemVars
  <1>2. SniffTypeOK'
    BY <1>1, EventSniffAssumption DEF IInv, SniffTypeOK
  <1>3. Counters' /\ HasItems' /\ Asked' /\ Adding' /\ Behind' /\ ItemOK'
    BY <1>1 DEF IInv, SniffTypeOK, Counters, HasItems, Asked, InCache, Adding, Behind, ItemOK
  <1>4. QED
    BY <1>1, <1>2, <1>3 DEF IInv

(* Only a loop that nobody has overtaken stores what it read.               *)
LEMMA SwapKeeps ==
    ASSUME IInv, NEW p \in Peers, Swap(p), UNCHANGED <<bpc, item>>
    PROVE  IInv' /\ trackedEpoch' >= trackedEpoch
  <1>1. /\ UNCHANGED <<epoch, eventIDCache, claims, evictions, knownEvents, progress, kind,
                       todo, toRequest, inputs>>
        /\ pc[p] = "swap" /\ pc' = [pc EXCEPT ![p] = "item"]
        /\ current' = [current EXCEPT ![p] = 0] /\ tracked' = [tracked EXCEPT ![p] = 0]
        /\ trackedEpoch' = IF MaySwap(p) THEN current[p] ELSE trackedEpoch
    BY DEF Swap, Goto, cacheVars, peerVars, itemVars
  <1>2. /\ current[p] \in Nat /\ current[p] <= epoch /\ epoch \in 1..MaxEpoch
        /\ trackedEpoch \in 1..MaxEpoch /\ trackedEpoch <= epoch /\ MaxEpoch \in Nat
    BY EventSniffAssumption DEF IInv, SniffTypeOK, Behind
  <1>3. trackedEpoch' >= trackedEpoch /\ trackedEpoch' <= epoch /\ trackedEpoch' \in 1..MaxEpoch
    BY <1>1, <1>2 DEF MaySwap
  <1>4. SniffTypeOK'
    BY <1>1, <1>3, EventSniffAssumption DEF IInv, SniffTypeOK
  <1>5. Behind'
    BY <1>1, <1>2, <1>3 DEF IInv, SniffTypeOK, Behind
  <1>6. Counters' /\ HasItems' /\ Asked' /\ Adding' /\ ItemOK'
    BY <1>1 DEF IInv, SniffTypeOK, Counters, HasItems, Asked, InCache, Adding, ItemOK
  <1>7. QED
    BY <1>1, <1>3, <1>4, <1>5, <1>6 DEF IInv

(* The item is done: the loop has another one or leaves the items.          *)
LEMMA AdvanceProperties ==
    ASSUME IInv, NEW p \in Peers, NEW from, pc[p] \in {"item", "add"}, Advance(p, from)
    PROVE  /\ todo' \in [Peers -> Seq(Events)]
           /\ kind' \in [Peers -> {"none", "ids", "events"}]
           /\ pc' \in [Peers -> {"read", "load", "swap", "item", "add", "request"}]
           /\ pc'[p] \in {"read", "item", "request"}
           /\ pc'[p] = "item" => todo'[p] # <<>>
           /\ \A q \in Peers \ {p} : pc'[q] = pc[q] /\ todo'[q] = todo[q]
  <1>1. todo[p] \in Seq(Events) /\ todo[p] # <<>>
    BY DEF IInv, SniffTypeOK, HasItems
  <1>2. /\ todo' = [todo EXCEPT ![p] = Tail(@)]
        /\ Tail(todo[p]) \in Seq(Events) /\ Len(Tail(todo[p])) = Len(todo[p]) - 1
    BY <1>1, HeadTailProperties DEF Advance
  <1>3. PICK to \in {"item", "request", "read"} :
            /\ pc' = [pc EXCEPT ![p] = to]
            /\ kind' = IF to = "read" THEN [kind EXCEPT ![p] = "none"] ELSE kind
            /\ to = "item" => Len(todo[p]) > 1
    BY DEF Advance, Goto
  <1>4. to = "item" => Tail(todo[p]) # <<>>
    <2>1. Len(todo[p]) \in Nat
      BY <1>1, LenProperties
    <2>2. to = "item" => Len(Tail(todo[p])) # 0
      <3> SUFFICES ASSUME to = "item" PROVE Len(Tail(todo[p])) # 0
        OBVIOUS
      <3>1. Len(todo[p]) > 1
        BY <1>3, Zenon
      <3>2. Len(todo[p]) - 1 # 0
        <4>1. \A n \in Nat : n > 1 => n - 1 # 0
          OBVIOUS
        <4>2. QED
          BY <2>1, <3>1, <4>1, Zenon
      <3>3. QED
        BY <1>2, <3>2, Zenon
    <2>3. Len(<<>>) = 0
      OBVIOUS
    <2>4. QED
      BY <2>2, <2>3, Zenon
  <1>5. QED
    BY <1>2, <1>3, <1>4 DEF IInv, SniffTypeOK

(* An id that is not in the cache was evicted as often as it was asked for. *)
LEMMA ItemKeeps ==
    ASSUME IInv, NEW p \in Peers, Item(p), UNCHANGED <<bpc, item>>
    PROVE  IInv'
  <1> DEFINE e == Head(todo[p])
  <1>1. /\ UNCHANGED <<epoch, trackedEpoch, eventIDCache, claims, evictions, progress,
                       current, tracked, toRequest, inputs>>
        /\ pc[p] = "item"
        /\ knownEvents' = [knownEvents EXCEPT ![p] = @ \cup {e}]
    BY DEF Item, cacheVars, checkVars
  <1>2. todo[p] # <<>> /\ e \in Events
    BY <1>1, HeadTailProperties DEF IInv, SniffTypeOK, HasItems
  <1>3. CASE Advance(p, "item")
    <2>1. SniffTypeOK'
      BY <1>1, <1>2, <1>3, AdvanceProperties DEF IInv, SniffTypeOK
    <2>2. HasItems' /\ Adding'
      BY <1>1, <1>3, AdvanceProperties DEF IInv, HasItems, Adding
    <2>3. Counters' /\ Asked' /\ Behind' /\ ItemOK'
      BY <1>1 DEF IInv, Counters, Asked, InCache, Behind, ItemOK
    <2>4. QED
      BY <1>1, <2>1, <2>2, <2>3 DEF IInv
  <1>4. CASE ~Cached(e) /\ Goto(p, "item", "add") /\ UNCHANGED <<todo, kind>>
    <2>1. SniffTypeOK'
      BY <1>1, <1>2, <1>4 DEF IInv, SniffTypeOK, Goto
    <2>2. HasItems' /\ Counters' /\ Asked' /\ Behind' /\ ItemOK'
      BY <1>1, <1>2, <1>4
      DEF IInv, SniffTypeOK, Goto, HasItems, Counters, Asked, InCache, Behind, ItemOK
    <2>3. claims[p][e] <= evictions[e]
      BY <1>2, <1>4 DEF IInv, Counters, Asked, InCache, Cached
    <2>4. Adding'
      BY <1>1, <1>4, <2>3 DEF IInv, SniffTypeOK, Goto, Adding
    <2>5. QED
      BY <1>1, <2>1, <2>2, <2>4 DEF IInv
  <1>5. QED
    BY <1>3, <1>4 DEF Item

(* Adding an id makes it cached; an id that falls out is evicted once more. *)
LEMMA AddItemKeeps ==
    ASSUME IInv, NEW p \in Peers, AddItem(p), UNCHANGED <<bpc, item>>
    PROVE  IInv'
  <1>0. PICK e \in Events : e = Head(todo[p]) /\ todo[p] # <<>>
    BY HeadTailProperties DEF AddItem, IInv, SniffTypeOK, HasItems
  <1>1. /\ UNCHANGED <<epoch, trackedEpoch, knownEvents, progress, current, tracked, inputs>>
        /\ pc[p] = "add" /\ Cache(e) /\ Advance(p, "add")
        /\ \/ /\ toRequest' = [toRequest EXCEPT ![p] = Append(@, e)]
              /\ claims' = [claims EXCEPT ![p][e] = @ + 1]
           \/ UNCHANGED <<toRequest, claims>>
    BY <1>0 DEF AddItem, peerVars, checkVars
  <1>3. /\ eventIDCache' \in Seq(Events) /\ Len(eventIDCache') <= CacheCap /\ InCache(e)'
    BY <1>1, CacheProperties DEF IInv, SniffTypeOK, Cache, InCache
  <1>4. \A x \in Events :
            /\ evictions'[x] \in Nat /\ evictions'[x] >= evictions[x]
            /\ InCache(x) /\ ~InCache(x)' => evictions'[x] = evictions[x] + 1
    BY <1>1 DEF IInv, Counters, Cache, InCache
  <1>5. Counters'
    <2>1. evictions' \in [Events -> Nat]
      BY <1>1 DEF IInv, Counters, Cache
    <2>2. claims' \in [Peers -> [Events -> Nat]]
      <3>1. [claims EXCEPT ![p][e] = @ + 1] \in [Peers -> [Events -> Nat]]
        BY DEF IInv, Counters
      <3>2. QED
        BY <1>1, <3>1, Zenon DEF IInv, Counters
    <2>3. QED
      BY <2>1, <2>2 DEF Counters
  <1>6. SniffTypeOK'
    <2>1. toRequest' \in [Peers -> Seq(Events)]
      <3>1. Append(toRequest[p], e) \in Seq(Events)
        BY AppendProperties DEF IInv, SniffTypeOK
      <3>2. [toRequest EXCEPT ![p] = Append(@, e)] \in [Peers -> Seq(Events)]
        BY <3>1 DEF IInv, SniffTypeOK
      <3>3. QED
        BY <1>1, <3>2, Zenon DEF IInv, SniffTypeOK
    <2>2. QED
      BY <1>1, <1>3, <2>1, AdvanceProperties DEF IInv, SniffTypeOK
  <1>7. \A q \in Peers, x \in Events :
            /\ claims[q][x] \in Nat /\ evictions[x] \in Nat
            /\ \/ claims'[q][x] = claims[q][x]
               \/ q = p /\ x = e /\ claims'[q][x] = claims[q][x] + 1
    <2> SUFFICES ASSUME NEW q \in Peers, NEW x \in Events
                 PROVE  /\ claims[q][x] \in Nat /\ evictions[x] \in Nat
                        /\ \/ claims'[q][x] = claims[q][x]
                           \/ q = p /\ x = e /\ claims'[q][x] = claims[q][x] + 1
      OBVIOUS
    <2>0. claims[q][x] \in Nat /\ evictions[x] \in Nat
      BY DEF IInv, Counters
    <2>1. CASE claims' = claims
      BY <2>0, <2>1, Zenon
    <2>2. CASE claims' = [claims EXCEPT ![p][e] = @ + 1]
      <3>1. claims'[q] = IF q = p THEN [claims[p] EXCEPT ![e] = @ + 1] ELSE claims[q]
        BY <2>2 DEF IInv, Counters
      <3>2. claims[p] \in [Events -> Nat]
        BY DEF IInv, Counters
      <3>3. CASE q # p
        BY <2>0, <3>1, <3>3, Zenon
      <3>4. CASE q = p /\ x # e
        <4>1. claims'[q][x] = claims[q][x]
          BY <3>1, <3>2, <3>4
        <4>2. QED
          BY <2>0, <4>1, Zenon
      <3>5. CASE q = p /\ x = e
        <4>1. claims'[q][x] = claims[q][x] + 1
          BY <3>1, <3>2, <3>5
        <4>2. QED
          BY <2>0, <3>5, <4>1, Zenon
      <3>6. QED
        BY <3>3, <3>4, <3>5
    <2>3. QED
      BY <1>1, <2>0, <2>1, <2>2, Zenon
  <1>8. Asked'
    <2> SUFFICES ASSUME NEW q \in Peers, NEW x \in Events
                 PROVE  claims'[q][x] <= evictions'[x] + (IF InCache(x)' THEN 1 ELSE 0)
      BY DEF Asked
    <2>1. claims[q][x] <= evictions[x] + (IF InCache(x) THEN 1 ELSE 0)
      BY DEF IInv, Asked
    <2>2. CASE claims'[q][x] = claims[q][x]
      BY <1>4, <1>7, <2>1, <2>2
    <2>3. CASE q = p /\ x = e /\ claims'[q][x] = claims[q][x] + 1
      <3>1. claims[p][e] <= evictions[e]
        BY <1>0, <1>1 DEF IInv, Adding
      <3>2. evictions'[e] >= evictions[e] /\ claims'[q][x] = claims[p][e] + 1
        BY <1>4, <2>3
      <3>3. QED
        BY <1>3, <1>4, <1>7, <2>3, <3>1, <3>2
    <2>4. QED
      BY <1>7, <2>2, <2>3
  <1>9. HasItems' /\ Behind' /\ ItemOK'
    BY <1>1, AdvanceProperties DEF IInv, HasItems, Behind, ItemOK
  <1>10. Adding'
    <2> SUFFICES ASSUME NEW q \in Peers, pc'[q] = "add"
                 PROVE  claims'[q][Head(todo'[q])] <= evictions'[Head(todo'[q])]
      BY DEF Adding
    <2>1. q # p /\ pc[q] = "add" /\ todo'[q] = todo[q]
      BY <1>1, AdvanceProperties
    <2>2. Head(todo[q]) \in Events
      BY <2>1, HeadTailProperties DEF IInv, SniffTypeOK, HasItems
    <2>3. claims[q][Head(todo[q])] <= evictions[Head(todo[q])]
      BY <2>1 DEF IInv, Adding
    <2>4. QED
      BY <1>4, <1>7, <2>1, <2>2, <2>3
  <1>11. QED
    BY <1>1, <1>5, <1>6, <1>8, <1>9, <1>10 DEF IInv

LEMMA RequestKeeps ==
    ASSUME IInv, NEW p \in Peers, RequestBatch(p), UNCHANGED <<bpc, item>>
    PROVE  IInv'
  <1>1. /\ UNCHANGED <<epoch, trackedEpoch, eventIDCache, claims, evictions, knownEvents,
                       progress, current, tracked, todo, inputs>>
        /\ pc[p] = "request"
    BY DEF RequestBatch, cacheVars, peerVars, checkVars
  <1>2. PICK left \in {SubSeq(toRequest[p], SoftLimit + 1, Len(toRequest[p])), <<>>} :
            /\ toRequest' = [toRequest EXCEPT ![p] = left]
            /\ \/ /\ pc' = [pc EXCEPT ![p] = "read"]
                  /\ kind' = [kind EXCEPT ![p] = "none"]
               \/ UNCHANGED <<pc, kind>>
    BY DEF RequestBatch, Goto
  <1>3. left \in Seq(Events)
    <2>1. toRequest[p] \in Seq(Events) /\ Len(toRequest[p]) \in Nat /\ SoftLimit \in Nat
      BY EventSniffAssumption, LenProperties DEF IInv, SniffTypeOK
    <2>2. \A i \in (SoftLimit + 1)..Len(toRequest[p]) : toRequest[p][i] \in Events
      BY <2>1, ElementOfSeq
    <2>3. SubSeq(toRequest[p], SoftLimit + 1, Len(toRequest[p])) \in Seq(Events)
      BY <2>1, <2>2, SubSeqProperties
    <2>4. <<>> \in Seq(Events)
      BY EmptySeq
    <2>5. QED
      BY <2>3, <2>4, Zenon
  <1>4. SniffTypeOK'
    <2>1. toRequest' \in [Peers -> Seq(Events)]
      BY <1>2, <1>3 DEF IInv, SniffTypeOK
    <2>2. /\ pc' \in [Peers -> {"read", "load", "swap", "item", "add", "request"}]
          /\ kind' \in [Peers -> {"none", "ids", "events"}]
      BY <1>2 DEF IInv, SniffTypeOK
    <2>3. QED
      BY <1>1, <2>1, <2>2 DEF IInv, SniffTypeOK
  <1>5. HasItems' /\ Adding'
    BY <1>1, <1>2 DEF IInv, SniffTypeOK, HasItems, Adding
  <1>6. Counters' /\ Asked' /\ Behind' /\ ItemOK'
    BY <1>1 DEF IInv, Counters, Asked, InCache, Behind, ItemOK
  <1>7. QED
    BY <1>1, <1>4, <1>5, <1>6 DEF IInv

(* A broadcast leaves the loops alone but for the marks.                    *)
LEMMA CastKeeps ==
    ASSUME IInv, CastNext
    PROVE  IInv' /\ trackedEpoch' = trackedEpoch
  <1>1. ASSUME UNCHANGED LoopVars, inputs' \in Nat, ItemOK', progress' = progress,
               knownEvents' \in [Peers -> SUBSET Events]
        PROVE  IInv' /\ trackedEpoch' = trackedEpoch
    BY <1>1, MarkingKeeps DEF IInv, SniffTypeOK, LoopVars
  <1>2. ASSUME NEW e \in Events, NEW passed \in Ages, BroadcastEvent(e, passed)
        PROVE  IInv' /\ trackedEpoch' = trackedEpoch
    <2>1. UNCHANGED LoopVars /\ inputs' \in Nat /\ UNCHANGED <<knownEvents, progress>>
      BY <1>2 DEF BroadcastEvent, LoopVars, peerVars, IInv
    <2>2. ItemOK'
      BY <1>2 DEF BroadcastEvent, ItemOK
    <2>3. QED
      BY <1>1, <2>1, <2>2 DEF IInv, SniffTypeOK
  <1>3. ASSUME NEW p \in Peers, OfferEvent(p)
        PROVE  IInv' /\ trackedEpoch' = trackedEpoch
    <2>1. /\ UNCHANGED LoopVars /\ inputs' = inputs /\ progress' = progress
          /\ bpc = "events" /\ UNCHANGED <<bpc, item>>
      BY <1>3 DEF OfferEvent, LoopVars, itemVars
    <2>2. knownEvents' \in [Peers -> SUBSET Events]
      <3>1. item \in Events /\ knownEvents \in [Peers -> SUBSET Events]
        BY <2>1 DEF IInv, ItemOK, SniffTypeOK
      <3>2. [knownEvents EXCEPT ![p] = @ \cup {item}] \in [Peers -> SUBSET Events]
        BY <3>1
      <3>3. \/ knownEvents' = [knownEvents EXCEPT ![p] = @ \cup {item}]
            \/ knownEvents' = knownEvents
        BY <1>3, Zenon DEF OfferEvent
      <3>4. QED
        BY <3>1, <3>2, <3>3, Zenon
    <2>3. QED
      BY <1>1, <2>1, <2>2 DEF IInv, ItemOK
  <1>4. ASSUME NEW p \in Peers, NEW t \in Txs, ShowTx(p, t)
        PROVE  IInv' /\ trackedEpoch' = trackedEpoch
    <2>1. /\ UNCHANGED LoopVars /\ inputs' \in Nat
          /\ UNCHANGED <<knownEvents, progress, bpc, item>>
      BY <1>4 DEF ShowTx, LoopVars, peerVars, castVars, eventVars, IInv
    <2>2. QED
      BY <1>1, <2>1 DEF IInv, SniffTypeOK, ItemOK
  <1>5. ASSUME BroadcastTxs
        PROVE  IInv' /\ trackedEpoch' = trackedEpoch
    <2>1. /\ UNCHANGED LoopVars /\ inputs' \in Nat /\ UNCHANGED <<knownEvents, progress>>
          /\ bpc' = "scan"
      BY <1>5 DEF BroadcastTxs, LoopVars, peerVars, IInv
    <2>2. QED
      BY <1>1, <2>1 DEF IInv, SniffTypeOK, ItemOK
  <1>6. ASSUME UNCHANGED sniffVars, bpc' # "events"
        PROVE  IInv' /\ trackedEpoch' = trackedEpoch
    <2>1. UNCHANGED LoopVars /\ UNCHANGED <<inputs, knownEvents, progress>>
      BY <1>6 DEF sniffVars, LoopVars, itemVars, peerVars
    <2>2. QED
      BY <1>1, <1>6, <2>1 DEF IInv, SniffTypeOK, ItemOK
  <1>7. CASE \/ EventDone \/ ScanTx \/ PlanTxs \/ TxsDone
            \/ \E p \in Peers : SendBatch(p)
    <2>1. UNCHANGED sniffVars /\ bpc' # "events"
      BY <1>7 DEF EventDone, ScanTx, PlanTxs, TxsDone, SendBatch
    <2>2. QED
      BY <1>6, <2>1
  <1>8. QED
    BY <1>2, <1>3, <1>4, <1>5, <1>7, Zenon DEF CastNext

LEMMA StepKeeps ==
    ASSUME IInv, [Next]_vars
    PROVE  IInv' /\ trackedEpoch' >= trackedEpoch
  <1>1. trackedEpoch \in Nat
    BY EventSniffAssumption DEF IInv, SniffTypeOK
  <1>2. CASE SniffNext /\ UNCHANGED <<knownTxs, castVars>>
    <2>1. UNCHANGED <<bpc, item>>
      BY <1>2 DEF castVars, eventVars
    <2>2. CASE EpochAdvances
      BY <1>1, <2>1, <2>2, EpochKeeps DEF EpochAdvances
    <2>3. ASSUME NEW p \in Peers, Progress(p)
          PROVE  IInv' /\ trackedEpoch' >= trackedEpoch
      <3>1. trackedEpoch' = trackedEpoch
        BY <2>3 DEF Progress
      <3>2. IInv'
        BY <2>1, <2>3, ProgressKeeps
      <3>3. QED
        BY <1>1, <3>1, <3>2
    <2>4. ASSUME NEW p \in Peers, Receive(p)
          PROVE  IInv' /\ trackedEpoch' >= trackedEpoch
      <3>1. trackedEpoch' = trackedEpoch
        BY <2>4 DEF Receive
      <3>2. IInv'
        BY <2>1, <2>4, ReceiveKeeps
      <3>3. QED
        BY <1>1, <3>1, <3>2
    <2>5. ASSUME NEW p \in Peers, HandleEvent(p)
          PROVE  IInv' /\ trackedEpoch' >= trackedEpoch
      <3>1. CASE LoadTracked(p)
        <4>1. trackedEpoch' = trackedEpoch
          BY <3>1 DEF LoadTracked
        <4>2. IInv'
          BY <2>1, <3>1, LoadKeeps
        <4>3. QED
          BY <1>1, <4>1, <4>2
      <3>2. CASE Swap(p)
        BY <2>1, <3>2, SwapKeeps
      <3>3. CASE Item(p)
        <4>1. trackedEpoch' = trackedEpoch
          BY <3>3 DEF Item
        <4>2. IInv'
          BY <2>1, <3>3, ItemKeeps
        <4>3. QED
          BY <1>1, <4>1, <4>2
      <3>4. CASE AddItem(p)
        <4>1. trackedEpoch' = trackedEpoch
          BY <3>4 DEF AddItem
        <4>2. IInv'
          BY <2>1, <3>4, AddItemKeeps
        <4>3. QED
          BY <1>1, <4>1, <4>2
      <3>5. CASE RequestBatch(p)
        <4>1. trackedEpoch' = trackedEpoch
          BY <3>5 DEF RequestBatch
        <4>2. IInv'
          BY <2>1, <3>5, RequestKeeps
        <4>3. QED
          BY <1>1, <4>1, <4>2
      <3>6. QED
        BY <2>5, <3>1, <3>2, <3>3, <3>4, <3>5 DEF HandleEvent
    <2>6. QED
      BY <1>2, <2>2, <2>3, <2>4, <2>5 DEF SniffNext
  <1>3. CASE CastNext
    BY <1>1, <1>3, CastKeeps
  <1>4. CASE UNCHANGED vars
    <2>1. /\ UNCHANGED LoopVars /\ trackedEpoch' = trackedEpoch
          /\ UNCHANGED <<inputs, knownEvents, progress, bpc, item>>
      BY <1>4 DEF vars, sniffVars, castVars, eventVars, itemVars, peerVars, LoopVars
    <2>2. QED
      BY <1>1, <2>1, MarkingKeeps DEF IInv, SniffTypeOK, ItemOK
  <1>5. QED
    BY <1>2, <1>3, <1>4 DEF Next

-----------------------------------------------------------------------------
(* For any peers, events and cache: a loop asks its peer for an event once  *)
(* and again only after the id was evicted, although looking it up and      *)
(* adding it are two steps and other loops add and evict in between         *)
(* (handleEventHashes, handleEvents).                                       *)
THEOREM OnceAsked == Spec => []AskedOnce
  <1>1. IInv => AskedOnce
    <2> SUFFICES ASSUME IInv, NEW p \in Peers, NEW e \in Events
                 PROVE  claims[p][e] <= 1 + evictions[e]
      BY DEF IInv, AskedOnce
    <2>1. /\ claims[p][e] \in Nat /\ evictions[e] \in Nat
          /\ claims[p][e] <= evictions[e] + (IF InCache(e) THEN 1 ELSE 0)
      BY DEF IInv, Counters, Asked
    <2>2. QED
      BY <2>1
  <1>2. QED
    BY InitIInv, StepKeeps, <1>1, PTL DEF Spec

(* For any number of loops and epochs: the compare and swap never takes the *)
(* tracked epoch back, nor beyond the backend's (checkNewEpoch).            *)
THEOREM TrackedEpochFollows == Spec => TrackedFollows
  <1>1. IInv /\ [Next]_vars => [trackedEpoch' >= trackedEpoch /\ trackedEpoch' <= epoch']_sniffVars
    BY StepKeeps DEF IInv, Behind
  <1>2. QED
    BY InitIInv, StepKeeps, <1>1, PTL DEF Spec, TrackedFollows

-----------------------------------------------------------------------------
(* To how many the payload goes.                                            *)

(* The integer square root exists.                                          *)
LEMMA RootType == ASSUME NEW n \in Nat PROVE Root(n) \in 0..n
  <1> DEFINE I == {r \in Nat : n < (r + 1) * (r + 1)}
  <1>1. n \in I
    BY SMT
  <1>2. PICK r \in I : \A y \in I : r <= y
    <2>1. I \in SUBSET Nat /\ I # {}
      BY <1>1
    <2> HIDE DEF I
    <2>2. QED
      BY <2>1, LeastNat
  <1>3. r \in 0..n /\ n < (r + 1) * (r + 1)
    BY <1>1, <1>2
  <1>4. r * r <= n
    <2>1. CASE r = 0
      BY <2>1
    <2>2. CASE r # 0
      <3>1. r - 1 \in Nat /\ r - 1 \notin I
        BY <1>2, <1>3, <2>2
      <3>2. ~(n < ((r - 1) + 1) * ((r - 1) + 1)) /\ (r - 1) + 1 = r
        BY <3>1, <1>3
      <3>3. ~(n < r * r)
        BY <3>2
      <3>4. QED
        BY <1>3, <3>3
    <2>3. QED
      BY <2>1, <2>2
  <1>5. QED
    BY <1>3, <1>4 DEF Root

LEMMA TradeoffType == Tradeoff \in Nat
  <1>1. \A a \in Nat, b \in Nat \ {0} : a \div b \in Nat
    BY SMT
  <1>2. LatencyImportance * Percents \in Nat /\ MaxPercents \in Nat
    BY BroadcastAssumption DEF Percents, MaxPercents
  <1>3. QED
    BY <1>1, <1>2, BroadcastAssumption DEF Tradeoff

(* Never more peers than there are.                                         *)
LEMMA FullRecipientsType ==
    ASSUME NEW size, NEW passed, NEW n \in Nat
    PROVE  FullRecipients(size, passed, n) \in 0..n
  <1>1. MinFull \in Nat /\ MaxPercents \in Nat
    BY BroadcastAssumption DEF Percents, MaxPercents
  <1>2. Root(n) \in Nat
    BY RootType
  <1>3. \/ Tradeoff >= MaxPercents \/ Tradeoff = 0 \/ Tradeoff \in 1..(MaxPercents - 1)
    BY <1>1, TradeoffType
  <1>4. Uncapped(size, passed, n) \in Nat
    BY <1>1, <1>2, <1>3, TradeoffType DEF Uncapped
  <1>5. QED
    BY <1>4 DEF FullRecipients, Least

LEMMA CostGrows ==
    ASSUME NEW size \in Nat, NEW early \in Nat, NEW late \in Nat, early <= late
    PROVE  Cost(size, early) \in Nat /\ Cost(size, late) \in Nat
           /\ Cost(size, early) <= Cost(size, late)
  <1>1. PICK w \in Nat : w = 128 + size
    OBVIOUS
  <1>2. PICK d \in Nat : late = early + d
    <2>1. late - early \in Nat /\ late = early + (late - early)
      OBVIOUS
    <2>2. QED
      BY <2>1
  <1>3. early * w \in Nat /\ d * w \in Nat /\ late * w = early * w + d * w
    BY <1>1, <1>2
  <1>4. \A a \in Nat, b \in Nat :
            a \div 128 \in Nat /\ (a + b) \div 128 \in Nat /\ a \div 128 <= (a + b) \div 128
    OBVIOUS
  <1>5. QED
    BY <1>1, <1>3, <1>4 DEF Cost

(* For any tradeoff: the later an event is broadcast, the fewer peers get   *)
(* it whole (decideBroadcastAggressiveness).                                *)
THEOREM AgeNeverAdds ==
    ASSUME NEW size \in Nat, NEW early \in Nat, NEW late \in Nat, early <= late, NEW n \in Nat
    PROVE  FullRecipients(size, late, n) <= FullRecipients(size, early, n)
  <1>1. /\ Cost(size, early) \in Nat /\ Cost(size, late) \in Nat
        /\ Cost(size, early) <= Cost(size, late)
    BY CostGrows
  <1>2. MinFull \in Nat /\ MaxPercents \in Nat \ {0} /\ Root(n) \in 0..n
    BY BroadcastAssumption, RootType DEF Percents, MaxPercents
  <1>3. AllTarget \in Int /\ SqrtTarget \in Int /\ AllTarget <= SqrtTarget
    <2>1. \A t \in Nat : (t * 700) \div 100 \in Nat
      OBVIOUS
    <2>2. AllTarget \in Nat
      BY <2>1, TradeoffType DEF AllTarget, Percents
    <2>3. QED
      BY <2>2 DEF SqrtTarget
  <1>4. \/ Tradeoff >= MaxPercents \/ Tradeoff = 0 \/ Tradeoff \in 1..(MaxPercents - 1)
    BY <1>2, TradeoffType
  <1> DEFINE some == IF Root(n) < MinFull THEN MinFull ELSE Root(n)
             Middle(passed) == IF Cost(size, passed) <= AllTarget THEN n
                               ELSE IF Cost(size, passed) <= SqrtTarget THEN some ELSE 0
  <1>5. CASE Tradeoff >= MaxPercents
    <2>1. Tradeoff # 0 /\ Tradeoff \notin 1..(MaxPercents - 1)
      BY <1>2, <1>5, TradeoffType
    <2>2. Uncapped(size, early, n) = n /\ Uncapped(size, late, n) = n
      BY <1>5, <2>1 DEF Uncapped
    <2>3. QED
      BY <2>2 DEF FullRecipients, Least
  <1>6. CASE Tradeoff = 0
    <2>1. ~(Tradeoff >= MaxPercents) /\ Tradeoff \notin 1..(MaxPercents - 1)
      BY <1>2, <1>6
    <2>2. Uncapped(size, early, n) = 0 /\ Uncapped(size, late, n) = 0
      BY <1>6, <2>1 DEF Uncapped
    <2>3. QED
      BY <2>2 DEF FullRecipients, Least
  <1>7. CASE Tradeoff \in 1..(MaxPercents - 1)
    <2>1. /\ Uncapped(size, early, n) = Middle(early)
          /\ Uncapped(size, late, n) = Middle(late)
      BY <1>2, <1>7, TradeoffType DEF Uncapped
    <2>2. some \in Nat
      BY <1>2
    <2> HIDE DEF some
    <2>3. Middle(early) \in Nat /\ Middle(late) \in Nat
      BY <2>2
    <2>4. Middle(late) <= Middle(early) \/ Middle(early) >= n
      BY <1>1, <1>3, <2>2
    <2> HIDE DEF Middle
    <2>5. QED
      BY <2>1, <2>3, <2>4 DEF FullRecipients, Least
  <1>8. QED
    BY <1>4, <1>5, <1>6, <1>7

-----------------------------------------------------------------------------
(* BroadcastEvent.                                                          *)

Offers == [peer : Peers, form : {"full", "ids"}]

(* What is scanned and split are sequences of transactions.                 *)
TxQueues ==
    /\ txset \in [Peers -> Seq(Txs)]
    /\ rest \in [Peers -> Seq(Txs)]

(* The whole event has not gone to more than the quota and only to worthy   *)
(* peers; when the first id is sent, one of the two is exhausted.           *)
OfferInv ==
    /\ offers \in Seq(Offers)
    /\ \A i, j \in DOMAIN offers : offers[i].peer = offers[j].peer => i = j
    /\ Offered \subseteq lacking
    /\ OfferedAs("full") \subseteq Worthy
    /\ Cardinality(OfferedAs("full")) <= quota
    /\ OfferedAs("ids") # {} =>
         Cardinality(OfferedAs("full")) = Least(quota, Cardinality(Worthy))
    /\ bpc # "events" => offers = <<>>

(* One offer more.                                                          *)
LEMMA OneMoreOffer ==
    ASSUME OfferInv, NEW p, NEW form \in {"full", "ids"},
           offers' = Append(offers, [peer |-> p, form |-> form])
    PROVE  /\ Offered' = Offered \cup {p}
           /\ OfferedAs("full")' =
                IF form = "full" THEN OfferedAs("full") \cup {p} ELSE OfferedAs("full")
           /\ OfferedAs("ids")' =
                IF form = "ids" THEN OfferedAs("ids") \cup {p} ELSE OfferedAs("ids")
  <1> DEFINE n == Len(offers)
  <1>1. offers \in Seq(Offers) /\ n \in Nat /\ DOMAIN offers = 1..n
    BY DEF OfferInv
  <1>2. /\ DOMAIN offers' = 1..(n + 1)
        /\ \A i \in 1..n : offers'[i] = offers[i]
        /\ offers'[n + 1] = [peer |-> p, form |-> form]
    BY <1>1
  <1> HIDE DEF n
  <1>3. 1..(n + 1) = (1..n) \cup {n + 1}
    BY <1>1
  <1>4. Offered' = Offered \cup {p}
    BY <1>1, <1>2, <1>3 DEF Offered
  <1>5. OfferedAs("full")' =
          IF form = "full" THEN OfferedAs("full") \cup {p} ELSE OfferedAs("full")
    BY <1>1, <1>2, <1>3 DEF OfferedAs
  <1>6. OfferedAs("ids")' =
          IF form = "ids" THEN OfferedAs("ids") \cup {p} ELSE OfferedAs("ids")
    BY <1>1, <1>2, <1>3 DEF OfferedAs
  <1>7. QED
    BY <1>4, <1>5, <1>6

(* Each offer is whole or by id.                                            *)
LEMMA TwoForms ==
    ASSUME OfferInv PROVE Offered = OfferedAs("full") \cup OfferedAs("ids")
  <1>1. \A i \in DOMAIN offers : offers[i] \in Offers
    BY DEF OfferInv
  <1>2. \A i \in DOMAIN offers : offers[i].form = "full" \/ offers[i].form = "ids"
    BY <1>1 DEF Offers
  <1>3. QED
    BY <1>2 DEF Offered, OfferedAs

(* The sets are finite.                                                     *)
LEMMA OfferedFinite ==
    ASSUME TypeOK, OfferInv
    PROVE  /\ IsFiniteSet(Worthy) /\ Cardinality(Worthy) \in Nat
           /\ IsFiniteSet(OfferedAs("full")) /\ Cardinality(OfferedAs("full")) \in Nat
           /\ Cardinality(OfferedAs("full")) <= Cardinality(Worthy)
           /\ Cardinality(OfferedAs("full")) = Cardinality(Worthy) => OfferedAs("full") = Worthy
           /\ quota \in Nat
  <1>1. IsFiniteSet(Peers) /\ Worthy \subseteq Peers /\ OfferedAs("full") \subseteq Worthy
    BY BroadcastAssumption DEF TypeOK, OfferInv, Worthy
  <1>2. IsFiniteSet(Worthy)
    BY <1>1, FS_Subset
  <1>3. /\ IsFiniteSet(OfferedAs("full"))
        /\ Cardinality(OfferedAs("full")) <= Cardinality(Worthy)
        /\ Cardinality(OfferedAs("full")) = Cardinality(Worthy) => OfferedAs("full") = Worthy
    BY <1>1, <1>2, FS_Subset
  <1>4. Cardinality(Worthy) \in Nat /\ Cardinality(OfferedAs("full")) \in Nat
    BY <1>2, <1>3, FS_CardinalityType
  <1>5. quota \in Nat
    BY DEF TypeOK
  <1>6. QED
    BY <1>2, <1>3, <1>4, <1>5

LEMMA OfferKeeps ==
    ASSUME TypeOK, OfferInv, NEW p \in Peers, OfferEvent(p)
    PROVE  OfferInv'
  <1>1. /\ bpc = "events" /\ p \in lacking /\ p \notin Offered
        /\ UNCHANGED <<bpc, quota, lacking>>
    BY DEF OfferEvent
  <1>2. Worthy' = Worthy
    BY <1>1 DEF Worthy
  <1>3. PICK form \in {"full", "ids"} :
          /\ offers' = Append(offers, [peer |-> p, form |-> form])
          /\ form = "full" => MayGetWhole(p)
          /\ form = "ids" => ~WholeIsDue
    BY DEF OfferEvent
  <1>4. [peer |-> p, form |-> form] \in Offers
    BY DEF Offers
  <1>5. offers' \in Seq(Offers)
    BY <1>3, <1>4 DEF OfferInv
  <1>6. \A i, j \in DOMAIN offers' : offers'[i].peer = offers'[j].peer => i = j
    <2> DEFINE n == Len(offers)
    <2>1. /\ offers \in Seq(Offers) /\ n \in Nat /\ DOMAIN offers = 1..n
          /\ DOMAIN offers' = (1..n) \cup {n + 1} /\ n + 1 \notin 1..n
          /\ \A i \in 1..n : offers'[i] = offers[i]
          /\ offers'[n + 1].peer = p
      BY <1>3 DEF OfferInv
    <2> HIDE DEF n
    <2>2. \A i \in 1..n : offers[i].peer # p
      BY <1>1, <2>1 DEF Offered
    <2>3. QED
      BY <2>1, <2>2 DEF OfferInv
  <1>7. /\ Offered' = Offered \cup {p}
        /\ OfferedAs("full")' =
             IF form = "full" THEN OfferedAs("full") \cup {p} ELSE OfferedAs("full")
        /\ OfferedAs("ids")' =
             IF form = "ids" THEN OfferedAs("ids") \cup {p} ELSE OfferedAs("ids")
    BY <1>3, OneMoreOffer
  <1>8. Offered' \subseteq lacking'
    BY <1>1, <1>7 DEF OfferInv
  <1>9. CASE form = "full"
    <2>1. p \in Worthy /\ Cardinality(OfferedAs("full")) < quota
      BY <1>3, <1>9 DEF MayGetWhole
    <2>2. p \notin OfferedAs("full")
      BY <1>1, TwoForms
    <2>3. Cardinality(OfferedAs("full") \cup {p}) = Cardinality(OfferedAs("full")) + 1
      BY <2>2, OfferedFinite, FS_AddElement
    <2>4. OfferedAs("ids") = {}
      <3> SUFFICES ASSUME OfferedAs("ids") # {} PROVE FALSE
        OBVIOUS
      <3>1. Cardinality(OfferedAs("full")) = Cardinality(Worthy)
        BY <2>1, OfferedFinite DEF OfferInv, Least
      <3>2. QED
        BY <2>1, <2>2, <3>1, OfferedFinite
    <2>5. Cardinality(OfferedAs("full")') <= quota'
      <3>1. OfferedAs("full")' = OfferedAs("full") \cup {p}
        BY <1>7, <1>9
      <3>2. Cardinality(OfferedAs("full")) + 1 <= quota
        BY <2>1, OfferedFinite
      <3>3. QED
        BY <1>1, <2>3, <3>1, <3>2
    <2>6. OfferedAs("full")' \subseteq Worthy' /\ OfferedAs("ids")' = {}
      BY <1>2, <1>7, <1>9, <2>1, <2>4 DEF OfferInv
    <2>7. QED
      BY <1>1, <1>5, <1>6, <1>8, <2>5, <2>6 DEF OfferInv
  <1>10. CASE form = "ids"
    <2>1. OfferedAs("full")' = OfferedAs("full")
      BY <1>7, <1>10
    <2>2. Cardinality(OfferedAs("full")) = Least(quota, Cardinality(Worthy))
      <3>1. CASE OfferedAs("ids") # {}
        BY <3>1 DEF OfferInv
      <3>2. CASE Worthy \subseteq Offered /\ OfferedAs("ids") = {}
        <4>1. OfferedAs("full") = Worthy
          BY <3>2, TwoForms DEF OfferInv
        <4>2. QED
          BY <4>1, OfferedFinite DEF OfferInv, Least
      <3>3. CASE ~(Cardinality(OfferedAs("full")) < quota)
        BY <3>3, OfferedFinite DEF OfferInv, Least
      <3>4. QED
        BY <1>3, <1>10, <3>1, <3>2, <3>3 DEF WholeIsDue
    <2>3. QED
      BY <1>1, <1>2, <1>5, <1>6, <1>8, <2>1, <2>2 DEF OfferInv
  <1>11. QED
    BY <1>9, <1>10

-----------------------------------------------------------------------------
(* FlattenSeq, whose definition is recursive: f concatenates the first n of *)
(* the sequences in s.                                                      *)
Flattens(f, s, n) == f = [i \in 1..n |-> IF i = 1 THEN s[i] ELSE f[i - 1] \o s[i]]

LEMMA FlattensExists == ASSUME NEW s, NEW n \in Nat PROVE \E f : Flattens(f, s, n)
  <1> DEFINE Bad == {m \in Nat : ~\E f : Flattens(f, s, m)}
  <1>1. SUFFICES ASSUME Bad # {} PROVE FALSE
    OBVIOUS
  <1>2. PICK m \in Bad : \A k \in Bad : m <= k
    <2>1. Bad \in SUBSET Nat
      OBVIOUS
    <2> HIDE DEF Bad
    <2>2. QED
      BY <1>1, <2>1, LeastNat
  <1>3. m # 0
    <2>1. Flattens([i \in 1..0 |-> 0], s, 0)
      BY DEF Flattens
    <2>2. QED
      BY <1>2, <2>1
  <1>4. m - 1 \in Nat /\ m - 1 \notin Bad
    BY <1>2, <1>3
  <1>5. PICK f : Flattens(f, s, m - 1)
    BY <1>4
  <1> DEFINE g == [i \in 1..m |-> IF i = 1 THEN s[i] ELSE f[i - 1] \o s[i]]
  <1>6. \A i \in 1..m : i # 1 => g[i - 1] = f[i - 1]
    <2> SUFFICES ASSUME NEW i \in 1..m, i # 1 PROVE g[i - 1] = f[i - 1]
      OBVIOUS
    <2>1. i - 1 \in 1..m /\ i - 1 \in 1..(m - 1)
      BY <1>4
    <2>2. QED
      BY <1>5, <2>1 DEF Flattens
  <1>7. Flattens(g, s, m)
    BY <1>6 DEF Flattens
  <1>8. QED
    BY <1>2, <1>7

LEMMA FlattensAgree ==
    ASSUME NEW s, NEW t, NEW f, NEW g, NEW n \in Nat, NEW m \in Nat, n <= m,
           Flattens(f, s, n), Flattens(g, t, m), \A i \in 1..n : s[i] = t[i]
    PROVE  \A i \in 1..n : f[i] = g[i]
  <1> DEFINE Bad == {i \in 1..n : f[i] # g[i]}
  <1>1. SUFFICES ASSUME Bad # {} PROVE FALSE
    OBVIOUS
  <1>2. PICK i \in Bad : \A k \in Bad : i <= k
    <2>1. Bad \in SUBSET Nat
      OBVIOUS
    <2> HIDE DEF Bad
    <2>2. QED
      BY <1>1, <2>1, LeastNat
  <1>3. i \in 1..n /\ i \in 1..m
    BY <1>2
  <1>4. /\ f[i] = IF i = 1 THEN s[i] ELSE f[i - 1] \o s[i]
        /\ g[i] = IF i = 1 THEN t[i] ELSE g[i - 1] \o t[i]
    BY <1>3 DEF Flattens
  <1>5. i # 1 => f[i - 1] = g[i - 1]
    <2> SUFFICES ASSUME i # 1 PROVE f[i - 1] = g[i - 1]
      OBVIOUS
    <2>1. i - 1 \in 1..n /\ i - 1 \notin Bad
      BY <1>2
    <2>2. QED
      BY <2>1
  <1>6. f[i] = g[i]
    BY <1>3, <1>4, <1>5
  <1>7. QED
    BY <1>2, <1>6

LEMMA FlattenIs ==
    ASSUME NEW s, Len(s) \in Nat \ {0}
    PROVE  \E f : Flattens(f, s, Len(s)) /\ FlattenSeq(s) = f[Len(s)]
  <1> DEFINE f == CHOOSE h : Flattens(h, s, Len(s))
  <1>1. Flattens(f, s, Len(s))
    BY FlattensExists
  <1>2. FlattenSeq(s) = f[Len(s)]
    BY DEF FlattenSeq, Flattens
  <1>3. QED
    BY <1>1, <1>2

(* A last sequence is appended.                                             *)
LEMMA FlattenAppend ==
    ASSUME NEW T, NEW s \in Seq(Seq(T)), NEW x \in Seq(T)
    PROVE  FlattenSeq(Append(s, x)) = FlattenSeq(s) \o x
  <1> DEFINE n == Len(s)
             t == Append(s, x)
  <1>1. n \in Nat /\ Len(t) = n + 1 /\ t[n + 1] = x /\ \A i \in 1..n : t[i] = s[i]
    OBVIOUS
  <1> HIDE DEF t
  <1>2. PICK g : Flattens(g, t, n + 1) /\ FlattenSeq(t) = g[n + 1]
    BY <1>1, FlattenIs
  <1>3. CASE n = 0
    <2>1. g[n + 1] = x
      BY <1>1, <1>2, <1>3 DEF Flattens
    <2>2. FlattenSeq(s) = s /\ s = <<>>
      BY <1>3 DEF FlattenSeq
    <2>3. <<>> \o x = x
      OBVIOUS
    <2>4. QED
      BY <1>2, <2>1, <2>2, <2>3 DEF t
  <1>4. CASE n # 0
    <2>1. PICK f : Flattens(f, s, n) /\ FlattenSeq(s) = f[n]
      BY <1>1, <1>4, FlattenIs
    <2>2. f[n] = g[n]
      <3> HIDE DEF n
      <3>1. n <= n + 1 /\ n + 1 \in Nat /\ n \in 1..n
        BY <1>1, <1>4
      <3>2. \A i \in 1..n : s[i] = t[i]
        BY <1>1
      <3>3. \A i \in 1..n : f[i] = g[i]
        <4> DEFINE m == n + 1
        <4>1. m \in Nat /\ n <= m /\ Flattens(g, t, m)
          BY <1>2, <3>1
        <4>2. n \in Nat /\ Flattens(f, s, n)
          BY <1>1, <2>1
        <4> HIDE DEF m
        <4>3. QED
          BY <3>2, <4>1, <4>2, FlattensAgree
      <3>4. QED
        BY <3>1, <3>3
    <2>3. g[n + 1] = g[n] \o x
      <3> HIDE DEF n
      <3>1. n + 1 \in 1..(n + 1) /\ n + 1 # 1 /\ (n + 1) - 1 = n
        BY <1>1, <1>4
      <3>2. g[n + 1] = IF n + 1 = 1 THEN t[n + 1] ELSE g[(n + 1) - 1] \o t[n + 1]
        BY <1>2, <3>1 DEF Flattens
      <3>3. QED
        BY <1>1, <3>1, <3>2
    <2>4. QED
      BY <1>2, <2>1, <2>2, <2>3 DEF t
  <1>5. QED
    BY <1>3, <1>4

-----------------------------------------------------------------------------
(* SplitTransactions.                                                       *)

LEMMA BatchSizeType == ASSUME NEW q \in Seq(Txs), NEW n \in 0..Len(q) PROVE BatchSize(q, n) \in Nat
  <1> DEFINE bytes == [i \in 1..n |-> {i} \X (1..(Size[q[i]] + Overhead))]
             R == {bytes[i] : i \in 1..n}
  <1>1. IsFiniteSet(1..n)
    BY FS_Interval
  <1>2. bytes \in Surjection(1..n, R)
    BY DEF Surjection
  <1>3. IsFiniteSet(R)
    <2> HIDE DEF bytes, R
    <2>1. QED
      BY <1>1, <1>2, FS_Surjection
  <1>4. ASSUME NEW i \in 1..n PROVE IsFiniteSet(bytes[i])
    <2>1. Size[q[i]] + Overhead \in Nat
      <3>1. q[i] \in Txs
        BY <1>4
      <3>2. Size[q[i]] \in Nat
        BY <3>1, BroadcastAssumption
      <3>3. QED
        BY <3>2, BroadcastAssumption
    <2>2. IsFiniteSet({i})
      BY FS_Singleton
    <2>3. \A k \in Nat : IsFiniteSet(1..k)
      BY FS_Interval
    <2>4. IsFiniteSet(1..(Size[q[i]] + Overhead))
      BY <2>1, <2>3
    <2>5. QED
      BY <2>2, <2>4, FS_Product
  <1>5. IsFiniteSet(UNION R)
    <2>1. \A T \in R : IsFiniteSet(T)
      BY <1>4
    <2> HIDE DEF R
    <2>2. QED
      BY <1>3, <2>1, FS_UNION
  <1>6. BatchBytes(q, n) = UNION R
    BY DEF BatchBytes
  <1>7. QED
    BY <1>5, <1>6, FS_CardinalityType DEF BatchSize

(* A batch is not empty, and only its last transaction reaches a limit.     *)
LEMMA BatchLenIs ==
    ASSUME NEW q \in Seq(Txs), q # <<>>
    PROVE  /\ BatchLen(q) \in 1..Len(q)
           /\ \A m \in 1..(BatchLen(q) - 1) : ~Reaches(q, m)
  <1> DEFINE I == {n \in 1..Len(q) : n = Len(q) \/ Reaches(q, n)}
  <1>1. I \in SUBSET Nat /\ I # {}
    <2>1. Len(q) \in I
      OBVIOUS
    <2>2. QED
      BY <2>1
  <1>2. PICK n \in I : \A m \in I : n <= m
    <2> HIDE DEF I
    <2>1. QED
      BY <1>1, LeastNat
  <1>3. \A m \in 1..(n - 1) : ~Reaches(q, m)
    <2> SUFFICES ASSUME NEW m \in 1..(n - 1) PROVE ~Reaches(q, m)
      OBVIOUS
    <2>1. m \in 1..Len(q) /\ ~(n <= m)
      OBVIOUS
    <2>2. QED
      BY <1>2, <2>1
  <1>4. \E k \in 1..Len(q) : /\ k = Len(q) \/ Reaches(q, k)
                             /\ \A m \in 1..(k - 1) : ~Reaches(q, m)
    BY <1>2, <1>3
  <1>5. QED
    BY <1>4 DEF BatchLen

FirstBatch(q) == SubSeq(q, 1, BatchLen(q))

LEMMA BatchFits ==
    ASSUME NEW q \in Seq(Txs), q # <<>>
    PROVE  /\ FirstBatch(q) \in Seq(Txs) /\ Len(FirstBatch(q)) \in 1..SoftLimit
           /\ BatchSize(FirstBatch(q), Len(FirstBatch(q)) - 1) < SoftSize
  <1> DEFINE n == BatchLen(q)
             b == FirstBatch(q)
  <1>1. n \in 1..Len(q) /\ (\A m \in 1..(n - 1) : ~Reaches(q, m)) /\ Len(q) \in Nat
    BY BatchLenIs
  <1>2. b \in Seq(Txs) /\ Len(b) = n /\ \A i \in 1..n : b[i] = q[i]
    <2>1. b = SubSeq(q, 1, n)
      BY DEF FirstBatch
    <2> HIDE DEF n, b
    <2>2. QED
      BY <1>1, <2>1
  <1> HIDE DEF n
  <1>3. n <= SoftLimit
    <2>1. CASE n = 1
      BY <2>1, EventSniffAssumption
    <2>2. CASE n # 1
      <3>1. n - 1 \in 1..(n - 1)
        BY <1>1, <2>2
      <3>2. ~(n - 1 >= SoftLimit)
        BY <1>1, <3>1 DEF Reaches
      <3>3. QED
        BY <1>1, <3>2, EventSniffAssumption
    <2>3. QED
      BY <2>1, <2>2
  <1>4. BatchSize(b, n - 1) = BatchSize(q, n - 1)
    <2>1. \A i \in 1..(n - 1) : b[i] = q[i]
      BY <1>1, <1>2
    <2> HIDE DEF b
    <2>2. QED
      BY <2>1 DEF BatchSize, BatchBytes
  <1>5. BatchSize(q, n - 1) < SoftSize
    <2>1. CASE n = 1
      <3>1. BatchBytes(q, n - 1) = {}
        BY <2>1 DEF BatchBytes
      <3>2. BatchSize(q, n - 1) = 0
        BY <3>1, FS_EmptySet DEF BatchSize
      <3>3. QED
        BY <3>2, BroadcastAssumption
    <2>2. CASE n # 1
      <3>1. n - 1 \in 1..(n - 1) /\ n - 1 \in 0..Len(q)
        BY <1>1, <2>2
      <3>2. ~(BatchSize(q, n - 1) >= SoftSize) /\ BatchSize(q, n - 1) \in Nat
        BY <1>1, <3>1, BatchSizeType DEF Reaches
      <3>3. QED
        BY <3>2, BroadcastAssumption
    <2>3. QED
      BY <2>1, <2>2
  <1> HIDE DEF b
  <1>6. b \in Seq(Txs) /\ Len(b) \in 1..SoftLimit /\ BatchSize(b, Len(b) - 1) < SoftSize
    BY <1>1, <1>2, <1>3, <1>4, <1>5, EventSniffAssumption
  <1>7. QED
    BY <1>6 DEF b

-----------------------------------------------------------------------------
(* BroadcastTxs.                                                            *)

Batches(p) == [i \in DOMAIN handed[p] |-> handed[p][i].txs]

Handed == [txs : Seq(Txs), whole : BOOLEAN]

(* What BatchesCover says of a peer; and while the peer is being served,    *)
(* the form of what it still gets is that of what it got.                   *)
Covered(p) ==
    /\ FlattenSeq(Batches(p)) \in Seq(Txs)
    /\ FlattenSeq(Batches(p)) \o rest[p] = txset[p]
    /\ \A i \in DOMAIN handed[p] :
        /\ Len(handed[p][i].txs) \in 1..SoftLimit
        /\ BatchSize(handed[p][i].txs, Len(handed[p][i].txs) - 1) < SoftSize
        /\ handed[p][i].whole = handed[p][1].whole
    /\ handed[p] # <<>> /\ rest[p] # <<>> => handed[p][1].whole = GetsWhole(p)

CoverInv ==
    /\ TxQueues
    /\ handed \in [Peers -> Seq(Handed)]
    /\ bpc # "txs" => handed = NoTxs
    /\ bpc = "txs" => \A p \in Peers : Covered(p)

CastInv == TypeOK /\ OfferInv /\ CoverInv

(* Nothing has been handed over when the sets are planned.                  *)
LEMMA NothingHanded ==
    ASSUME NEW p \in Peers, handed'[p] = <<>>, rest'[p] = txset'[p], rest'[p] \in Seq(Txs)
    PROVE  Covered(p)'
  <1>1. DOMAIN handed'[p] = {}
    OBVIOUS
  <1>2. Batches(p)' = <<>>
    BY <1>1 DEF Batches
  <1>3. FlattenSeq(Batches(p)') = <<>>
    BY <1>2 DEF FlattenSeq
  <1>4. <<>> \o rest'[p] = rest'[p] /\ <<>> \in Seq(Txs)
    OBVIOUS
  <1>5. QED
    BY <1>1, <1>3, <1>4 DEF Covered

(* A batch more for p.                                                      *)
LEMMA SendKeepsOwn ==
    ASSUME CastInv, NEW p \in Peers, SendBatch(p)
    PROVE  /\ handed' \in [Peers -> Seq(Handed)] /\ rest' \in [Peers -> Seq(Txs)]
           /\ Covered(p)' /\ FirstBatch(rest[p]) \in Seq(Txs)
  <1> DEFINE n == BatchLen(rest[p])
             b == FirstBatch(rest[p])
             one == [txs |-> b, whole |-> GetsWhole(p)]
             k == Len(handed[p])
  <1>1. /\ rest \in [Peers -> Seq(Txs)] /\ rest[p] \in Seq(Txs) /\ rest[p] # <<>>
        /\ handed \in [Peers -> Seq(Handed)] /\ handed[p] \in Seq(Handed)
    BY DEF SendBatch, CastInv, CoverInv, TxQueues
  <1>2. n \in 1..Len(rest[p])
    BY <1>1, BatchLenIs
  <1>3. /\ b \in Seq(Txs) /\ Len(b) \in 1..SoftLimit
        /\ BatchSize(b, Len(b) - 1) < SoftSize
    BY <1>1, BatchFits
  <1>4. /\ handed' = [handed EXCEPT ![p] = Append(handed[p], one)]
        /\ rest' = [rest EXCEPT ![p] = SubSeq(rest[p], n + 1, Len(rest[p]))]
        /\ bpc = "txs" /\ UNCHANGED <<bpc, quota, txset>>
        /\ \A q \in Begun \ {p} : rest[q] = <<>>
    BY DEF SendBatch, FirstBatch
  <1>5. IsFiniteSet(Begun \ {p})
    <2>1. Begun \ {p} \subseteq Peers
      BY DEF Begun
    <2>2. QED
      BY <2>1, BroadcastAssumption, FS_Subset
  <1>6. GetsWhole(p) \in BOOLEAN
    <2>1. Cardinality(Begun \ {p}) \in Nat /\ quota \in Nat
      BY <1>5, FS_CardinalityType DEF CastInv, TypeOK
    <2>2. QED
      BY <2>1 DEF GetsWhole
  <1> HIDE DEF b, n
  <1>7. one \in Handed
    BY <1>3, <1>6 DEF Handed
  <1>8. SubSeq(rest[p], n + 1, Len(rest[p])) \in Seq(Txs)
    BY <1>1, <1>2
  <1>9. b \o SubSeq(rest[p], n + 1, Len(rest[p])) = rest[p]
    <2>1. b = SubSeq(rest[p], 1, n)
      BY DEF b, n, FirstBatch
    <2>2. QED
      BY <1>1, <1>2, <2>1
  <1> HIDE DEF one
  <1>10. handed' \in [Peers -> Seq(Handed)] /\ rest' \in [Peers -> Seq(Txs)]
    BY <1>1, <1>4, <1>7, <1>8
  <1>11. /\ handed'[p] = Append(handed[p], one)
         /\ rest'[p] = SubSeq(rest[p], n + 1, Len(rest[p])) /\ txset'[p] = txset[p]
    BY <1>1, <1>4
  <1>12. /\ k \in Nat /\ DOMAIN handed[p] = 1..k
         /\ DOMAIN handed'[p] = (1..k) \cup {k + 1} /\ k + 1 \notin 1..k
         /\ \A i \in 1..k : handed'[p][i] = handed[p][i]
         /\ handed'[p][k + 1] = one
    BY <1>1, <1>11
  <1>13. Covered(p)
    BY <1>4 DEF CastInv, CoverInv
  <1>14. FlattenSeq(Batches(p)') = FlattenSeq(Batches(p)) \o b
    <2>1. \A i \in 1..k : handed[p][i].txs \in Seq(Txs)
      <3>1. \A i \in 1..k : handed[p][i] \in Handed
        BY <1>1
      <3>2. QED
        BY <3>1 DEF Handed
    <2>2. Batches(p) = [i \in 1..k |-> handed[p][i].txs]
      BY <1>12 DEF Batches
    <2>3. Batches(p) \in Seq(Seq(Txs)) /\ Len(Batches(p)) = k
      <3> HIDE DEF k
      <3>1. Batches(p) \in [1..k -> Seq(Txs)]
        BY <2>1, <2>2
      <3>2. QED
        BY <1>12, <3>1
    <2>4. one.txs = b
      BY DEF one
    <2>5. Batches(p)' = Append(Batches(p), b)
      <3> HIDE DEF k
      <3>1. /\ DOMAIN Batches(p)' = 1..(k + 1)
            /\ \A i \in 1..k : Batches(p)'[i] = Batches(p)[i]
            /\ Batches(p)'[k + 1] = b
        BY <1>12, <2>4 DEF Batches
      <3>2. 1..(k + 1) = (1..k) \cup {k + 1} /\ k + 1 \in Nat
        BY <1>12
      <3>3. Batches(p)' \in [1..(k + 1) -> Seq(Txs)]
        <4>1. Batches(p)' = [i \in 1..(k + 1) |-> Batches(p)'[i]]
          BY <3>1 DEF Batches
        <4>2. \A i \in 1..(k + 1) : Batches(p)'[i] \in Seq(Txs)
          BY <1>3, <2>1, <2>2, <3>1, <3>2
        <4>3. QED
          BY <4>1, <4>2
      <3>4. Batches(p)' \in Seq(Seq(Txs)) /\ Len(Batches(p)') = k + 1
        BY <3>2, <3>3
      <3>5. /\ Append(Batches(p), b) \in Seq(Seq(Txs))
            /\ Len(Append(Batches(p), b)) = k + 1
            /\ \A i \in 1..k : Append(Batches(p), b)[i] = Batches(p)[i]
            /\ Append(Batches(p), b)[k + 1] = b
        BY <1>3, <2>3, AppendProperties
      <3>6. \A i \in 1..(k + 1) : Batches(p)'[i] = Append(Batches(p), b)[i]
        BY <3>1, <3>2, <3>5
      <3>7. QED
        BY <3>4, <3>5, <3>6, SeqEqual
    <2>6. QED
      BY <1>3, <2>3, <2>5, FlattenAppend
  <1>15. /\ FlattenSeq(Batches(p)') \in Seq(Txs)
         /\ FlattenSeq(Batches(p)') \o rest'[p] = txset'[p]
    <2> DEFINE F == FlattenSeq(Batches(p))
               r == SubSeq(rest[p], n + 1, Len(rest[p]))
    <2>1. F \in Seq(Txs) /\ F \o rest[p] = txset[p]
      BY <1>13 DEF Covered
    <2> HIDE DEF F, r
    <2>2. (F \o b) \o r = F \o (b \o r) /\ F \o b \in Seq(Txs)
      <3>1. r \in Seq(Txs)
        BY <1>8 DEF r
      <3>2. (F \o b) \o r = F \o (b \o r)
        <4>1. b \in Seq(Txs)
          BY <1>3
        <4>2. QED
          BY <2>1, <3>1, <4>1, ConcatAssociative
      <3>3. F \o b \in Seq(Txs)
        BY <1>3, <2>1, ConcatProperties
      <3>4. QED
        BY <3>2, <3>3
    <2>3. QED
      BY <1>9, <1>11, <1>14, <2>1, <2>2 DEF F, r
  <1>16. handed'[p][1].whole = GetsWhole(p)
    <2>1. CASE k = 0
      BY <1>12, <2>1 DEF one
    <2>2. CASE k # 0
      <3>1. handed[p] # <<>> /\ 1 \in 1..k
        BY <1>12, <2>2
      <3>2. handed[p][1].whole = GetsWhole(p)
        BY <1>1, <1>13, <3>1 DEF Covered
      <3>3. QED
        BY <1>12, <3>1, <3>2
    <2>3. QED
      BY <2>1, <2>2
  <1>17. GetsWhole(p)' = GetsWhole(p)
    <2>1. \A q \in Peers \ {p} : handed'[q] = handed[q]
      BY <1>1, <1>4
    <2>2. Begun' \ {p} = Begun \ {p}
      BY <2>1 DEF Begun
    <2>3. QED
      BY <1>4, <2>2 DEF GetsWhole
  <1>18. ASSUME NEW i \in DOMAIN handed'[p]
         PROVE  /\ Len(handed'[p][i].txs) \in 1..SoftLimit
                /\ BatchSize(handed'[p][i].txs, Len(handed'[p][i].txs) - 1) < SoftSize
                /\ handed'[p][i].whole = handed'[p][1].whole
    <2>1. CASE i = k + 1
      BY <1>3, <1>12, <1>16, <2>1 DEF one
    <2>2. CASE i \in 1..k
      <3>1. 1 \in 1..k
        BY <1>12, <2>2
      <3>2. handed'[p][i] = handed[p][i] /\ handed'[p][1] = handed[p][1]
        BY <1>12, <2>2, <3>1
      <3>3. QED
        BY <1>12, <1>13, <2>2, <3>2 DEF Covered
    <2>3. QED
      BY <1>12, <1>18, <2>1, <2>2
  <1>19. Covered(p)'
    BY <1>15, <1>16, <1>17, <1>18 DEF Covered
  <1>20. QED
    BY <1>3, <1>10, <1>19 DEF b

(* The other peers are not being served.                                    *)
LEMMA SendKeepsOthers ==
    ASSUME CastInv, NEW p \in Peers, SendBatch(p), NEW r \in Peers \ {p}
    PROVE  Covered(r)'
  <1>1. /\ handed'[r] = handed[r] /\ rest'[r] = rest[r] /\ txset'[r] = txset[r]
        /\ bpc = "txs" /\ (r \in Begun => rest[r] = <<>>)
    BY DEF SendBatch, CastInv, CoverInv, TxQueues
  <1>2. Covered(r)
    BY <1>1 DEF CastInv, CoverInv
  <1>3. Batches(r)' = Batches(r)
    BY <1>1 DEF Batches
  <1>4. handed[r] # <<>> => rest[r] = <<>>
    BY <1>1 DEF Begun
  <1>5. QED
    BY <1>1, <1>2, <1>3, <1>4 DEF Covered

LEMMA SendKeeps ==
    ASSUME CastInv, NEW p \in Peers, SendBatch(p)
    PROVE  CastInv'
  <1>1. UNCHANGED <<bpc, quota, item, lacking, offers, batch, txset>>
    BY DEF SendBatch, eventVars
  <1>2. knownTxs' \in [Peers -> SUBSET Txs]
    <2>1. ToSet(SubSeq(rest[p], 1, BatchLen(rest[p]))) \subseteq Txs
      BY SendKeepsOwn DEF FirstBatch, ToSet
    <2>2. knownTxs \in [Peers -> SUBSET Txs]
      BY DEF CastInv, TypeOK
    <2>3. \/ knownTxs' = [knownTxs EXCEPT ![p] = @ \cup ToSet(SubSeq(rest[p], 1, BatchLen(rest[p])))]
          \/ knownTxs' = knownTxs
      BY Zenon DEF SendBatch
    <2>4. QED
      BY <2>1, <2>2, <2>3
  <1>3. TypeOK'
    BY <1>1, <1>2 DEF CastInv, TypeOK
  <1>4. OfferInv'
    BY <1>1 DEF CastInv, OfferInv, Offered, OfferedAs, Worthy
  <1>5. CoverInv'
    <2>1. bpc = "txs" /\ bpc' = "txs"
      BY <1>1 DEF SendBatch
    <2>2. TxQueues'
      BY <1>1, SendKeepsOwn DEF CastInv, CoverInv, TxQueues
    <2>3. \A q \in Peers : Covered(q)'
      BY SendKeepsOwn, SendKeepsOthers
    <2>4. QED
      BY <2>1, <2>2, <2>3, SendKeepsOwn DEF CoverInv
  <1>6. QED
    BY <1>3, <1>4, <1>5 DEF CastInv

-----------------------------------------------------------------------------
(* The steps of the broadcasting goroutine.                                 *)

LEMMA InitCast == Init => CastInv
  <1> SUFFICES ASSUME Init PROVE CastInv
    OBVIOUS
  <1>1. IsFiniteSet(Peers) /\ Cardinality(Peers) \in Nat
    BY BroadcastAssumption, FS_CardinalityType
  <1>2. TypeOK
    BY <1>1 DEF Init, TypeOK
  <1>3. NoTxs \in [Peers -> Seq(Txs)] /\ NoTxs \in [Peers -> Seq(Handed)]
    BY DEF NoTxs
  <1>4. CoverInv
    BY <1>3 DEF Init, CoverInv, TxQueues
  <1>5. OfferInv
    <2>1. offers = <<>> /\ DOMAIN offers = {} /\ quota = 0
      BY DEF Init
    <2>2. Offered = {} /\ OfferedAs("full") = {} /\ OfferedAs("ids") = {}
      BY <2>1 DEF Offered, OfferedAs
    <2>3. QED
      BY <2>1, <2>2, FS_EmptySet DEF OfferInv
  <1>6. QED
    BY <1>2, <1>4, <1>5 DEF CastInv

(* Nothing is offered.                                                      *)
LEMMA NothingOffered ==
    ASSUME offers' = <<>>, quota' \in Nat PROVE OfferInv'
  <1>1. DOMAIN offers' = {} /\ offers' \in Seq(Offers)
    OBVIOUS
  <1>2. Offered' = {} /\ OfferedAs("full")' = {} /\ OfferedAs("ids")' = {}
    BY <1>1 DEF Offered, OfferedAs
  <1>3. Cardinality(OfferedAs("full")') = 0
    BY <1>2, FS_EmptySet
  <1>4. QED
    BY <1>1, <1>2, <1>3 DEF OfferInv

(* What there is to offer and to hand over stays as it is.                  *)
LEMMA OffersStay ==
    ASSUME OfferInv, UNCHANGED <<bpc, quota, lacking, offers>> PROVE OfferInv'
BY DEF OfferInv, Offered, OfferedAs, Worthy

LEMMA CoverStays ==
    ASSUME CoverInv, UNCHANGED <<txset, rest, handed>>,
           UNCHANGED <<bpc, quota>> \/ (bpc # "txs" /\ bpc' # "txs")
    PROVE  CoverInv'
  <1>1. ASSUME NEW p \in Peers, Covered(p), quota' = quota PROVE Covered(p)'
    BY <1>1 DEF Covered, Batches, GetsWhole, Begun
  <1>2. QED
    BY <1>1 DEF CoverInv, TxQueues

(* A quota is at most the number of the peers.                              *)
LEMMA QuotaType ==
    ASSUME NEW size, NEW passed, NEW S \in SUBSET Peers
    PROVE  FullRecipients(size, passed, Cardinality(S)) \in 0..Cardinality(Peers)
  <1>1. IsFiniteSet(Peers) /\ Cardinality(Peers) \in Nat
    BY BroadcastAssumption, FS_CardinalityType
  <1>2. IsFiniteSet(S) /\ Cardinality(S) <= Cardinality(Peers)
    BY <1>1, FS_Subset
  <1>3. Cardinality(S) \in Nat
    BY <1>2, FS_CardinalityType
  <1>4. FullRecipients(size, passed, Cardinality(S)) \in 0..Cardinality(S)
    BY <1>3, FullRecipientsType
  <1>5. QED
    BY <1>1, <1>2, <1>3, <1>4

LEMMA EventStep ==
    ASSUME CastInv, NEW e \in Events, NEW passed \in Ages, BroadcastEvent(e, passed)
    PROVE  CastInv'
  <1>1. /\ bpc = "idle" /\ bpc' = "events" /\ item' = e /\ offers' = offers
        /\ lacking' = {p \in Peers : InterestedIn(p, e)}
        /\ quota' = FullRecipients(Size[e], passed, Cardinality(lacking'))
        /\ UNCHANGED <<knownTxs, batch, txset, rest, handed>>
    BY DEF BroadcastEvent, txVars
  <1>2. lacking' \subseteq Peers
    BY <1>1
  <1>3. quota' \in 0..Cardinality(Peers)
    BY <1>1, <1>2, QuotaType
  <1>4. TypeOK'
    BY <1>1, <1>2, <1>3 DEF CastInv, TypeOK
  <1>5. OfferInv'
    <2>1. offers' = <<>> /\ quota' \in Nat
      BY <1>1, <1>3 DEF CastInv, OfferInv
    <2>2. QED
      BY <2>1, NothingOffered
  <1>6. CoverInv'
    BY <1>1, CoverStays DEF CastInv
  <1>7. QED
    BY <1>4, <1>5, <1>6 DEF CastInv

LEMMA OfferStep ==
    ASSUME CastInv, NEW p \in Peers, OfferEvent(p)
    PROVE  CastInv'
  <1>1. UNCHANGED <<knownTxs, bpc, quota, item, lacking, batch, txset, rest, handed>>
    BY DEF OfferEvent, txVars
  <1>2. TypeOK'
    BY <1>1 DEF CastInv, TypeOK
  <1>3. OfferInv'
    BY OfferKeeps DEF CastInv
  <1>4. CoverInv'
    BY <1>1, CoverStays DEF CastInv
  <1>5. QED
    BY <1>2, <1>3, <1>4 DEF CastInv

LEMMA EventDoneStep == ASSUME CastInv, EventDone PROVE CastInv'
  <1>1. /\ bpc = "events" /\ bpc' = "idle" /\ quota' = 0 /\ item' = Nothing
        /\ lacking' = {} /\ offers' = <<>>
        /\ UNCHANGED <<knownTxs, batch, txset, rest, handed>>
    BY DEF EventDone, txVars
  <1>2. 0 \in 0..Cardinality(Peers)
    BY BroadcastAssumption, FS_CardinalityType
  <1>3. TypeOK'
    BY <1>1, <1>2 DEF CastInv, TypeOK
  <1>4. OfferInv'
    BY <1>1, NothingOffered
  <1>5. CoverInv'
    BY <1>1, CoverStays DEF CastInv
  <1>6. QED
    BY <1>3, <1>4, <1>5 DEF CastInv

LEMMA BroadcastTxsStep == ASSUME CastInv, BroadcastTxs PROVE CastInv'
  <1>1. /\ bpc = "idle" /\ bpc' = "scan" /\ batch' = TxBatch
        /\ UNCHANGED <<knownTxs, quota, item, lacking, offers, txset, rest, handed>>
    BY DEF BroadcastTxs, eventVars
  <1>2. TypeOK'
    BY <1>1, BroadcastAssumption DEF CastInv, TypeOK
  <1>3. OfferInv'
    <2>1. offers' = <<>> /\ quota' \in Nat
      BY <1>1 DEF CastInv, OfferInv, TypeOK
    <2>2. QED
      BY <2>1, NothingOffered
  <1>4. CoverInv'
    BY <1>1, CoverStays DEF CastInv
  <1>5. QED
    BY <1>2, <1>3, <1>4 DEF CastInv

LEMMA ScanStep == ASSUME CastInv, ScanTx PROVE CastInv'
  <1>1. /\ bpc = "scan" /\ bpc' = bpc /\ batch # <<>> /\ batch' = Tail(batch)
        /\ txset' = [p \in Peers |-> IF Head(batch) \in knownTxs[p] THEN txset[p]
                                     ELSE Append(txset[p], Head(batch))]
        /\ UNCHANGED <<knownTxs, quota, item, lacking, offers, rest, handed>>
    BY DEF ScanTx, eventVars
  <1>2. batch' \in Seq(Txs) /\ Head(batch) \in Txs
    BY <1>1 DEF CastInv, TypeOK
  <1>3. txset' \in [Peers -> Seq(Txs)]
    BY <1>1, <1>2 DEF CastInv, CoverInv, TxQueues
  <1>4. TypeOK'
    BY <1>1, <1>2 DEF CastInv, TypeOK
  <1>5. OfferInv'
    BY <1>1, OffersStay DEF CastInv
  <1>6. CoverInv'
    BY <1>1, <1>3 DEF CastInv, CoverInv, TxQueues
  <1>7. QED
    BY <1>4, <1>5, <1>6 DEF CastInv

LEMMA PlanStep == ASSUME CastInv, PlanTxs PROVE CastInv'
  <1>1. /\ bpc = "scan" /\ bpc' = "txs" /\ rest' = txset
        /\ quota' = FullRecipients(TotalSize, 1000, Cardinality({p \in Peers : txset[p] # <<>>}))
        /\ UNCHANGED <<knownTxs, item, lacking, offers, batch, txset, handed>>
    BY DEF PlanTxs, eventVars
  <1>2. quota' \in 0..Cardinality(Peers)
    BY <1>1, QuotaType
  <1>3. TypeOK'
    BY <1>1, <1>2 DEF CastInv, TypeOK
  <1>4. OfferInv'
    <2>1. offers' = <<>> /\ quota' \in Nat
      BY <1>1, <1>2 DEF CastInv, OfferInv
    <2>2. QED
      BY <2>1, NothingOffered
  <1>5. CoverInv'
    <2>1. \A p \in Peers : handed'[p] = <<>> /\ rest'[p] = txset'[p] /\ rest'[p] \in Seq(Txs)
      BY <1>1 DEF CastInv, CoverInv, TxQueues, NoTxs
    <2>2. \A p \in Peers : Covered(p)'
      BY <2>1, NothingHanded
    <2>3. QED
      BY <1>1, <2>2 DEF CastInv, CoverInv, TxQueues
  <1>6. QED
    BY <1>3, <1>4, <1>5 DEF CastInv

LEMMA TxsDoneStep == ASSUME CastInv, TxsDone PROVE CastInv'
  <1>1. /\ bpc = "txs" /\ bpc' = "idle" /\ quota' = 0 /\ txset' = NoTxs /\ handed' = NoTxs
        /\ UNCHANGED <<knownTxs, item, lacking, offers, batch, rest>>
    BY DEF TxsDone, eventVars
  <1>2. 0 \in 0..Cardinality(Peers)
    BY BroadcastAssumption, FS_CardinalityType
  <1>3. TypeOK'
    BY <1>1, <1>2 DEF CastInv, TypeOK
  <1>4. OfferInv'
    <2>1. offers' = <<>>
      BY <1>1 DEF CastInv, OfferInv
    <2>2. QED
      BY <1>1, <2>1, NothingOffered
  <1>5. CoverInv'
    BY <1>1 DEF CastInv, CoverInv, TxQueues, NoTxs
  <1>6. QED
    BY <1>3, <1>4, <1>5 DEF CastInv

(* The other steps are those of the message loops and mark at most.         *)
LEMMA LoopStep ==
    ASSUME CastInv, UNCHANGED castVars, knownTxs' \in [Peers -> SUBSET Txs]
    PROVE  CastInv'
  <1>1. UNCHANGED <<bpc, quota, item, lacking, offers, batch, txset, rest, handed>>
    BY DEF castVars, eventVars, txVars
  <1>2. TypeOK'
    BY <1>1 DEF CastInv, TypeOK
  <1>3. OfferInv' /\ CoverInv'
    BY <1>1, OffersStay, CoverStays DEF CastInv
  <1>4. QED
    BY <1>2, <1>3 DEF CastInv

LEMMA CastStep == CastInv /\ [Next]_vars => CastInv'
  <1> SUFFICES ASSUME CastInv, [Next]_vars PROVE CastInv'
    OBVIOUS
  <1>1. knownTxs \in [Peers -> SUBSET Txs]
    BY DEF CastInv, TypeOK
  <1>2. CASE UNCHANGED <<knownTxs, castVars>>
    BY <1>1, <1>2, LoopStep
  <1>3. ASSUME NEW p \in Peers, NEW t \in Txs, ShowTx(p, t) PROVE CastInv'
    BY <1>1, <1>3, LoopStep DEF ShowTx
  <1>4. CASE CastNext
    BY <1>3, <1>4, EventStep, OfferStep, SendKeeps, EventDoneStep, BroadcastTxsStep, ScanStep,
       PlanStep, TxsDoneStep DEF CastNext
  <1>5. QED
    BY <1>2, <1>4 DEF Next, vars

LEMMA CastInvariant == Spec => []CastInv
BY InitCast, CastStep, PTL DEF Spec

(* For any peers and any decision: every peer that was found to lack the    *)
(* event is offered it once, none of the useless ones gets it whole, and    *)
(* ids are sent only when the quota or the worthy peers are exhausted       *)
(* (BroadcastEvent, decideBroadcastAggressiveness).                         *)
THEOREM OnceOffered == Spec => []OfferedOnce
  <1>1. CastInv => OfferedOnce
    BY DEF CastInv, OfferInv, OfferedOnce, Worthy
  <1>2. QED
    BY <1>1, CastInvariant, PTL

(* For any batch of transactions, sizes and limits: what a peer lacks is    *)
(* handed to its queue in order, each once and all of it, in batches within *)
(* the limits and in one form (BroadcastTxs, SplitTransactions).            *)
THEOREM BatchesComplete == Spec => []BatchesCover
  <1>1. CastInv => BatchesCover
    BY DEF CastInv, CoverInv, Covered, Batches, BatchesCover
  <1>2. QED
    BY <1>1, CastInvariant, PTL
=============================================================================
