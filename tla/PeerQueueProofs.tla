--------------------------- MODULE PeerQueueProofs ---------------------------
(***************************************************************************)
(* Proofs about the outgoing side of a peer, for any senders, hashes, sizes *)
(* and limits.  First the known-cache: its set and its ring agree, and it   *)
(* forgets in the order of addition.  Then the queue: every permit is       *)
(* accounted for, so that a sender with a permit finds room and the queue   *)
(* implements Outbox; and nothing is marked as known without a reason.      *)
(***************************************************************************)
EXTENDS PeerQueue, SequenceTheorems, FunctionTheorems, FiniteSetTheorems, TLAPS

(* The empty cache of newTxCache.                                           *)
LEMMA InitRing == CacheInit => RingMatchesSet
BY CapacityAssumption DEF CacheInit, NewCache, RingMatchesSet, CacheTypeOK, Keys

(* Adding to a ring that is not full.                                       *)
LEMMA GrowRing ==
    ASSUME RingMatchesSet, NEW h \in Hashes, h \notin cache.items,
           Len(cache.keys) < Capacity, cache' = Grow(cache, h)
    PROVE  RingMatchesSet'
<1>1. /\ cache'.items = cache.items \cup {h}
      /\ cache'.keys = Append(cache.keys, h)
      /\ cache'.next = cache.next
  BY DEF Grow, RingMatchesSet, CacheTypeOK
<1>2. cache.keys \in Seq(Hashes)
  BY DEF RingMatchesSet, CacheTypeOK
<1>3. /\ Len(cache'.keys) = Len(cache.keys) + 1
      /\ DOMAIN cache'.keys = 1 .. Len(cache.keys) + 1
      /\ \A i \in DOMAIN cache.keys : cache'.keys[i] = cache.keys[i]
      /\ cache'.keys[Len(cache.keys) + 1] = h
  BY <1>1, <1>2
<1>4. \A i, j \in DOMAIN cache'.keys : cache'.keys[i] = cache'.keys[j] => i = j
  BY <1>2, <1>3 DEF RingMatchesSet, Keys
<1>5. cache'.items = Keys'
  BY <1>1, <1>2, <1>3 DEF RingMatchesSet, Keys
<1>6. CacheTypeOK'
  <2>1. cache' = [items |-> cache'.items, keys |-> cache'.keys, next |-> cache'.next]
    BY DEF Grow, RingMatchesSet, CacheTypeOK
  <2>2. cache'.items \subseteq Hashes /\ cache'.keys \in Seq(Hashes)
    BY <1>1, <1>2 DEF RingMatchesSet, CacheTypeOK
  <2>3. QED
    BY <1>1, <2>1, <2>2 DEF RingMatchesSet, CacheTypeOK
<1>7. QED
  BY <1>1, <1>2, <1>3, <1>4, <1>5, <1>6, CapacityAssumption DEF RingMatchesSet

(* Adding to a full ring: the key under the index gives way.                *)
LEMMA EvictRing ==
    ASSUME RingMatchesSet, NEW h \in Hashes, h \notin cache.items,
           Len(cache.keys) = Capacity, cache' = Evict(cache, h)
    PROVE  RingMatchesSet'
<1> DEFINE k == cache.next + 1
<1>1. cache.keys \in Seq(Hashes) /\ cache.next \in 0 .. Capacity - 1 /\ Capacity \in Nat \ {0}
  BY CapacityAssumption DEF RingMatchesSet, CacheTypeOK
<1>2. k \in 1 .. Capacity /\ DOMAIN cache.keys = 1 .. Capacity
  BY <1>1
<1>3. /\ cache'.items = (cache.items \ {cache.keys[k]}) \cup {h}
      /\ cache'.keys = [cache.keys EXCEPT ![k] = h]
      /\ cache'.next = k % Capacity
  BY DEF Evict
<1>4. k % Capacity \in 0 .. Capacity - 1
  BY <1>1, <1>2
<1>5. /\ cache'.keys \in Seq(Hashes) /\ Len(cache'.keys) = Capacity
      /\ DOMAIN cache'.keys = 1 .. Capacity
      /\ \A i \in 1 .. Capacity : cache'.keys[i] = IF i = k THEN h ELSE cache.keys[i]
  BY <1>1, <1>2, <1>3
<1>6. CacheTypeOK'
  <2>1. cache' = [items |-> cache'.items, keys |-> cache'.keys, next |-> cache'.next]
    BY DEF Evict
  <2>2. cache'.items \subseteq Hashes
    BY <1>3 DEF RingMatchesSet, CacheTypeOK
  <2>3. QED
    BY <1>3, <1>4, <1>5, <2>1, <2>2 DEF CacheTypeOK
<1>7. \A i \in 1 .. Capacity : cache.keys[i] # h
  BY <1>2 DEF RingMatchesSet, Keys
<1>8. \A i, j \in DOMAIN cache'.keys : cache'.keys[i] = cache'.keys[j] => i = j
  BY <1>2, <1>5, <1>7 DEF RingMatchesSet
<1>9. cache'.items = Keys'
  <2>1. cache.items = {cache.keys[i] : i \in 1 .. Capacity}
    BY <1>2 DEF RingMatchesSet, Keys
  <2>2. cache.items \ {cache.keys[k]} = {cache.keys[i] : i \in (1 .. Capacity) \ {k}}
    BY <1>2, <2>1 DEF RingMatchesSet
  <2>3. Keys' = {cache.keys[i] : i \in (1 .. Capacity) \ {k}} \cup {h}
    BY <1>2, <1>5 DEF Keys
  <2>4. QED
    BY <1>3, <2>2, <2>3
<1>10. QED
  BY <1>1, <1>5, <1>6, <1>8, <1>9 DEF RingMatchesSet

(* Every addition keeps the set and the ring in agreement.                  *)
LEMMA StepRing == RingMatchesSet /\ [CacheNext]_cache => RingMatchesSet'
<1> SUFFICES ASSUME RingMatchesSet, [CacheNext]_cache PROVE RingMatchesSet'
  OBVIOUS
<1>1. ASSUME NEW h \in Hashes, AddHash(h) PROVE RingMatchesSet'
  <2>1. CASE h \in cache.items
    BY <1>1, <2>1 DEF AddHash, Add, Contains, RingMatchesSet, CacheTypeOK, Keys
  <2>2. CASE h \notin cache.items /\ Len(cache.keys) < Capacity
    BY <1>1, <2>2, GrowRing DEF AddHash, Add, Contains
  <2>3. CASE h \notin cache.items /\ ~(Len(cache.keys) < Capacity)
    <3>1. Len(cache.keys) = Capacity
      BY <2>3, CapacityAssumption DEF RingMatchesSet, CacheTypeOK
    <3>2. QED
      BY <1>1, <2>3, <3>1, EvictRing DEF AddHash, Add, Contains
  <2>4. QED
    BY <2>1, <2>2, <2>3
<1>2. CASE UNCHANGED cache
  BY <1>2 DEF RingMatchesSet, CacheTypeOK, Keys
<1>3. QED
  BY <1>1, <1>2 DEF CacheNext

(* The set and the ring of a known-cache always agree, and its size is      *)
(* bounded by its capacity.                                                 *)
THEOREM RingInvariant == CacheSpec => []RingMatchesSet
BY InitRing, StepRing, PTL DEF CacheSpec

-----------------------------------------------------------------------------
(* The cache implements BoundedFifo.                                        *)

(* The ages have the length of the ring and name the same hashes.           *)
LEMMA AgesHoldKeys ==
    ASSUME RingMatchesSet
    PROVE  /\ ByAge \in Seq(Hashes) /\ Len(ByAge) = Len(cache.keys)
           /\ Fifo!Held = cache.items
<1> DEFINE n == Len(cache.keys)
           at(i) == IF cache.next + i <= n THEN cache.next + i ELSE cache.next + i - n
<1>1. cache.keys \in Seq(Hashes) /\ n \in Nat /\ cache.next \in Nat
  BY CapacityAssumption DEF RingMatchesSet, CacheTypeOK
<1>2. cache.next = 0 \/ cache.next < n
  BY <1>1, CapacityAssumption DEF RingMatchesSet, CacheTypeOK
<1>3. \A i \in 1 .. n : at(i) \in 1 .. n /\ ByAge[i] = cache.keys[at(i)]
  BY <1>1, <1>2 DEF ByAge
<1>4. DOMAIN ByAge = 1 .. n
  BY DEF ByAge
<1>5. ByAge \in Seq(Hashes) /\ Len(ByAge) = n
  <2>1. ByAge = [i \in 1 .. n |-> ByAge[i]]
    BY DEF ByAge
  <2>2. \A i \in 1 .. n : ByAge[i] \in Hashes
    <3>1. \A j \in 1 .. n : cache.keys[j] \in Hashes
      BY <1>1
    <3> HIDE DEF at
    <3>2. QED
      BY <1>3, <3>1
  <2>3. ByAge \in [1 .. n -> Hashes]
    BY <2>1, <2>2
  <2>4. QED
    BY <1>1, <2>3
<1>6. \A j \in 1 .. n : \E i \in 1 .. n : at(i) = j
  <2> TAKE j \in 1 .. n
  <2>1. CASE j > cache.next
    <3>1. j - cache.next \in 1 .. n /\ at(j - cache.next) = j
      BY <1>1, <1>2, <2>1
    <3>2. QED
      BY <3>1
  <2>2. CASE j <= cache.next
    <3>1. j - cache.next + n \in 1 .. n /\ at(j - cache.next + n) = j
      BY <1>1, <1>2, <2>2
    <3>2. QED
      BY <3>1
  <2>3. QED
    BY <1>1, <2>1, <2>2
<1>7. {ByAge[i] : i \in 1 .. n} = {cache.keys[j] : j \in 1 .. n}
  <2>1. \A i \in 1 .. n : \E j \in 1 .. n : ByAge[i] = cache.keys[j]
    BY <1>3
  <2>2. \A j \in 1 .. n : \E i \in 1 .. n : ByAge[i] = cache.keys[j]
    BY <1>3, <1>6
  <2> HIDE DEF n
  <2>3. QED
    BY <2>1, <2>2
<1>8. Fifo!Held = cache.items
  <2>1. Keys = {cache.keys[j] : j \in 1 .. n}
    BY <1>1 DEF Keys
  <2>2. QED
    BY <1>4, <1>7, <2>1 DEF RingMatchesSet, Fifo!Held
<1>9. QED
  BY <1>5, <1>8

(* The index after the last key is the first.                               *)
LEMMA Turn ==
    ASSUME NEW k \in 1 .. Capacity
    PROVE  k % Capacity = IF k = Capacity THEN 0 ELSE k
<1>1. Capacity \in Nat \ {0}
  BY CapacityAssumption
<1>2. k < Capacity => k % Capacity = k
  BY <1>1
<1>3. Capacity % Capacity = 0
  BY <1>1
<1>4. QED
  BY <1>1, <1>2, <1>3

(* An addition of a new hash is a Remember of the abstract memory.          *)
LEMMA AddRemembers ==
    ASSUME RingMatchesSet, RingMatchesSet', NEW h \in Hashes,
           h \notin cache.items, AddHash(h)
    PROVE  Fifo!Remember(h)
<1> DEFINE n == Len(cache.keys)
<1>1. /\ cache.keys \in Seq(Hashes) /\ n \in Nat /\ n <= Capacity
      /\ cache.next \in 0 .. Capacity - 1 /\ Capacity \in Nat \ {0}
  BY CapacityAssumption DEF RingMatchesSet, CacheTypeOK
<1>2. /\ ByAge \in Seq(Hashes) /\ Len(ByAge) = n /\ Fifo!Held = cache.items
      /\ DOMAIN ByAge = 1 .. n
  BY AgesHoldKeys DEF ByAge
<1>3. CASE n < Capacity
  <2>1. /\ cache.next = 0 /\ cache'.next = 0
        /\ cache'.keys = Append(cache.keys, h)
    BY <1>3 DEF AddHash, Add, Contains, Grow, RingMatchesSet, CacheTypeOK
  <2>2. ByAge = cache.keys
    <3>1. ByAge = [i \in 1 .. n |-> cache.keys[i]]
      BY <1>1, <2>1 DEF ByAge
    <3>2. QED
      BY <1>1, <3>1
  <2>3. ByAge' = cache'.keys
    <3>1. cache'.keys \in Seq(Hashes)
      BY DEF RingMatchesSet, CacheTypeOK
    <3>2. ByAge' = [i \in 1 .. Len(cache'.keys) |-> cache'.keys[i]]
      BY <2>1, <3>1 DEF ByAge
    <3>3. QED
      BY <3>1, <3>2
  <2>4. QED
    BY <1>2, <1>3, <2>1, <2>2, <2>3 DEF Fifo!Remember
<1>4. CASE ~(n < Capacity)
  <2> DEFINE k == cache.next + 1
  <2>1. n = Capacity /\ k \in 1 .. Capacity
    BY <1>1, <1>4
  <2>2. /\ cache'.keys = [cache.keys EXCEPT ![k] = h]
        /\ cache'.next = k % Capacity
    BY <1>4 DEF AddHash, Add, Contains, Evict
  <2>3. cache'.next = IF k = Capacity THEN 0 ELSE k
    BY <2>1, <2>2, Turn
  <2>4. /\ Len(cache'.keys) = Capacity
        /\ \A i \in 1 .. Capacity : cache'.keys[i] = IF i = k THEN h ELSE cache.keys[i]
    BY <1>1, <2>1, <2>2
  <2>5. \A i \in 1 .. Capacity : ByAge'[i] = IF i = Capacity THEN h ELSE ByAge[i + 1]
    <3>1. \A i \in 1 .. Capacity :
            ByAge'[i] = cache'.keys[IF cache'.next + i <= Capacity
                                    THEN cache'.next + i ELSE cache'.next + i - Capacity]
      BY <1>1, <2>3, <2>4 DEF ByAge
    <3>2. \A i \in 1 .. Capacity :
            ByAge[i] = cache.keys[IF cache.next + i <= Capacity
                                  THEN cache.next + i ELSE cache.next + i - Capacity]
      BY <1>1, <2>1 DEF ByAge
    <3> TAKE i \in 1 .. Capacity
    <3>3. CASE k = Capacity
      <4>1. ByAge'[i] = cache'.keys[i] /\ cache.next = Capacity - 1
        BY <1>1, <2>3, <3>1, <3>3
      <4>2. i # Capacity => ByAge[i + 1] = cache.keys[i]
        <5> SUFFICES ASSUME i # Capacity PROVE ByAge[i + 1] = cache.keys[i]
          OBVIOUS
        <5>1. /\ i + 1 \in 1 .. Capacity /\ ~(cache.next + (i + 1) <= Capacity)
              /\ cache.next + (i + 1) - Capacity = i
          BY <1>1, <4>1
        <5>2. QED
          BY <3>2, <5>1
      <4>3. QED
        BY <1>1, <2>4, <3>3, <4>1, <4>2
    <3>4. CASE k < Capacity
      <4> DEFINE j == IF k + i <= Capacity THEN k + i ELSE k + i - Capacity
      <4>1. ByAge'[i] = cache'.keys[j]
        BY <1>1, <2>3, <3>1, <3>4
      <4>2. i # Capacity => ByAge[i + 1] = cache.keys[j]
        <5>1. ASSUME NEW m \in 1 .. Capacity, cache.next + m = k + i
              PROVE  ByAge[m] = cache.keys[j]
          <6>1. cache.next + m <= Capacity <=> k + i <= Capacity
            BY <1>1, <5>1
          <6>2. cache.next + m - Capacity = k + i - Capacity
            BY <1>1, <5>1
          <6>3. QED
            BY <3>2, <5>1, <6>1, <6>2
        <5>2. cache.next + (i + 1) = k + i /\ (i # Capacity => i + 1 \in 1 .. Capacity)
          BY <1>1
        <5>3. QED
          BY <5>1, <5>2
      <4>3. j \in 1 .. Capacity /\ (i # Capacity => j # k) /\ (i = Capacity => j = k)
        <5>1. k \in Nat /\ k >= 1 /\ Capacity \in Nat /\ i \in 1 .. Capacity
          BY <1>1, <2>1
        <5> HIDE DEF k
        <5>2. CASE k + i <= Capacity
          BY <3>4, <5>1, <5>2
        <5>3. CASE ~(k + i <= Capacity)
          BY <3>4, <5>1, <5>3
        <5>4. QED
          BY <5>2, <5>3
      <4> HIDE DEF j, k
      <4>4. QED
        BY <2>4, <4>1, <4>2, <4>3
    <3>5. QED
      BY <1>1, <2>1, <3>3, <3>4
  <2>6. ByAge' \in Seq(Hashes) /\ Len(ByAge') = Capacity
    <3>1. ByAge' = [i \in 1 .. Capacity |-> ByAge'[i]]
      BY <2>4 DEF ByAge
    <3>2. \A i \in 1 .. Capacity : ByAge'[i] \in Hashes
      BY <1>1, <1>2, <2>1, <2>5
    <3>3. ByAge' \in [1 .. Capacity -> Hashes]
      BY <3>1, <3>2
    <3>4. QED
      BY <1>1, <3>3
  <2>7. /\ Append(Tail(ByAge), h) \in Seq(Hashes)
        /\ Len(Append(Tail(ByAge), h)) = Capacity
        /\ \A i \in 1 .. Capacity : Append(Tail(ByAge), h)[i] =
                                IF i = Capacity THEN h ELSE ByAge[i + 1]
    BY <1>1, <1>2, <2>1
  <2>8. ByAge' = Append(Tail(ByAge), h)
    BY <1>1, <2>5, <2>6, <2>7
  <2>9. QED
    BY <1>2, <1>4, <2>1, <2>8 DEF Fifo!Remember
<1>5. QED
  BY <1>3, <1>4

(* A known-cache forgets exactly the hash added longest ago, and only when  *)
(* it is full.                                                              *)
THEOREM FifoRefined == CacheSpec => ImplementsFifo
<1>1. CacheInit => Fifo!Init
  BY DEF CacheInit, NewCache, Fifo!Init, ByAge
<1>2. RingMatchesSet /\ RingMatchesSet' /\ [CacheNext]_cache => [Fifo!Next]_ByAge
  <2> SUFFICES ASSUME RingMatchesSet, RingMatchesSet', [CacheNext]_cache
               PROVE  [Fifo!Next]_ByAge
    OBVIOUS
  <2>1. ASSUME NEW h \in Hashes, AddHash(h), h \notin cache.items
        PROVE  Fifo!Next
    BY <2>1, AddRemembers DEF Fifo!Next
  <2>2. ASSUME NEW h \in Hashes, AddHash(h), h \in cache.items
        PROVE  UNCHANGED ByAge
    BY <2>2 DEF AddHash, Add, Contains, ByAge
  <2>3. CASE UNCHANGED cache
    BY <2>3 DEF ByAge
  <2>4. QED
    BY <2>1, <2>2, <2>3 DEF CacheNext
<1>3. QED
  BY <1>1, <1>2, RingInvariant, PTL DEF CacheSpec, ImplementsFifo, Fifo!Spec

-----------------------------------------------------------------------------
(* Sums of sizes.                                                           *)

LEMMA TotalType == ASSUME NEW f, IsFiniteSet(Bytes(f)) PROVE Total(f) \in Nat
BY FS_CardinalityType DEF Total

LEMMA TotalOfNone ==
    ASSUME NEW f, DOMAIN f = {} PROVE IsFiniteSet(Bytes(f)) /\ Total(f) = 0
<1>1. Bytes(f) = {}
  BY DEF Bytes
<1>2. QED
  BY <1>1, FS_EmptySet DEF Total

(* One size more.                                                           *)
LEMMA TotalAdded ==
    ASSUME NEW f, NEW g, NEW x, x \notin DOMAIN f, DOMAIN g = DOMAIN f \cup {x},
           \A y \in DOMAIN f : g[y] = f[y], g[x] \in Nat, IsFiniteSet(Bytes(f))
    PROVE  IsFiniteSet(Bytes(g)) /\ Total(g) = Total(f) + g[x]
<1> DEFINE its == {x} \X (1..g[x])
<1>1. IsFiniteSet(its) /\ Cardinality(its) = g[x]
  <2>1. IsFiniteSet({x}) /\ Cardinality({x}) = 1
    BY FS_Singleton
  <2>2. IsFiniteSet(1..g[x]) /\ Cardinality(1..g[x]) = g[x]
    BY FS_Interval
  <2>3. IsFiniteSet(its) /\ Cardinality(its) = Cardinality({x}) * Cardinality(1..g[x])
    BY <2>1, <2>2, FS_Product
  <2>4. QED
    BY <2>1, <2>2, <2>3
<1>2. Bytes(g) = Bytes(f) \cup its
  BY DEF Bytes
<1>3. Bytes(f) \cap its = {}
  BY DEF Bytes
<1> HIDE DEF its
<1>4. /\ IsFiniteSet(Bytes(f) \cup its)
      /\ Cardinality(Bytes(f) \cup its) =
           Cardinality(Bytes(f)) + Cardinality(its) - Cardinality(Bytes(f) \cap its)
  BY <1>1, FS_Union
<1>5. Cardinality(Bytes(f) \cap its) = 0
  BY <1>3, FS_EmptySet
<1>6. Cardinality(Bytes(f)) \in Nat
  BY FS_CardinalityType
<1>7. ASSUME NEW a, NEW b \in Nat, NEW c \in Nat, NEW d, d = 0, a = b + c - d PROVE a = b + c
  BY <1>7
<1>8. Cardinality(Bytes(f) \cup its) = Cardinality(Bytes(f)) + g[x]
  BY <1>1, <1>4, <1>5, <1>6, <1>7
<1>9. QED
  BY <1>2, <1>4, <1>8 DEF Total

(* One size less: f without x is g.                                         *)
LEMMA TotalRemoved ==
    ASSUME NEW f, NEW g, NEW x \in DOMAIN f, DOMAIN g = DOMAIN f \ {x},
           \A y \in DOMAIN g : g[y] = f[y], f[x] \in Nat, IsFiniteSet(Bytes(f))
    PROVE  IsFiniteSet(Bytes(g)) /\ Total(f) = Total(g) + f[x]
<1>1. Bytes(g) \subseteq Bytes(f)
  BY DEF Bytes
<1>2. IsFiniteSet(Bytes(g))
  BY <1>1, FS_Subset
<1>3. QED
  BY <1>2, TotalAdded

(* Moving the places down by one moves the bytes along.                     *)
LEMMA TotalShifted ==
    ASSUME NEW n \in Nat, NEW f, NEW g, DOMAIN f = 2..(n + 1), DOMAIN g = 1..n,
           \A i \in 1..n : g[i] = f[i + 1], IsFiniteSet(Bytes(f))
    PROVE  IsFiniteSet(Bytes(g)) /\ Total(g) = Total(f)
<1> DEFINE b == [y \in Bytes(f) |-> <<y[1] - 1, y[2]>>]
<1>1. \A y : y \in Bytes(f) <=> \E i \in 1..n : y \in {i + 1} \X (1..f[i + 1])
  <2>1. \A y : y \in Bytes(f) <=> \E j \in 2..(n + 1) : y \in {j} \X (1..f[j])
    BY DEF Bytes
  <2>2. \A j \in 2..(n + 1) : j - 1 \in 1..n /\ (j - 1) + 1 = j
    OBVIOUS
  <2>3. \A i \in 1..n : i + 1 \in 2..(n + 1)
    OBVIOUS
  <2> TAKE y
  <2>4. ASSUME y \in Bytes(f) PROVE \E i \in 1..n : y \in {i + 1} \X (1..f[i + 1])
    <3>1. PICK j \in 2..(n + 1) : y \in {j} \X (1..f[j])
      BY <2>1, <2>4
    <3>2. WITNESS j - 1 \in 1..n
    <3>3. QED
      BY <2>2, <3>1
  <2>5. ASSUME NEW i \in 1..n, y \in {i + 1} \X (1..f[i + 1]) PROVE y \in Bytes(f)
    BY <2>1, <2>3, <2>5
  <2>6. QED
    BY <2>4, <2>5
<1>2. \A z : z \in Bytes(g) <=> \E i \in 1..n : z \in {i} \X (1..f[i + 1])
  BY DEF Bytes
<1>3. b \in [Bytes(f) -> Bytes(g)]
  <2> SUFFICES ASSUME NEW y \in Bytes(f) PROVE <<y[1] - 1, y[2]>> \in Bytes(g)
    OBVIOUS
  <2>1. PICK i \in 1..n : y \in {i + 1} \X (1..f[i + 1])
    BY <1>1
  <2>2. y[1] - 1 = i /\ y[2] \in 1..f[i + 1]
    BY <2>1
  <2>3. QED
    BY <1>2, <2>2
<1>4. \A y, z \in Bytes(f) : b[y] = b[z] => y = z
  <2> SUFFICES ASSUME NEW y \in Bytes(f), NEW z \in Bytes(f), b[y] = b[z] PROVE y = z
    OBVIOUS
  <2>1. PICK i \in 1..n : y \in {i + 1} \X (1..f[i + 1])
    BY <1>1
  <2>2. PICK j \in 1..n : z \in {j + 1} \X (1..f[j + 1])
    BY <1>1
  <2>3. y = <<i + 1, y[2]>> /\ z = <<j + 1, z[2]>>
    BY <2>1, <2>2
  <2>4. y[1] - 1 = z[1] - 1 /\ y[2] = z[2]
    OBVIOUS
  <2>5. y[1] = i + 1 /\ z[1] = j + 1
    BY <2>1, <2>2
  <2>6. i = j
    BY <2>4, <2>5
  <2>7. QED
    BY <2>3, <2>4, <2>6
<1>5. \A z \in Bytes(g) : \E y \in Bytes(f) : b[y] = z
  <2> SUFFICES ASSUME NEW z \in Bytes(g) PROVE \E y \in Bytes(f) : b[y] = z
    OBVIOUS
  <2>1. PICK i \in 1..n : z \in {i} \X (1..f[i + 1])
    BY <1>2
  <2>2. <<i + 1, z[2]>> \in Bytes(f)
    BY <1>1, <2>1
  <2>3. b[<<i + 1, z[2]>>] = <<(i + 1) - 1, z[2]>>
    BY <2>2
  <2>4. z = <<i, z[2]>> /\ (i + 1) - 1 = i
    BY <2>1
  <2>5. QED
    BY <2>2, <2>3, <2>4
<1> HIDE DEF b
<1>6. b \in Bijection(Bytes(f), Bytes(g))
  BY <1>3, <1>4, <1>5 DEF Bijection, Injection, IsInjective, Surjection
<1>7. ExistsBijection(Bytes(f), Bytes(g))
  BY <1>6 DEF ExistsBijection
<1>8. QED
  BY <1>7, FS_Bijection DEF Total

-----------------------------------------------------------------------------
(* The queue.                                                               *)

(* A sender in a send method has a hash, and a write has one in hand.       *)
Busy ==
    /\ \A s \in Senders : spc[s] # "idle" => item[s] \in Hashes
    /\ bpc = "write" => writing \in Hashes

(* Only finitely many permits are out, so that their sum is a number.       *)
Finite ==
    /\ IsFiniteSet(Holders)
    /\ IsFiniteSet(Bytes(QueuedSizes))
    /\ IsFiniteSet(Bytes(HeldSizes))

(* What is being written.                                                   *)
InHand == IF bpc = "write" THEN 1 ELSE 0
SizeInHand == IF bpc = "write" THEN Size[writing] ELSE 0

(* The two equations of PermitsAccounted.                                   *)
Balanced ==
    /\ Finite
    /\ sem.num = Len(queue) + Cardinality(Holders) + InHand
    /\ sem.size = Total(QueuedSizes) + Total(HeldSizes) + SizeInHand

QueueInv == TypeOK /\ Busy /\ Balanced

(* The parts of the two sums are numbers.                                   *)
LEMMA Numbers ==
    ASSUME QueueInv
    PROVE  /\ Len(queue) \in Nat /\ Cardinality(Holders) \in Nat
           /\ Total(QueuedSizes) \in Nat /\ Total(HeldSizes) \in Nat
           /\ sem.num \in 0..MaxItems /\ sem.size \in 0..MaxSize
           /\ \A h \in Hashes : Size[h] \in Nat
           /\ MaxItems \in Nat /\ MaxSize \in Nat
           /\ InHand \in Nat /\ SizeInHand \in Nat
<1>1. Cardinality(Holders) \in Nat
  BY FS_CardinalityType DEF QueueInv, Balanced, Finite
<1>2. Total(QueuedSizes) \in Nat /\ Total(HeldSizes) \in Nat
  BY TotalType DEF QueueInv, Balanced, Finite
<1>3. Len(queue) \in Nat /\ sem.num \in 0..MaxItems /\ sem.size \in 0..MaxSize
  BY DEF QueueInv, TypeOK
<1>4. \A h \in Hashes : Size[h] \in Nat
  BY PeerQueueAssumption
<1>5. InHand \in Nat /\ SizeInHand \in Nat
  BY <1>4 DEF QueueInv, Busy, InHand, SizeInHand
<1>6. QED
  BY <1>1, <1>2, <1>3, <1>4, <1>5, PeerQueueAssumption

(* The new values of a step are of their types.                             *)
LEMMA StepTyped == TypeOK /\ Busy /\ [Next]_vars => TypeOK' /\ Busy'
<1> SUFFICES ASSUME TypeOK, Busy, [Next]_vars PROVE TypeOK' /\ Busy'
  OBVIOUS
<1> USE PeerQueueAssumption DEF TypeOK, Busy
<1>1. ASSUME NEW s \in Senders, Begin(s) PROVE TypeOK' /\ Busy'
  BY <1>1 DEF Begin, Goto
<1>2. ASSUME NEW s \in Senders, Acquire(s) PROVE TypeOK' /\ Busy'
  <2>1. sem' \in [num : 0..MaxItems, size : 0..MaxSize]
    BY <1>2 DEF Acquire, Goto, CanAcquire, Acquired
  <2>2. QED
    BY <1>2, <2>1 DEF Acquire, Goto
<1>3. ASSUME NEW s \in Senders, GiveUp(s) PROVE TypeOK' /\ Busy'
  BY <1>3 DEF GiveUp, GivesUp, Goto, Idle
<1>4. ASSUME NEW s \in Senders, Push(s) PROVE TypeOK' /\ Busy'
  <2>1. queue' \in Seq(Hashes) /\ Len(queue') <= MaxItems
    BY <1>4 DEF Push, Goto
  <2>2. QED
    BY <1>4, <2>1 DEF Push, HeldAfterPush, Goto
<1>5. ASSUME NEW h \in Hashes PROVE Released(h) \in [num : 0..MaxItems, size : 0..MaxSize]
  BY DEF Released
<1>6. ASSUME NEW s \in Senders, PushFails(s) PROVE TypeOK' /\ Busy'
  <2>1. item[s] \in Hashes
    BY <1>6 DEF PushFails
  <2>2. sem' \in [num : 0..MaxItems, size : 0..MaxSize]
    BY <1>5, <1>6, <2>1 DEF PushFails
  <2>3. told' \subseteq Hashes
    BY <1>6, <2>1 DEF PushFails, GivesUp
  <2>4. QED
    BY <1>6, <2>1, <2>2, <2>3 DEF PushFails, Goto, Idle
<1>7. ASSUME NEW s \in Senders, MarkSent(s) PROVE TypeOK' /\ Busy'
  BY <1>7 DEF MarkSent, Idle, Goto
<1>8. CASE Take
  <2>1. /\ Head(queue) \in Hashes /\ Tail(queue) \in Seq(Hashes)
        /\ Len(Tail(queue)) <= MaxItems
    BY <1>8 DEF Take
  <2>2. QED
    BY <1>8, <2>1 DEF Take, HeldWhileWriting, senderVars
<1>9. CASE Write
  BY <1>5, <1>9 DEF Write, senderVars
<1>10. CASE Exit
  BY <1>10 DEF Exit, senderVars
<1>11. ASSUME NEW h \in Hashes, Mark(h) PROVE TypeOK' /\ Busy'
  BY <1>11 DEF Mark, senderVars
<1>12. CASE CloseSemaphore
  BY <1>12 DEF CloseSemaphore, senderVars
<1>13. CASE CloseTerm
  BY <1>13 DEF CloseTerm, TermClosed, senderVars
<1>14. CASE UNCHANGED vars
  BY <1>14 DEF vars, senderVars
<1>15. QED
  BY <1>1, <1>2, <1>3, <1>4, <1>6, <1>7, <1>8, <1>9, <1>10, <1>11, <1>12, <1>13, <1>14
     DEF Next, Send

(* The steps that touch neither the queue nor a permit.                     *)
LEMMA NothingMoves ==
    ASSUME Balanced, UNCHANGED <<queue, sem, bpc, writing>>, Holders' = Holders,
           \A s \in Holders : item'[s] = item[s]
    PROVE  Balanced'
<1>1. QueuedSizes' = QueuedSizes
  BY DEF QueuedSizes
<1>2. HeldSizes' = HeldSizes
  BY DEF HeldSizes
<1>3. InHand' = InHand /\ SizeInHand' = SizeInHand
  BY DEF InHand, SizeInHand
<1>4. QED
  BY <1>1, <1>2, <1>3 DEF Balanced, Finite

(* A sender that takes a permit.                                            *)
LEMMA HolderComes ==
    ASSUME QueueInv, NEW s \in Senders, Goto(s, "acquire", "push"), item' = item
    PROVE  /\ IsFiniteSet(Holders') /\ IsFiniteSet(Bytes(HeldSizes'))
           /\ Cardinality(Holders') = Cardinality(Holders) + 1
           /\ Total(HeldSizes') = Total(HeldSizes) + Size[item[s]]
<1>1. Holders' = Holders \cup {s} /\ s \notin Holders
  BY DEF QueueInv, TypeOK, Goto, Holders
<1>2. IsFiniteSet(Holders) /\ IsFiniteSet(Bytes(HeldSizes))
  BY DEF QueueInv, Balanced, Finite
<1>3. IsFiniteSet(Holders') /\ Cardinality(Holders') = Cardinality(Holders) + 1
  BY <1>1, <1>2, FS_AddElement
<1>4. item[s] \in Hashes /\ Size[item[s]] \in Nat
  BY PeerQueueAssumption DEF QueueInv, Busy, Goto
<1>5. /\ DOMAIN HeldSizes = Holders /\ DOMAIN HeldSizes' = Holders \cup {s}
      /\ \A r \in Holders : HeldSizes'[r] = HeldSizes[r]
      /\ HeldSizes'[s] = Size[item[s]]
  BY <1>1 DEF HeldSizes
<1>6. /\ IsFiniteSet(Bytes(HeldSizes'))
      /\ Total(HeldSizes') = Total(HeldSizes) + HeldSizes'[s]
  BY <1>1, <1>2, <1>4, <1>5, TotalAdded
<1>7. QED
  BY <1>3, <1>5, <1>6

(* A sender that has put its message in the queue or failed to.             *)
LEMMA HolderGoes ==
    ASSUME QueueInv, NEW s \in Senders, NEW to, to # "push", Goto(s, "push", to),
           \A r \in Senders \ {s} : item'[r] = item[r]
    PROVE  /\ IsFiniteSet(Holders') /\ IsFiniteSet(Bytes(HeldSizes'))
           /\ Cardinality(Holders') \in Nat /\ Total(HeldSizes') \in Nat
           /\ Cardinality(Holders) = Cardinality(Holders') + 1
           /\ Total(HeldSizes) = Total(HeldSizes') + Size[item[s]]
           /\ item[s] \in Hashes
<1>1. Holders' = Holders \ {s} /\ s \in Holders
  BY DEF QueueInv, TypeOK, Goto, Holders
<1>2. IsFiniteSet(Holders) /\ IsFiniteSet(Bytes(HeldSizes))
  BY DEF QueueInv, Balanced, Finite
<1>3. IsFiniteSet(Holders') /\ Cardinality(Holders') = Cardinality(Holders) - 1
  BY <1>1, <1>2, FS_RemoveElement
<1>4. Cardinality(Holders) \in Nat /\ Cardinality(Holders') \in Nat
  BY <1>2, <1>3, FS_CardinalityType
<1>5. item[s] \in Hashes /\ Size[item[s]] \in Nat
  BY PeerQueueAssumption DEF QueueInv, Busy, Goto
<1>6. /\ DOMAIN HeldSizes = Holders /\ DOMAIN HeldSizes' = Holders \ {s}
      /\ \A r \in Holders \ {s} : HeldSizes'[r] = HeldSizes[r]
      /\ HeldSizes[s] = Size[item[s]]
  BY <1>1 DEF HeldSizes, Holders
<1>7. /\ IsFiniteSet(Bytes(HeldSizes'))
      /\ Total(HeldSizes) = Total(HeldSizes') + HeldSizes[s]
  BY <1>1, <1>2, <1>5, <1>6, TotalRemoved
<1>8. Total(HeldSizes') \in Nat
  BY <1>7, TotalType
<1>9. QED
  BY <1>3, <1>4, <1>5, <1>6, <1>7, <1>8

(* The queue grows at its end.                                              *)
LEMMA QueueGrows ==
    ASSUME QueueInv, NEW h \in Hashes, queue' = Append(queue, h)
    PROVE  /\ IsFiniteSet(Bytes(QueuedSizes')) /\ Len(queue') = Len(queue) + 1
           /\ Total(QueuedSizes') = Total(QueuedSizes) + Size[h]
<1> DEFINE n == Len(queue)
<1>1. queue \in Seq(Hashes) /\ n \in Nat
  BY DEF QueueInv, TypeOK
<1>2. /\ Len(queue') = n + 1 /\ DOMAIN queue' = (1..n) \cup {n + 1}
      /\ \A i \in 1..n : queue'[i] = queue[i]
      /\ queue'[n + 1] = h
  BY <1>1
<1>3. /\ DOMAIN QueuedSizes = 1..n /\ n + 1 \notin 1..n
      /\ DOMAIN QueuedSizes' = (1..n) \cup {n + 1}
      /\ \A i \in 1..n : QueuedSizes'[i] = QueuedSizes[i]
      /\ QueuedSizes'[n + 1] = Size[h]
  BY <1>1, <1>2 DEF QueuedSizes
<1>4. Size[h] \in Nat /\ IsFiniteSet(Bytes(QueuedSizes))
  BY PeerQueueAssumption DEF QueueInv, Balanced, Finite
<1> HIDE DEF n
<1>5. /\ n + 1 \notin DOMAIN QueuedSizes
      /\ DOMAIN QueuedSizes' = DOMAIN QueuedSizes \cup {n + 1}
      /\ \A i \in DOMAIN QueuedSizes : QueuedSizes'[i] = QueuedSizes[i]
      /\ QueuedSizes'[n + 1] \in Nat
  BY <1>3, <1>4
<1>6. /\ IsFiniteSet(Bytes(QueuedSizes'))
      /\ Total(QueuedSizes') = Total(QueuedSizes) + QueuedSizes'[n + 1]
  BY <1>4, <1>5, TotalAdded
<1>7. QED
  BY <1>2, <1>3, <1>6 DEF n

(* The first message leaves it and the others move up.                      *)
LEMMA QueueShrinks ==
    ASSUME QueueInv, queue # <<>>, queue' = Tail(queue)
    PROVE  /\ IsFiniteSet(Bytes(QueuedSizes')) /\ Len(queue) = Len(queue') + 1
           /\ Len(queue') \in Nat /\ Total(QueuedSizes') \in Nat
           /\ Total(QueuedSizes) = Total(QueuedSizes') + Size[Head(queue)]
<1> DEFINE n == Len(queue) - 1
           rest == [i \in 2..(n + 1) |-> Size[queue[i]]]
<1>1. queue \in Seq(Hashes) /\ n \in Nat /\ Len(queue) = n + 1
  BY DEF QueueInv, TypeOK
<1>2. /\ Len(queue') = n /\ DOMAIN queue' = 1..n
      /\ \A i \in 1..n : queue'[i] = queue[i + 1]
      /\ Head(queue) = queue[1] /\ queue[1] \in Hashes
  BY <1>1
<1>3. /\ DOMAIN QueuedSizes = 1..(n + 1) /\ DOMAIN QueuedSizes' = 1..n
      /\ \A i \in 1..(n + 1) : QueuedSizes[i] = Size[queue[i]]
      /\ \A i \in 1..n : QueuedSizes'[i] = Size[queue[i + 1]]
  BY <1>1, <1>2 DEF QueuedSizes
<1>4. /\ 1 \in 1..(n + 1) /\ 2..(n + 1) = (1..(n + 1)) \ {1}
      /\ \A i \in 1..n : i + 1 \in 2..(n + 1)
  BY <1>1
<1>5. /\ DOMAIN rest = 2..(n + 1)
      /\ \A i \in 2..(n + 1) : rest[i] = QueuedSizes[i]
      /\ \A i \in 1..n : QueuedSizes'[i] = rest[i + 1]
  BY <1>3, <1>4
<1> HIDE DEF n, rest
<1>6. QueuedSizes[1] = Size[Head(queue)] /\ QueuedSizes[1] \in Nat
  BY <1>2, <1>3, <1>4, PeerQueueAssumption
<1>7. IsFiniteSet(Bytes(QueuedSizes))
  BY DEF QueueInv, Balanced, Finite
<1>8. /\ IsFiniteSet(Bytes(rest))
      /\ Total(QueuedSizes) = Total(rest) + QueuedSizes[1]
  <2>1. /\ 1 \in DOMAIN QueuedSizes
        /\ DOMAIN rest = DOMAIN QueuedSizes \ {1}
        /\ \A i \in DOMAIN rest : rest[i] = QueuedSizes[i]
    BY <1>3, <1>4, <1>5
  <2>2. QED
    BY <1>6, <1>7, <2>1, TotalRemoved
<1>9. /\ IsFiniteSet(Bytes(QueuedSizes'))
      /\ Total(QueuedSizes') = Total(rest)
  <2> DEFINE shifted == QueuedSizes'
  <2>1. n \in Nat /\ DOMAIN rest = 2..(n + 1) /\ DOMAIN shifted = 1..n
    BY <1>1, <1>3, <1>5
  <2>2. \A i \in 1..n : shifted[i] = rest[i + 1]
    BY <1>5
  <2>3. IsFiniteSet(Bytes(rest))
    BY <1>8
  <2> HIDE DEF shifted
  <2>4. IsFiniteSet(Bytes(shifted)) /\ Total(shifted) = Total(rest)
    BY <2>1, <2>2, <2>3, TotalShifted
  <2>5. QED
    BY <2>4 DEF shifted
<1>10. Total(QueuedSizes') \in Nat
  BY <1>9, TotalType
<1>11. QED
  BY <1>1, <1>2, <1>6, <1>8, <1>9, <1>10

(* A permit that is held is given back in full: the semaphore is never      *)
(* reset.                                                                   *)
LEMMA NeverReset ==
    ASSUME QueueInv, NEW h \in Hashes, sem.num >= 1, sem.size >= Size[h]
    PROVE  Released(h) = [num |-> sem.num - 1, size |-> sem.size - Size[h]]
BY Numbers DEF Released

(* No step loses a permit or gives one back twice.                          *)
LEMMA StepBalanced == QueueInv /\ [Next]_vars => Balanced'
<1> SUFFICES ASSUME QueueInv, [Next]_vars PROVE Balanced'
  OBVIOUS
<1>a. /\ Len(queue) \in Nat /\ Cardinality(Holders) \in Nat
      /\ Total(QueuedSizes) \in Nat /\ Total(HeldSizes) \in Nat
      /\ InHand \in Nat /\ SizeInHand \in Nat
      /\ \A h \in Hashes : Size[h] \in Nat
  BY Numbers
<1>b. /\ sem.num = Len(queue) + Cardinality(Holders) + InHand
      /\ sem.size = Total(QueuedSizes) + Total(HeldSizes) + SizeInHand
      /\ IsFiniteSet(Holders) /\ IsFiniteSet(Bytes(QueuedSizes))
      /\ IsFiniteSet(Bytes(HeldSizes))
  BY DEF QueueInv, Balanced, Finite
<1>c. bpc' = bpc /\ writing' = writing => InHand' = InHand /\ SizeInHand' = SizeInHand
  BY DEF InHand, SizeInHand
<1> USE DEF QueueInv
<1>1. ASSUME NEW s \in Senders, Begin(s) PROVE Balanced'
  <2>1. Holders' = Holders /\ \A r \in Holders : item'[r] = item[r]
    BY <1>1 DEF Begin, Goto, Holders, TypeOK
  <2>2. QED
    BY <1>1, <2>1, NothingMoves DEF Begin
<1>2. ASSUME NEW s \in Senders, Acquire(s) PROVE Balanced'
  <2> DEFINE size == Size[item[s]]
  <2>1. Goto(s, "acquire", "push") /\ UNCHANGED <<queue, bpc, writing, item>>
    BY <1>2 DEF Acquire
  <2>2. sem'.num = sem.num + 1 /\ sem'.size = sem.size + size
    BY <1>2 DEF Acquire, Acquired
  <2>3. QueuedSizes' = QueuedSizes
    BY <2>1 DEF QueuedSizes
  <2>4. size \in Nat
    BY <1>a, <2>1 DEF Busy, Goto
  <2>5. /\ IsFiniteSet(Holders') /\ IsFiniteSet(Bytes(HeldSizes'))
        /\ Cardinality(Holders') = Cardinality(Holders) + 1
        /\ Total(HeldSizes') = Total(HeldSizes) + size
    BY <2>1, HolderComes
  <2> HIDE DEF QueueInv, size
  <2>6. QED
    <3>1. InHand' = InHand /\ SizeInHand' = SizeInHand
      BY <1>c, <2>1
    <3>2. sem'.num = Len(queue') + Cardinality(Holders') + InHand'
      BY <1>a, <1>b, <2>1, <2>2, <2>5, <3>1
    <3>3. sem'.size = Total(QueuedSizes') + Total(HeldSizes') + SizeInHand'
      BY <1>a, <1>b, <2>2, <2>3, <2>4, <2>5, <3>1
    <3>4. QED
      BY <1>b, <2>3, <2>5, <3>2, <3>3 DEF Balanced, Finite
<1>3. ASSUME NEW s \in Senders, GiveUp(s) PROVE Balanced'
  <2>1. Holders' = Holders /\ \A r \in Holders : item'[r] = item[r]
    BY <1>3 DEF GiveUp, Goto, Idle, Holders, TypeOK
  <2>2. QED
    BY <1>3, <2>1, NothingMoves DEF GiveUp
<1>4. ASSUME NEW s \in Senders, Push(s) PROVE Balanced'
  <2> DEFINE size == Size[item[s]]
  <2>1. /\ Goto(s, "push", "mark") /\ queue' = Append(queue, item[s])
        /\ UNCHANGED <<sem, bpc, writing, item>>
    BY <1>4 DEF Push, HeldAfterPush
  <2>2. /\ IsFiniteSet(Holders') /\ IsFiniteSet(Bytes(HeldSizes'))
        /\ Cardinality(Holders') \in Nat /\ Total(HeldSizes') \in Nat
        /\ Cardinality(Holders) = Cardinality(Holders') + 1
        /\ Total(HeldSizes) = Total(HeldSizes') + size
        /\ item[s] \in Hashes
    BY <2>1, HolderGoes
  <2>3. /\ IsFiniteSet(Bytes(QueuedSizes')) /\ Len(queue') = Len(queue) + 1
        /\ Total(QueuedSizes') = Total(QueuedSizes) + size
    BY <2>1, <2>2, QueueGrows
  <2>4. size \in Nat
    BY <1>a, <2>2
  <2> HIDE DEF QueueInv, size
  <2>5. QED
    <3>1. InHand' = InHand /\ SizeInHand' = SizeInHand
      BY <1>c, <2>1
    <3>2. sem'.num = Len(queue') + Cardinality(Holders') + InHand'
      BY <1>a, <1>b, <2>1, <2>2, <2>3, <3>1
    <3>3. sem'.size = Total(QueuedSizes') + Total(HeldSizes') + SizeInHand'
      BY <1>a, <1>b, <2>1, <2>2, <2>3, <2>4, <3>1
    <3>4. QED
      BY <1>b, <2>2, <2>3, <3>2, <3>3 DEF Balanced, Finite
<1>5. ASSUME NEW s \in Senders, PushFails(s) PROVE Balanced'
  <2> DEFINE size == Size[item[s]]
  <2>1. /\ Goto(s, "push", "mark") \/ Goto(s, "push", "idle")
        /\ \A r \in Senders \ {s} : item'[r] = item[r]
        /\ sem' = Released(item[s]) /\ UNCHANGED <<queue, bpc, writing>>
    BY <1>5 DEF PushFails, Idle, TypeOK
  <2>2. /\ IsFiniteSet(Holders') /\ IsFiniteSet(Bytes(HeldSizes'))
        /\ Cardinality(Holders') \in Nat /\ Total(HeldSizes') \in Nat
        /\ Cardinality(Holders) = Cardinality(Holders') + 1
        /\ Total(HeldSizes) = Total(HeldSizes') + size
        /\ item[s] \in Hashes
    BY <2>1, HolderGoes
  <2>3. size \in Nat
    BY <1>a, <2>2
  <2> HIDE DEF QueueInv, size
  <2>4. sem.num >= 1 /\ sem.size >= size
    <3>1. \A l \in Nat, c \in Nat, h \in Nat : l + (c + 1) + h >= 1
      OBVIOUS
    <3>2. \A t \in Nat, c \in Nat, h \in Nat : t + (c + size) + h >= size
      BY <2>3
    <3>3. sem.num >= 1
      BY <1>a, <1>b, <2>2, <3>1
    <3>4. sem.size >= size
      BY <1>a, <1>b, <2>2, <3>2
    <3>5. QED
      BY <3>3, <3>4
  <2>5. sem'.num = sem.num - 1 /\ sem'.size = sem.size - size
    BY <2>1, <2>2, <2>4, NeverReset DEF size
  <2>6. QueuedSizes' = QueuedSizes
    BY <2>1 DEF QueuedSizes
  <2>7. QED
    <3>1. InHand' = InHand /\ SizeInHand' = SizeInHand
      BY <1>c, <2>1
    <3>2. sem'.num = Len(queue') + Cardinality(Holders') + InHand'
      BY <1>a, <1>b, <2>1, <2>2, <2>5, <3>1
    <3>3. sem'.size = Total(QueuedSizes') + Total(HeldSizes') + SizeInHand'
      BY <1>a, <1>b, <2>2, <2>3, <2>5, <2>6, <3>1
    <3>4. QED
      BY <1>b, <2>2, <2>6, <3>2, <3>3 DEF Balanced, Finite
<1>6. ASSUME NEW s \in Senders, MarkSent(s) PROVE Balanced'
  <2>1. Holders' = Holders /\ \A r \in Holders : item'[r] = item[r]
    BY <1>6 DEF MarkSent, Goto, Idle, Holders, TypeOK
  <2>2. QED
    BY <1>6, <2>1, NothingMoves DEF MarkSent
<1>7. CASE Take
  <2>1. /\ queue # <<>> /\ queue' = Tail(queue)
        /\ bpc = "select" /\ bpc' = "write" /\ writing' = Head(queue)
        /\ UNCHANGED <<sem, spc, item>>
    BY <1>7 DEF Take, HeldWhileWriting, senderVars
  <2>2. Holders' = Holders /\ HeldSizes' = HeldSizes
    BY <2>1 DEF Holders, HeldSizes
  <2>3. InHand = 0 /\ SizeInHand = 0 /\ InHand' = 1 /\ SizeInHand' = Size[Head(queue)]
    BY <2>1 DEF InHand, SizeInHand
  <2>4. Size[Head(queue)] \in Nat
    BY <1>a, <2>1 DEF TypeOK
  <2>5. /\ IsFiniteSet(Bytes(QueuedSizes')) /\ Len(queue) = Len(queue') + 1
        /\ Len(queue') \in Nat /\ Total(QueuedSizes') \in Nat
        /\ Total(QueuedSizes) = Total(QueuedSizes') + Size[Head(queue)]
    BY <2>1, QueueShrinks
  <2> HIDE DEF QueueInv
  <2>6. QED
    BY <1>a, <1>b, <2>1, <2>2, <2>3, <2>4, <2>5 DEF Balanced, Finite
<1>8. CASE Write
  <2>1. /\ bpc = "write" /\ bpc' = "select" /\ sem' = Released(writing)
        /\ UNCHANGED <<queue, spc, item>>
    BY <1>8 DEF Write, senderVars
  <2>2. Holders' = Holders /\ HeldSizes' = HeldSizes /\ QueuedSizes' = QueuedSizes
    BY <2>1 DEF Holders, HeldSizes, QueuedSizes
  <2>3. writing \in Hashes /\ Size[writing] \in Nat
    BY <1>a, <2>1 DEF Busy
  <2>4. InHand = 1 /\ SizeInHand = Size[writing] /\ InHand' = 0 /\ SizeInHand' = 0
    BY <2>1 DEF InHand, SizeInHand
  <2> HIDE DEF QueueInv
  <2>5. sem.num >= 1 /\ sem.size >= Size[writing]
    BY <1>a, <1>b, <2>3, <2>4
  <2>6. sem'.num = sem.num - 1 /\ sem'.size = sem.size - Size[writing]
    BY <2>1, <2>3, <2>5, NeverReset
  <2>7. QED
    BY <1>a, <1>b, <2>1, <2>2, <2>3, <2>4, <2>6 DEF Balanced, Finite
<1>9. CASE Exit
  <2>1. /\ bpc' # "write" /\ bpc # "write"
        /\ UNCHANGED <<queue, sem, spc, item>>
    BY <1>9 DEF Exit, senderVars
  <2>2. Holders' = Holders /\ HeldSizes' = HeldSizes /\ QueuedSizes' = QueuedSizes
    BY <2>1 DEF Holders, HeldSizes, QueuedSizes
  <2>3. InHand' = InHand /\ SizeInHand' = SizeInHand
    BY <2>1 DEF InHand, SizeInHand
  <2>4. QED
    BY <2>1, <2>2, <2>3 DEF Balanced, Finite
<1>10. ASSUME UNCHANGED <<queue, sem, bpc, writing, spc, item>> PROVE Balanced'
  <2>1. Holders' = Holders
    BY <1>10 DEF Holders
  <2>2. QED
    BY <1>10, <2>1, NothingMoves
<1>11. ASSUME NEW h \in Hashes, Mark(h) PROVE Balanced'
  BY <1>10, <1>11 DEF Mark, senderVars
<1>12. CASE CloseSemaphore \/ CloseTerm
  BY <1>10, <1>12 DEF CloseSemaphore, CloseTerm, senderVars
<1>13. CASE UNCHANGED vars
  BY <1>10, <1>13 DEF vars, senderVars
<1>14. QED
  BY <1>1, <1>2, <1>3, <1>4, <1>5, <1>6, <1>7, <1>8, <1>9, <1>11, <1>12, <1>13
     DEF Next, Send

(* Nobody holds a permit at first.                                          *)
LEMMA InitQueue == Init => QueueInv
<1> SUFFICES ASSUME Init PROVE QueueInv
  OBVIOUS
<1>1. Holders = {} /\ DOMAIN QueuedSizes = {} /\ DOMAIN HeldSizes = {}
  BY DEF Init, Holders, QueuedSizes, HeldSizes
<1>2. IsFiniteSet(Holders) /\ Cardinality(Holders) = 0
  BY <1>1, FS_EmptySet
<1>3. /\ IsFiniteSet(Bytes(QueuedSizes)) /\ Total(QueuedSizes) = 0
      /\ IsFiniteSet(Bytes(HeldSizes)) /\ Total(HeldSizes) = 0
  BY <1>1, TotalOfNone
<1>4. queue \in Seq(Hashes) /\ Len(queue) = 0
  BY DEF Init
<1>5. sem \in [num : 0..MaxItems, size : 0..MaxSize]
  BY PeerQueueAssumption DEF Init
<1>6. sends \in 0..MaxSends /\ Len(queue) <= MaxItems
  BY <1>4, PeerQueueAssumption DEF Init
<1>7. TypeOK /\ Busy
  BY <1>4, <1>5, <1>6 DEF Init, TypeOK, Busy
<1>8. QED
  BY <1>2, <1>3, <1>4, <1>7 DEF Init, QueueInv, Balanced, Finite, InHand, SizeInHand

LEMMA QueueInvariant == Spec => []QueueInv
<1>1. QueueInv /\ [Next]_vars => QueueInv'
  BY StepTyped, StepBalanced DEF QueueInv
<1>2. QED
  BY <1>1, InitQueue, PTL DEF Spec

(* The permits taken are those of the messages in the queue, of the one     *)
(* being written and of the senders about to push: sendItem,                *)
(* asyncSendEncodedItem, enqueueSendEncodedItem, broadcast and Close lose   *)
(* none and give none back twice.                                           *)
THEOREM PermitsConserved == Spec => []PermitsAccounted
<1>1. QueueInv => PermitsAccounted
  BY DEF QueueInv, Balanced, InHand, SizeInHand, PermitsAccounted
<1>2. QED
  BY <1>1, QueueInvariant, PTL

(* A sender with a permit finds room: the queue and its holders share       *)
(* MaxQueuedItems permits.                                                  *)
LEMMA HoldersFit ==
    ASSUME QueueInv
    PROVE  /\ Holders # {} => Cardinality(Holders) >= 1
           /\ Len(queue) + Cardinality(Holders) + InHand <= MaxItems
<1>1. Holders # {} => Cardinality(Holders) # 0
  BY FS_EmptySet DEF QueueInv, Balanced, Finite
<1>2. QED
  BY <1>1, Numbers DEF QueueInv, Balanced

(* The default case of sendItem and asyncSendEncodedItem is never taken,    *)
(* and an Enqueue method that got its permit does not block.                *)
THEOREM HoldersFindRoom == Spec => []RoomForHolders
<1>1. QueueInv => RoomForHolders
  BY HoldersFit, Numbers DEF RoomForHolders
<1>2. QED
  BY <1>1, QueueInvariant, PTL

-----------------------------------------------------------------------------
(* What the queue does to the cache is what KnownCache allows.              *)
LEMMA StepOfCache == Busy /\ [Next]_vars => [CacheNext]_cache
<1> SUFFICES ASSUME Busy, [Next]_vars PROVE [CacheNext]_cache
  OBVIOUS
<1>1. ASSUME NEW s \in Senders, Begin(s) PROVE UNCHANGED cache
  BY <1>1 DEF Begin
<1>2. ASSUME NEW s \in Senders, Acquire(s) \/ GiveUp(s) \/ Push(s) \/ PushFails(s)
      PROVE  UNCHANGED cache
  BY <1>2 DEF Acquire, GiveUp, Push, PushFails
<1>3. ASSUME NEW s \in Senders, MarkSent(s) PROVE CacheNext
  <2>1. item[s] \in Hashes
    BY <1>3 DEF MarkSent, Idle, Goto, Busy
  <2>2. QED
    BY <1>3, <2>1 DEF MarkSent, CacheNext
<1>4. CASE Take \/ Write \/ Exit \/ CloseSemaphore \/ CloseTerm
  BY <1>4 DEF Take, Write, Exit, CloseSemaphore, CloseTerm
<1>5. ASSUME NEW h \in Hashes, Mark(h) PROVE CacheNext
  BY <1>5 DEF Mark, CacheNext
<1>6. CASE UNCHANGED vars
  BY <1>6 DEF vars
<1>7. QED
  BY <1>1, <1>2, <1>3, <1>4, <1>5, <1>6 DEF Next, Send

LEMMA UsesCache == Spec => CacheSpec
<1>1. Init => CacheInit
  BY DEF Init
<1>2. QueueInv /\ [Next]_vars => [CacheNext]_cache
  BY StepOfCache DEF QueueInv
<1>3. QED
  BY <1>1, <1>2, QueueInvariant, PTL DEF Spec, CacheSpec

(* In use by the message loop and the senders, the set and the ring of a    *)
(* known-cache agree (txCache.Add).                                         *)
THEOREM RingInUse == Spec => []RingMatchesSet
BY UsesCache, RingInvariant, PTL

(* And it forgets in the order of addition, whoever adds.                   *)
THEOREM FifoInUse == Spec => ImplementsFifo
BY UsesCache, FifoRefined, PTL

-----------------------------------------------------------------------------
(* A sender that is about to mark its hash has the reason for it already.   *)
JustInv ==
    /\ KnownIsJustified
    /\ \A s \in Senders : spc[s] = "mark" => item[s] \in told

(* An addition makes no other hash known.                                   *)
LEMMA AddsOnly ==
    ASSUME RingMatchesSet, NEW h, AddHash(h)
    PROVE  cache'.items \subseteq cache.items \cup {h}
<1>1. cache = [items |-> cache.items, keys |-> cache.keys, next |-> cache.next]
  BY DEF RingMatchesSet, CacheTypeOK
<1>2. CASE Contains(cache, h)
  BY <1>2 DEF AddHash, Add
<1>3. CASE ~Contains(cache, h) /\ Len(cache.keys) < Capacity
  <2>1. cache' = Grow(cache, h)
    BY <1>3 DEF AddHash, Add
  <2>2. cache'.items = cache.items \cup {h}
    BY <1>1, <2>1 DEF Grow
  <2>3. QED
    BY <2>2
<1>4. CASE ~Contains(cache, h) /\ ~(Len(cache.keys) < Capacity)
  <2>1. cache' = Evict(cache, h)
    BY <1>4 DEF AddHash, Add
  <2>2. QED
    BY <2>1 DEF Evict
<1>5. QED
  BY <1>2, <1>3, <1>4

LEMMA StepJust == QueueInv /\ RingMatchesSet /\ JustInv /\ [Next]_vars => JustInv'
<1> SUFFICES ASSUME QueueInv, RingMatchesSet, JustInv, [Next]_vars PROVE JustInv'
  OBVIOUS
<1>1. /\ spc \in [Senders -> {"idle", "acquire", "push", "mark"}]
      /\ item \in [Senders -> Hashes \cup {NoHash}]
  BY DEF QueueInv, TypeOK
<1> USE DEF JustInv, KnownIsJustified
<1>2. ASSUME NEW s \in Senders, Begin(s) PROVE JustInv'
  BY <1>1, <1>2 DEF Begin, Goto
<1>3. ASSUME NEW s \in Senders, Acquire(s) PROVE JustInv'
  BY <1>1, <1>3 DEF Acquire, Goto
<1>4. ASSUME NEW s \in Senders, GiveUp(s) PROVE JustInv'
  BY <1>1, <1>4 DEF GiveUp, GivesUp, MarksAnyway, Goto, Idle
<1>5. ASSUME NEW s \in Senders, Push(s) PROVE JustInv'
  BY <1>1, <1>5 DEF Push, Goto
<1>6. ASSUME NEW s \in Senders, PushFails(s) PROVE JustInv'
  BY <1>1, <1>6 DEF PushFails, GivesUp, MarksAnyway, Goto, Idle
<1>7. ASSUME NEW s \in Senders, MarkSent(s) PROVE JustInv'
  <2>1. cache'.items \subseteq cache.items \cup {item[s]} /\ item[s] \in told
    BY <1>7, AddsOnly DEF MarkSent, Idle, Goto
  <2>2. QED
    BY <1>1, <1>7, <2>1 DEF MarkSent, Idle, Goto
<1>8. CASE Take \/ Write \/ Exit \/ CloseSemaphore \/ CloseTerm
  BY <1>8 DEF Take, Write, Exit, CloseSemaphore, CloseTerm, senderVars
<1>9. ASSUME NEW h \in Hashes, Mark(h) PROVE JustInv'
  <2>1. cache'.items \subseteq cache.items \cup {h}
    BY <1>9, AddsOnly DEF Mark
  <2>2. QED
    BY <1>9, <2>1 DEF Mark, senderVars
<1>10. CASE UNCHANGED vars
  BY <1>10 DEF vars, senderVars
<1>11. QED
  BY <1>2, <1>3, <1>4, <1>5, <1>6, <1>7, <1>8, <1>9, <1>10 DEF Next, Send

(* Nothing is marked as known that the remote side did not show and that    *)
(* did not enter the queue, the Enqueue methods apart: what                 *)
(* AsyncSendTransactions and AsyncSendTransactionHashes drop stays unknown. *)
THEOREM MarksJustified == Spec => []KnownIsJustified
<1>1. Init => JustInv
  BY DEF Init, CacheInit, NewCache, JustInv, KnownIsJustified
<1>2. JustInv => KnownIsJustified
  BY DEF JustInv
<1>3. QED
  BY <1>1, <1>2, StepJust, QueueInvariant, RingInUse, PTL DEF Spec

-----------------------------------------------------------------------------
(* The queue implements Outbox: a message is accepted when it enters the    *)
(* queue and written when the write ends; taking it out of the queue        *)
(* changes nothing.                                                         *)

Pending == (IF bpc = "write" THEN <<writing>> ELSE <<>>) \o queue

LEMMA StepOfOutbox == QueueInv /\ [Next]_vars => [Out!Next]_Pending
<1> SUFFICES ASSUME QueueInv, [Next]_vars PROVE [Out!Next]_Pending
  OBVIOUS
<1>1. queue \in Seq(Hashes) /\ (bpc = "write" => writing \in Hashes)
  BY DEF QueueInv, TypeOK, Busy
<1>2. ASSUME NEW s \in Senders, Push(s) PROVE Out!Next
  <2>1. item[s] \in Hashes /\ s \in Holders
    BY <1>2 DEF Push, Goto, QueueInv, Busy, Holders
  <2>2. Len(Pending) = Len(queue) + InHand
    BY <1>1 DEF Pending, InHand
  <2>3. Len(Pending) < MaxItems
    BY <2>1, <2>2, HoldersFit, Numbers
  <2>4. Pending' = Append(Pending, item[s])
    <3>1. queue' = Append(queue, item[s]) /\ bpc' = bpc /\ writing' = writing
      BY <1>2 DEF Push
    <3>2. QED
      BY <1>1, <2>1, <3>1 DEF Pending
  <2>5. QED
    BY <2>1, <2>3, <2>4 DEF Out!Next, Out!Accept, Pending
<1>3. CASE Take
  <2>1. <<Head(queue)>> \o Tail(queue) = queue /\ <<>> \o queue = queue
    BY <1>1, <1>3 DEF Take
  <2>2. QED
    BY <1>3, <2>1 DEF Take, Pending
<1>4. CASE Write
  <2>1. Pending = <<writing>> \o queue /\ Pending' = <<>> \o queue
    BY <1>4 DEF Write, Pending
  <2>2. Pending # <<>> /\ Pending' = Tail(Pending)
    BY <1>1, <1>4, <2>1 DEF Write
  <2>3. QED
    BY <2>2 DEF Out!Next, Out!Written, Pending
<1>5. CASE Exit
  BY <1>5 DEF Exit, Pending
<1>6. ASSUME UNCHANGED <<queue, bpc, writing>> PROVE UNCHANGED Pending
  BY <1>6 DEF Pending
<1>7. ASSUME NEW s \in Senders,
             Begin(s) \/ Acquire(s) \/ GiveUp(s) \/ PushFails(s) \/ MarkSent(s)
      PROVE  UNCHANGED Pending
  BY <1>6, <1>7 DEF Begin, Acquire, GiveUp, PushFails, MarkSent
<1>8. ASSUME (\E h \in Hashes : Mark(h)) \/ CloseSemaphore \/ CloseTerm \/ UNCHANGED vars
      PROVE  UNCHANGED Pending
  BY <1>6, <1>8 DEF Mark, CloseSemaphore, CloseTerm, vars
<1>9. QED
  BY <1>2, <1>3, <1>4, <1>5, <1>7, <1>8 DEF Next, Send

(* Accepted messages are written in order, each once, and no more than      *)
(* MaxQueuedItems are accepted and not written (broadcast, sendItem,        *)
(* asyncSendEncodedItem, enqueueSendEncodedItem).                           *)
THEOREM OutboxRefined == Spec => ImplementsOutbox
<1>1. Init => Out!Init
  BY DEF Init, Out!Init
<1>2. QueueInv /\ [Next]_vars => [Out!Next]_((IF bpc = "write" THEN <<writing>> ELSE <<>>) \o queue)
  BY StepOfOutbox DEF Pending
<1>3. QED
  BY <1>1, <1>2, QueueInvariant, PTL DEF Spec, ImplementsOutbox, Out!Spec
=============================================================================
