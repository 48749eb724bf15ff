----------------------------- MODULE KnownCache ------------------------------
(***************************************************************************)
(* A known-cache in use: a message loop and the senders add hashes to it in *)
(* any order.  It implements BoundedFifo.                                   *)
(***************************************************************************)
EXTENDS RingCache

CONSTANT Hashes

VARIABLE cache

CacheInit == cache = NewCache

AddHash(h) == cache' = Add(cache, h)

CacheNext == \E h \in Hashes : AddHash(h)

CacheSpec == CacheInit /\ [][CacheNext]_cache

-----------------------------------------------------------------------------
Keys == {cache.keys[i] : i \in DOMAIN cache.keys}

CacheTypeOK ==
    cache \in [items : SUBSET Hashes, keys : Seq(Hashes), next : 0..(Capacity - 1)]

(* The set and the ring hold the same hashes, each once, and never more     *)
(* than Capacity; the ring turns only when it is full (txCache.Add).        *)
RingMatchesSet ==
    /\ CacheTypeOK
    /\ Len(cache.keys) <= Capacity
    /\ Len(cache.keys) < Capacity => cache.next = 0
    /\ \A i, j \in DOMAIN cache.keys : cache.keys[i] = cache.keys[j] => i = j
    /\ cache.items = Keys

(* Read from the eviction index on, the ring is the hashes by age.          *)
ByAge == [i \in 1..Len(cache.keys) |->
            IF cache.next + i <= Len(cache.keys)
            THEN cache.keys[cache.next + i]
            ELSE cache.keys[cache.next + i - Len(cache.keys)]]

(* The hash displaced is always the one added longest ago ("FIFO eviction", *)
(* txCache.Add), and adding a held hash does not renew it.                  *)
Fifo == INSTANCE BoundedFifo WITH Elements <- Hashes, fifo <- ByAge
ImplementsFifo == Fifo!Spec
=============================================================================
