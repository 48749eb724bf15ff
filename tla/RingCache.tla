------------------------------ MODULE RingCache ------------------------------
(***************************************************************************)
(* The cache of known hashes a peer object keeps: txCache and eventCache,   *)
(* which differ only in the type of the hash.  A set answers Contains, a    *)
(* ring buffer of the same hashes says which one to evict.  Every operation *)
(* runs under the lock of the cache, so it is one operator on its value.    *)
(***************************************************************************)
EXTENDS Naturals, Sequences

CONSTANT Capacity        \* MaxKnownTxs or MaxKnownEvents

ASSUME CapacityAssumption == Capacity \in Nat \ {0}

(* items: the set; keys: the ring; next: the 0-based index in the ring of   *)
(* the key to evict, once the ring is full.                                 *)
NewCache == [items |-> {}, keys |-> <<>>, next |-> 0]

Contains(c, h) == h \in c.items

Grow(c, h) == [c EXCEPT !.items = @ \cup {h}, !.keys = Append(@, h)]

EvictKeepsItem(c, h) ==
    [items |-> c.items \cup {h},
     keys  |-> [c.keys EXCEPT ![c.next + 1] = h],
     next  |-> (c.next + 1) % Capacity]
EvictFirst(c, h) ==
    [items |-> (c.items \ {c.keys[1]}) \cup {h},
     keys  |-> [c.keys EXCEPT ![1] = h],
     next  |-> 0]
Evict(c, h) ==
    [items |-> (c.items \ {c.keys[c.next + 1]}) \cup {h},
     keys  |-> [c.keys EXCEPT ![c.next + 1] = h],
     next  |-> (c.next + 1) % Capacity]

Add(c, h) ==
    IF Contains(c, h) THEN c
    ELSE IF Len(c.keys) < Capacity THEN Grow(c, h) ELSE Evict(c, h)
=============================================================================
