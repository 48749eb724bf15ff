----------------------------- MODULE BoundedFifo -----------------------------
(***************************************************************************)
(* A memory of the last Capacity distinct elements: what the known-caches   *)
(* of a peer promise.  Remembering an element it holds changes nothing, not *)
(* even the element's age; a new one displaces the oldest when Capacity are *)
(* held.                                                                    *)
(***************************************************************************)
EXTENDS Naturals, Sequences

CONSTANTS Elements, Capacity

VARIABLE fifo       \* the elements held, the oldest first

Held == {fifo[i] : i \in DOMAIN fifo}

Init == fifo = <<>>

Remember(h) ==
    /\ h \notin Held
    /\ fifo' = IF Len(fifo) < Capacity THEN Append(fifo, h)
               ELSE Append(Tail(fifo), h)

Next == \E h \in Elements : Remember(h)

Spec == Init /\ [][Next]_fifo
=============================================================================
