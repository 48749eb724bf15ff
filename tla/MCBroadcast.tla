----------------------------- MODULE MCBroadcast -----------------------------
(***************************************************************************)
(* An instance of Broadcast for TLC.                                        *)
(***************************************************************************)
EXTENDS Broadcast

CONSTANTS p1, p2, e1, e2, t1, t2, t3

Batch3 == <<t1, t2, t3>>

Epochs == [e \in Events |-> IF e = e1 THEN 1 ELSE 2]

(* t3 reaches the limit by itself, t1 and t2 do together.                   *)
Sizes == [x \in Events \cup Txs |-> IF x = t3 THEN 3 ELSE IF x = e2 THEN 128 ELSE 1]
=============================================================================
