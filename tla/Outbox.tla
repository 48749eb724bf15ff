------------------------------- MODULE Outbox --------------------------------
(***************************************************************************)
(* What the outgoing queue of a peer promises: messages it accepts are      *)
(* written in the order in which it accepted them, none is written twice,   *)
(* and never more than Room are accepted and not written.                   *)
(***************************************************************************)
EXTENDS Naturals, Sequences

CONSTANTS Messages, Room

VARIABLE pending       \* accepted and not written, the first one first

Init == pending = <<>>

Accept(m) ==
    /\ Len(pending) < Room
    /\ pending' = Append(pending, m)

Written ==
    /\ pending # <<>>
    /\ pending' = Tail(pending)

Next == Written \/ \E m \in Messages : Accept(m)

Spec == Init /\ [][Next]_pending
=============================================================================
