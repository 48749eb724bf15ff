----------------------------- MODULE MCDiscovery -----------------------------
(***************************************************************************)
(* An instance of Discovery for TLC: two nodes that report each other, one  *)
(* slot, and a channel of one suggestion.                                   *)
(***************************************************************************)
EXTENDS Discovery

CONSTANTS n1, n2

EachOther == [n \in Nodes |-> IF n = n1 THEN {{n2}} ELSE {{n1}}]
=============================================================================
