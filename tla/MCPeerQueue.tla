----------------------------- MODULE MCPeerQueue -----------------------------
(***************************************************************************)
(* Instances of PeerQueue for TLC.                                          *)
(***************************************************************************)
EXTENDS PeerQueue

CONSTANTS s1, s2, h1, h2, h3

(* h3 is twice as large as the others.                                      *)
Sizes == [h \in Hashes |-> IF h = h3 THEN 2 ELSE 1]
=============================================================================
