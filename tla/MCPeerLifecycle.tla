--------------------------- MODULE MCPeerLifecycle ---------------------------
(***************************************************************************)
(* Instances of PeerLifecycle for TLC.                                      *)
(***************************************************************************)
EXTENDS PeerLifecycle

CONSTANTS s1, s2, s3, n1, n2

(* Two connections of node n1, one of node n2.                              *)
SharedId == [s \in Sessions |-> IF s = s3 THEN n2 ELSE n1]

(* One connection of each node.                                             *)
OwnId == [s \in Sessions |-> IF s = s1 THEN n1 ELSE n2]
=============================================================================
