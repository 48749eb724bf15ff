------------------------------ MODULE MCTxSniff ------------------------------
(***************************************************************************)
(* Instances of TxSniff for TLC.                                            *)
(***************************************************************************)
EXTENDS TxSniff

CONSTANTS p1, p2, t1, t2, a1

(* Both pay the minimum exactly.                                            *)
EdgePrice == [t \in Txs |-> 1]
=============================================================================
