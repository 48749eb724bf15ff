----------------------------- MODULE MCLauncher ------------------------------
(***************************************************************************)
(* An instance of Launcher for TLC.                                         *)
(***************************************************************************)
EXTENDS Launcher

CONSTANTS s1, s2, n1, n2

(* One connection of each node.                                             *)
OwnId == [s \in Sessions |-> IF s = s1 THEN n1 ELSE n2]
=============================================================================
