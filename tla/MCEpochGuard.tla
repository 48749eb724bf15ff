---------------------------- MODULE MCEpochGuard -----------------------------
(***************************************************************************)
(* Instances of EpochGuard for TLC.  The peers do not interact: one will do. *)
(***************************************************************************)
EXTENDS EpochGuard

CONSTANT p1
=============================================================================
