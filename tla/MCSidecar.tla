------------------------------ MODULE MCSidecar ------------------------------
(***************************************************************************)
(* An instance of Sidecar for TLC.                                          *)
(***************************************************************************)
EXTENDS Sidecar

CONSTANTS sentry, std1, std2, h1, h2
=============================================================================
