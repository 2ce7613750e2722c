--------------------------- MODULE MCStopTrigger ---------------------------
(***************************************************************************)
(* Instances of StopTrigger for TLC.                                       *)
(***************************************************************************)
EXTENDS StopTrigger, TLC
=============================================================================
