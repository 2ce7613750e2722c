----------------------- MODULE MCAnalysisScheduler -----------------------
(***************************************************************************)
(* Instances of AnalysisScheduler for TLC.                                 *)
(***************************************************************************)
EXTENDS AnalysisScheduler, TLC
=============================================================================
