--------------------------- MODULE MCPaperBroker ---------------------------
(***************************************************************************)
(* Instances of PaperBroker for TLC.                                       *)
(***************************************************************************)
EXTENDS PaperBroker, TLC

Symmetry == Permutations(Keys) \cup Permutations(FillKeys)
=============================================================================
