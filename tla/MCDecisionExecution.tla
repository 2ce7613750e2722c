------------------------ MODULE MCDecisionExecution ------------------------
(***************************************************************************)
(* Instances of DecisionExecution for TLC.                                 *)
(***************************************************************************)
EXTENDS DecisionExecution, TLC

Symmetry == Permutations(Clients) \cup Permutations(Decisions) \cup Permutations(ClientKeys)
=============================================================================
