--------------------------- MODULE MCAgentStages ---------------------------
(***************************************************************************)
(* Instances of AgentStages for TLC.                                       *)
(***************************************************************************)
EXTENDS AgentStages, TLC

\* What follows a late recovery is not explored.
BeforeLate == late = {}

Symmetry == Permutations(Workers)
=============================================================================
