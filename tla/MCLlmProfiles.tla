--------------------------- MODULE MCLlmProfiles ---------------------------
(***************************************************************************)
(* An instance of LlmProfiles for TLC: an external provider with two       *)
(* models, a mock provider created under the same name, two roles with two *)
(* routes each, one of which has a fallback.                               *)
(***************************************************************************)
EXTENDS LlmProfiles, TLC

CONSTANTS p1, p2, m1, m2, a1, a2, b1, b2

MCName == (p1 :> "name") @@ (p2 :> "name")
MCProviderOf == (m1 :> p1) @@ (m2 :> p1)
MCRole == (a1 :> "SCOUT") @@ (a2 :> "SCOUT") @@ (b1 :> "CORE") @@ (b2 :> "CORE")
MCPrimary == (a1 :> m1) @@ (a2 :> m2) @@ (b1 :> m1) @@ (b2 :> m1)
MCFallback == (a1 :> {}) @@ (a2 :> {m1}) @@ (b1 :> {}) @@ (b2 :> {})

\* b1 and b2 have the same role and models.
Symmetry == Permutations(Requests) \cup Permutations({b1, b2})
=============================================================================
