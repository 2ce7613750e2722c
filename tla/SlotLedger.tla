----------------------------- MODULE SlotLedger -----------------------------
(***************************************************************************)
(* What the periodic analysis promises, whoever runs it: a ledger of the   *)
(* requests and decisions of each slot, and the last slot that was         *)
(* recorded as complete (docs/AI_DECISION_SPEC.md AI-080 to AI-085).       *)
(***************************************************************************)
EXTENDS Naturals, FiniteSets

CONSTANTS
    Slots,      \* analysis slots, in the order of time
    Targets,    \* watched or held symbols
    Kinds       \* ENTRY and POSITION decisions

VARIABLES
    closed,     \* the last slot recorded as complete, 0 at first
    missed,     \* how many of its targets were recorded as skipped or failed
    decided,    \* how many decisions each request of a slot has
    served      \* the requests that are done: their decision is routed, and its agent run admitted

Requests == Slots \X Targets \X Kinds

Open ==
    /\ closed = 0 /\ missed = 0
    /\ decided = [q \in Requests |-> 0]
    /\ served = {}

\* One decision for each request, in any slot.
Decide(q) ==
    /\ decided[q] = 0
    /\ decided' = [decided EXCEPT ![q] = 1]
    /\ UNCHANGED <<closed, missed, served>>

\* A request is served after its decision was made.
Serve(q) ==
    /\ decided[q] = 1
    /\ served' = served \cup {q}
    /\ UNCHANGED <<closed, missed, decided>>

Unserved(k) == {t \in Targets : \A kind \in Kinds : <<k, t, kind>> \notin served}

\* A slot is recorded once, slots in their order, and a target that was not
\* served is counted as missed.
Close(k, n) ==
    /\ k > closed
    /\ Cardinality(Unserved(k)) <= n
    /\ closed' = k /\ missed' = n
    /\ UNCHANGED <<decided, served>>

Ledger ==
    Open /\ [][\/ \E q \in Requests : Decide(q) \/ Serve(q)
               \/ \E k \in Slots : \E n \in 0..Cardinality(Targets) : Close(k, n)
              ]_<<closed, missed, decided, served>>
=============================================================================
