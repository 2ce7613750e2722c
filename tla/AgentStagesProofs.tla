------------------------- MODULE AgentStagesProofs -------------------------
(***************************************************************************)
(* Type correctness of the agent runtime, and that no stage sends its      *)
(* request again, that a run agrees with its stages and that a fused       *)
(* decision comes from a complete run: for any number of workers, runs     *)
(* and scouts.                                                             *)
(***************************************************************************)
EXTENDS AgentStages, TLAPS

TxStates == {Idle} \cup Claimed \cup Executing \cup Recovering \cup Fused

USE StagesAssumption

-----------------------------------------------------------------------------
(***************************************************************************)
(* What the operators return.                                              *)
(***************************************************************************)

\* The roles of the fixed part of the graph are roles, and the scouts are none
\* of them.
LEMMA RolesAreKnown ==
    /\ Routed \subseteq Roles /\ Scouts \subseteq Routed /\ Fixtures \subseteq Roles
    /\ "CORE" \in Routed
    /\ {"INTEL_COLLECTOR", "EVIDENCE_VERIFIER", "EVIDENCE_CANDIDATE_AUDITOR"} = Fixtures
    /\ \A x \in Scouts : x \notin Fixtures /\ x # "CORE"
    /\ Roles = Scouts \cup Fixtures \cup {"CORE"}
    /\ \E x \in Scouts : TRUE
BY DEF Routed, Fixtures, Roles

\* The step of a worker says which record it is at.
LEMMA TxByStep ==
    ASSUME TypeOK, NEW w \in Workers
    PROVE  /\ tx[w].step = "IDLE" <=> tx[w] = Idle
           /\ tx[w].step = "CLAIMED" <=> tx[w] \in Claimed
           /\ tx[w].step = "EXECUTING" <=> tx[w] \in Executing
           /\ tx[w].step = "RECOVERING" <=> tx[w] \in Recovering
           /\ tx[w].step = "FUSED" <=> tx[w] \in Fused
           /\ tx[w].step \in {"IDLE", "CLAIMED", "EXECUTING", "RECOVERING", "FUSED"}
<1>1. tx[w] \in TxStates
  BY DEF TypeOK, TxStates
<1>2. CASE tx[w] = Idle
  BY <1>2 DEF Idle, Claimed, Executing, Recovering, Fused
<1>3. CASE tx[w] \in Claimed
  BY <1>3 DEF Idle, Claimed, Executing, Recovering, Fused
<1>4. CASE tx[w] \in Executing
  BY <1>4 DEF Idle, Claimed, Executing, Recovering, Fused
<1>5. CASE tx[w] \in Recovering
  BY <1>5 DEF Idle, Claimed, Executing, Recovering, Fused
<1>6. CASE tx[w] \in Fused
  BY <1>6 DEF Idle, Claimed, Executing, Recovering, Fused
<1> QED BY <1>1, <1>2, <1>3, <1>4, <1>5, <1>6 DEF TxStates

\* Every result of a run is an end of it.
LEMMA RunResultType ==
    ASSUME NEW seen, NEW bundle
    PROVE  RunResult(seen, bundle) \in Ended
BY DEF RunResult, Ended

\* A fusion that is pending ends, escalated only when every routed stage has
\* succeeded; any other stays as it is.
LEMMA FusionResultsType ==
    ASSUME NEW seen, NEW fusion \in Fusions, NEW f \in FusionResults(seen, fusion)
    PROVE  /\ f \in Fusions
           /\ fusion = "PENDING" /\ f = "ESCALATED" =>
                  \A x \in Routed : seen[x] = "SUCCEEDED"
BY DEF FusionResults, Fusions

\* A stage that is recovered waits again or is at its end.
LEMMA RecoveredType ==
    ASSUME NEW x \in Roles, NEW n \in Nat
    PROVE  /\ Recovered(x, n) \in {"PENDING", "TIMED_OUT"}
           /\ x \in Routed /\ n > 0 => Recovered(x, n) = "TIMED_OUT"
BY DEF Recovered, max_attempts

\* An execution ends its stage.  A scout has a result only with a bundle, and
\* CORE succeeds without a call only when a scout has none.
LEMMA OutcomesType ==
    ASSUME NEW r \in Runs, NEW x \in Roles, NEW n \in 0..2, NEW outcome \in Outcomes(r, x, n)
    PROVE  /\ outcome \in TERMINAL
           /\ x \in Scouts /\ outcome = "SUCCEEDED" => run[r].bundle # "ABSENT"
           /\ x = "CORE" /\ outcome = "SUCCEEDED" /\ run[r].bundle # "ABSENT" /\ ScoutsComplete(r)
                  => n > 0
<1>1. CASE x = "INTEL_COLLECTOR"
  BY <1>1, RolesAreKnown DEF Outcomes, IntelCollector, TERMINAL, Broken, DEPENDENCY_OK
<1>2. CASE x = "EVIDENCE_VERIFIER"
  BY <1>2, RolesAreKnown DEF Outcomes, EvidenceVerifier, TERMINAL, Broken, DEPENDENCY_OK
<1>3. CASE x = "EVIDENCE_CANDIDATE_AUDITOR"
  BY <1>3, RolesAreKnown DEF Outcomes, EvidenceCandidateAuditor, TERMINAL, Broken, DEPENDENCY_OK
<1>4. CASE x = "CORE"
  BY <1>4, RolesAreKnown DEF Outcomes, Core, TERMINAL, Broken, DEPENDENCY_OK
<1>5. CASE x \in Scouts
  <2>1. outcome \in (IF n = 0 THEN {"TIMED_OUT"} ELSE {}) \cup Scout(r, x, n)
    <3>1. /\ x # "INTEL_COLLECTOR" /\ x # "EVIDENCE_VERIFIER" /\ x # "EVIDENCE_CANDIDATE_AUDITOR"
          /\ x # "CORE"
      BY <1>5, RolesAreKnown DEF Fixtures
    <3> QED BY <3>1 DEF Outcomes
  <2>2. Scout(r, x, n) \subseteq TERMINAL
    BY DEF Scout, ServerAssessed, _assessment_v2, ModelAssessed, TERMINAL, Broken, DEPENDENCY_OK
  <2>3. run[r].bundle = "ABSENT" => Scout(r, x, n) = {"FAILED"}
    BY DEF Scout
  <2> QED BY <1>5, <2>1, <2>2, <2>3, RolesAreKnown DEF TERMINAL, Broken
<1> QED BY <1>1, <1>2, <1>3, <1>4, <1>5, RolesAreKnown

\* A bundle is never taken back.
LEMMA BundlesType ==
    ASSUME TypeOK, NEW r \in Runs, NEW x, NEW outcome, NEW bundle \in Bundles(r, x, outcome)
    PROVE  /\ bundle \in {"ABSENT", "PARTIAL", "VERIFIED"}
           /\ run[r].bundle # "ABSENT" => bundle # "ABSENT"
BY DEF TypeOK, Bundles, AgentRun

-----------------------------------------------------------------------------
(***************************************************************************)
(* Type correctness.                                                       *)
(***************************************************************************)

\* It settles the run if every stage it saw has ended, leaves the other runs and
\* workers alone, and routes a decision only if every routed stage succeeded.
LEMMA FinalizeEffect ==
    ASSUME TypeOK, NEW w \in Workers, NEW r \in Runs,
           NEW seen \in [Roles -> StageStates], NEW copy \in AgentRun,
           _finalize_run(w, r, seen, copy)
    PROVE  /\ run' \in [Runs -> AgentRun]
           /\ \A q \in Runs \ {r} : run'[q] = run[q]
           /\ run'[r].bundle = copy.bundle
           /\ run'[r].state = IF Settled(seen) THEN RunResult(seen, copy.bundle) ELSE run[r].state
           /\ tx' \in [Workers -> TxStates]
           /\ tx'[w].step \in {"IDLE", "FUSED"}
           /\ \A v \in Workers \ {w} : tx'[v] = tx[v]
           /\ routed' \subseteq routed \cup {r}
           /\ r \in routed' \ routed => Settled(seen) /\ \A x \in Routed : seen[x] = "SUCCEEDED"
<1>1. run[r] \in AgentRun /\ tx \in [Workers -> TxStates] /\ run \in [Runs -> AgentRun]
  BY DEF TypeOK, TxStates
<1>2. CASE ~Settled(seen)
  <2>1. /\ run' = [run EXCEPT ![r].bundle = copy.bundle]
        /\ tx' = [tx EXCEPT ![w] = Idle]
        /\ routed' = routed
    BY <1>2 DEF _finalize_run
  <2>2. Idle \in TxStates /\ Idle.step = "IDLE"
    BY DEF TxStates, Idle
  <2>3. run' \in [Runs -> AgentRun]
    BY <1>1, <2>1 DEF AgentRun
  <2> QED BY <1>1, <1>2, <2>1, <2>2, <2>3 DEF AgentRun
<1>3. CASE Settled(seen)
  <2> DEFINE routes(f) == f = "ESCALATED" /\ copy.fusion = "PENDING" /\ r \notin routed
  <2>1. PICK fusion \in FusionResults(seen, copy.fusion) :
            /\ run' = [run EXCEPT ![r].state = RunResult(seen, copy.bundle),
                                  ![r].bundle = copy.bundle,
                                  ![r].fusion = IF routes(fusion) \/ fusion = copy.fusion THEN @ ELSE fusion]
            /\ routed' = IF routes(fusion) THEN routed \cup {r} ELSE routed
            /\ tx' = [tx EXCEPT ![w] = IF routes(fusion) THEN [step |-> "FUSED", run |-> r] ELSE Idle]
    BY <1>3 DEF _finalize_run
  <2>2. fusion \in Fusions /\ (routes(fusion) => \A x \in Routed : seen[x] = "SUCCEEDED")
    BY FusionResultsType DEF AgentRun
  <2>3. RunResult(seen, copy.bundle) \in Ended
    BY RunResultType
  <2>4. /\ Idle \in TxStates /\ Idle.step = "IDLE"
        /\ [step |-> "FUSED", run |-> r] \in TxStates
    BY DEF TxStates, Idle, Fused
  <2> HIDE DEF routes
  <2>5. run' \in [Runs -> AgentRun] /\ run'[r].bundle = copy.bundle
        /\ run'[r].state = RunResult(seen, copy.bundle) /\ \A q \in Runs \ {r} : run'[q] = run[q]
    BY <1>1, <2>1, <2>2, <2>3 DEF AgentRun
  <2>6. /\ tx' \in [Workers -> TxStates]
        /\ tx'[w].step \in {"IDLE", "FUSED"}
        /\ \A v \in Workers \ {w} : tx'[v] = tx[v]
    BY <1>1, <2>1, <2>4
  <2>7. routed' \subseteq routed \cup {r} /\ (r \in routed' \ routed => routes(fusion))
    BY <2>1
  <2> QED BY <1>3, <2>2, <2>5, <2>6, <2>7
<1> QED BY <1>2, <1>3

\* What an execution writes: an end for the stage it holds.
LEMMA ExecuteEffect ==
    ASSUME TypeOK, NEW w \in Workers, _execute_stage(w)
    PROVE  \E outcome \in TERMINAL, bundle \in {"ABSENT", "PARTIAL", "VERIFIED"} :
               LET r == tx[w].run
                   x == tx[w].role
                   seen == [StatesOf(r) EXCEPT ![x] = outcome]
                   copy == [run[r] EXCEPT !.bundle = bundle]
               IN  /\ outcome \in Outcomes(r, x, tx[w].invoked)
                   /\ bundle \in Bundles(r, x, outcome)
                   /\ stage' = [stage EXCEPT ![r][x].state = outcome, ![r][x].owner = NoWorker]
                   /\ _finalize_run(w, r, seen, copy)
                   /\ seen \in [Roles -> StageStates] /\ copy \in AgentRun
<1> DEFINE r == tx[w].run
           x == tx[w].role
<1>1. tx[w] \in Executing /\ r \in Runs /\ x \in Roles /\ tx[w].invoked \in 0..2
  BY TxByStep DEF _execute_stage, Executing
<1>a. PICK outcome \in Outcomes(r, x, tx[w].invoked) :
          \E bundle \in Bundles(r, x, outcome) :
              /\ stage' = [stage EXCEPT ![r][x].state = outcome, ![r][x].owner = NoWorker]
              /\ _finalize_run(w, r, [StatesOf(r) EXCEPT ![x] = outcome], [run[r] EXCEPT !.bundle = bundle])
  BY DEF _execute_stage
<1>2. PICK bundle \in Bundles(r, x, outcome) :
          /\ stage' = [stage EXCEPT ![r][x].state = outcome, ![r][x].owner = NoWorker]
          /\ _finalize_run(w, r, [StatesOf(r) EXCEPT ![x] = outcome], [run[r] EXCEPT !.bundle = bundle])
  BY <1>a
<1>3. outcome \in TERMINAL /\ bundle \in {"ABSENT", "PARTIAL", "VERIFIED"}
  BY <1>1, OutcomesType, BundlesType
<1>4. [StatesOf(r) EXCEPT ![x] = outcome] \in [Roles -> StageStates]
  BY <1>1, <1>3 DEF StatesOf, StateOf, TypeOK, StageRun, StageStates
<1>5. [run[r] EXCEPT !.bundle = bundle] \in AgentRun
  BY <1>1, <1>3 DEF TypeOK, AgentRun
<1> QED BY <1>2, <1>3, <1>4, <1>5

\* What a claim that ends its stage writes.
LEMMA ClaimEndsEffect ==
    ASSUME TypeOK, NEW w \in Workers, NEW r \in Runs, NEW x \in Roles, claim_ends(w, r, x)
    PROVE  \E state \in Broken :
               LET seen == [StatesOf(r) EXCEPT ![x] = state]
               IN  /\ \/ dependency_failed(r, x) /\ ~may_reduce_v4_result(x)
                      \/ Ready(r, x)
                   /\ stage' = [stage EXCEPT ![r][x].state = state]
                   /\ _finalize_run(w, r, seen, run[r])
                   /\ seen \in [Roles -> StageStates] /\ run[r] \in AgentRun
<1>1. PICK state \in Broken :
          /\ \/ state = "FAILED" /\ dependency_failed(r, x) /\ ~may_reduce_v4_result(x)
             \/ state = "TIMED_OUT" /\ Ready(r, x)
          /\ stage' = [stage EXCEPT ![r][x].state = state]
          /\ _finalize_run(w, r, [StatesOf(r) EXCEPT ![x] = state], run[r])
  BY DEF claim_ends
<1>2. [StatesOf(r) EXCEPT ![x] = state] \in [Roles -> StageStates]
  BY DEF StatesOf, StateOf, TypeOK, StageRun, StageStates, TERMINAL, Broken
<1>3. run[r] \in AgentRun
  BY DEF TypeOK
<1> QED BY <1>1, <1>2, <1>3

\* What a recovery writes: the states it computed from what it read.
LEMMA RecoverEffect ==
    ASSUME TypeOK, NEW w \in Workers, recover_expired_stages(w)
    PROVE  LET r == tx[w].run
               expired == {x \in Roles : tx[w].expired[x] > 0}
               copy == [run[r] EXCEPT !.fusion = tx[w].fusion]
           IN  /\ tx[w] \in Recovering
               /\ \A x \in expired : ~Locked(r, x)
               /\ stage' \in [Runs -> [Roles -> StageRun]]
               /\ \A q \in Runs \ {r} : stage'[q] = stage[q]
               /\ \A x \in Roles :
                      IF x \in expired
                      THEN /\ stage'[r][x].state = tx[w].seen[x]
                           /\ stage'[r][x].attempts = stage[r][x].attempts
                      ELSE stage'[r][x] = stage[r][x]
               /\ late' = IF \A x \in expired :
                                StateOf(r, x) = "RUNNING" /\ stage[r][x].attempts = tx[w].expired[x]
                          THEN late ELSE late \cup {r}
               /\ _finalize_run(w, r, tx[w].seen, copy)
               /\ tx[w].seen \in [Roles -> StageStates] /\ copy \in AgentRun
<1> DEFINE r == tx[w].run
           expired == {x \in Roles : tx[w].expired[x] > 0}
           row(x) == IF x \in expired
                     THEN [stage[r][x] EXCEPT !.state = tx[w].seen[x], !.owner = NoWorker]
                     ELSE stage[r][x]
<1>1. /\ tx[w] \in Recovering /\ r \in Runs /\ tx[w].seen \in [Roles -> StageStates]
      /\ tx[w].fusion \in Fusions
  BY TxByStep DEF recover_expired_stages, Recovering
<1>2. stage' = [stage EXCEPT ![r] = [x \in Roles |-> row(x)]]
  BY DEF recover_expired_stages
<1>3. /\ \A x \in Roles : row(x) \in StageRun
      /\ \A x \in expired : row(x).state = tx[w].seen[x] /\ row(x).attempts = stage[r][x].attempts
      /\ \A x \in Roles \ expired : row(x) = stage[r][x]
  <2>1. \A x \in Roles : stage[r][x] \in StageRun
    BY <1>1 DEF TypeOK
  <2> HIDE DEF expired
  <2>2. ASSUME NEW x \in Roles
        PROVE  /\ row(x) \in StageRun
               /\ x \in expired => row(x).state = tx[w].seen[x] /\ row(x).attempts = stage[r][x].attempts
               /\ x \notin expired => row(x) = stage[r][x]
    <3>1. stage[r][x] \in StageRun /\ tx[w].seen[x] \in StageStates
      BY <1>1, <2>1
    <3> QED BY <3>1 DEF StageRun
  <2> QED BY <2>2 DEF expired
<1> HIDE DEF row
<1>4. stage' \in [Runs -> [Roles -> StageRun]] /\ \A x \in Roles : stage'[r][x] = row(x)
  BY <1>1, <1>2, <1>3 DEF TypeOK
<1>5. \A q \in Runs \ {r} : stage'[q] = stage[q]
  BY <1>1, <1>2 DEF TypeOK
<1>6. [run[r] EXCEPT !.fusion = tx[w].fusion] \in AgentRun
  <2>1. run[r] \in AgentRun
    BY <1>1 DEF TypeOK
  <2> QED BY <1>1, <2>1 DEF AgentRun
<1>7. /\ \A x \in expired : ~Locked(r, x)
      /\ late' = IF \A x \in expired :
                       StateOf(r, x) = "RUNNING" /\ stage[r][x].attempts = tx[w].expired[x]
                 THEN late ELSE late \cup {r}
      /\ _finalize_run(w, r, tx[w].seen, [run[r] EXCEPT !.fusion = tx[w].fusion])
  BY DEF recover_expired_stages
<1> QED BY <1>1, <1>3, <1>4, <1>5, <1>6, <1>7

\* What a claim, an execution that starts, a call, and a recovery that reads
\* make of the worker: a record of the next step.
LEMMA ClaimEffect ==
    ASSUME TypeOK, NEW w \in Workers, NEW r \in Runs, NEW x \in Roles, claim_next_stage(w, r, x)
    PROVE  /\ tx[w] = Idle /\ StateOf(r, x) = "PENDING" /\ Ready(r, x)
           /\ run[r].state \in {"CREATED", "RUNNING"}
           /\ stage' \in [Runs -> [Roles -> StageRun]]
           /\ \A q \in Runs \ {r} : stage'[q] = stage[q]
           /\ \A y \in Roles \ {x} : stage'[r][y] = stage[r][y]
           /\ stage'[r][x].state = "RUNNING" /\ stage'[r][x].attempts = stage[r][x].attempts + 1
           /\ run' \in [Runs -> AgentRun]
           /\ \A q \in Runs \ {r} : run'[q] = run[q]
           /\ run'[r].state = "RUNNING" /\ run'[r].bundle = run[r].bundle
           /\ tx' \in [Workers -> TxStates]
           /\ \A v \in Workers \ {w} : tx'[v] = tx[v]
           /\ tx'[w] \in Claimed /\ tx'[w].run = r /\ tx'[w].role = x
           /\ tx'[w].step = "CLAIMED"
           /\ UNCHANGED <<calls, late, routed>>
<1> DEFINE row == [state |-> "RUNNING", owner |-> w, attempts |-> stage[r][x].attempts + 1]
           claim == [step |-> "CLAIMED", run |-> r, role |-> x, token |-> stage[r][x].attempts + 1]
<1>1. /\ stage' = [stage EXCEPT ![r][x] = row]
      /\ run' = [run EXCEPT ![r].state = "RUNNING"]
      /\ tx' = [tx EXCEPT ![w] = claim]
  BY DEF claim_next_stage
<1>2. stage[r][x] \in StageRun /\ run[r] \in AgentRun
  BY DEF TypeOK
<1>3. row \in StageRun /\ row.state = "RUNNING" /\ row.attempts = stage[r][x].attempts + 1
  BY <1>2 DEF StageRun, StageStates
<1>4. claim \in Claimed /\ claim.run = r /\ claim.role = x /\ claim.step = "CLAIMED"
  BY <1>2 DEF Claimed, StageRun
<1> HIDE DEF row, claim
<1>5. /\ stage' \in [Runs -> [Roles -> StageRun]]
      /\ \A q \in Runs \ {r} : stage'[q] = stage[q]
      /\ \A y \in Roles \ {x} : stage'[r][y] = stage[r][y]
      /\ stage'[r][x] = row
  BY <1>1, <1>3 DEF TypeOK
<1>6. /\ run' \in [Runs -> AgentRun]
      /\ \A q \in Runs \ {r} : run'[q] = run[q]
      /\ run'[r].state = "RUNNING" /\ run'[r].bundle = run[r].bundle
  BY <1>1, <1>2 DEF TypeOK, AgentRun
<1>7. /\ tx' \in [Workers -> TxStates]
      /\ \A v \in Workers \ {w} : tx'[v] = tx[v]
      /\ tx'[w] = claim
  BY <1>1, <1>4 DEF TypeOK, TxStates
<1>8. /\ tx[w] = Idle /\ StateOf(r, x) = "PENDING" /\ Ready(r, x)
      /\ run[r].state \in {"CREATED", "RUNNING"}
      /\ UNCHANGED <<calls, late, routed>>
  BY DEF claim_next_stage, Claimable
<1> QED BY <1>3, <1>4, <1>5, <1>6, <1>7, <1>8

\* An execution starts with no call made, or the claim is given up.
LEMMA StartEffect ==
    ASSUME TypeOK, NEW w \in Workers, execute_claimed_stage(w)
    PROVE  /\ tx[w] \in Claimed /\ ~Locked(tx[w].run, tx[w].role)
           /\ tx' \in [Workers -> TxStates]
           /\ \A v \in Workers \ {w} : tx'[v] = tx[v]
           /\ \/ tx'[w] = Idle
              \/ /\ Holds(w)
                 /\ tx'[w] \in Executing /\ tx'[w].run = tx[w].run /\ tx'[w].role = tx[w].role
                 /\ tx'[w].invoked = 0
           /\ UNCHANGED <<run, stage, calls, late, routed>>
<1> DEFINE next == [step |-> "EXECUTING", run |-> tx[w].run, role |-> tx[w].role, invoked |-> 0]
<1>1. tx[w] \in Claimed
  BY TxByStep DEF execute_claimed_stage
<1>2. /\ next \in Executing /\ next.run = tx[w].run /\ next.role = tx[w].role /\ next.invoked = 0
  BY <1>1 DEF Claimed, Executing
<1>3. /\ tx' = [tx EXCEPT ![w] = IF Holds(w) THEN next ELSE Idle]
      /\ ~Locked(tx[w].run, tx[w].role)
      /\ UNCHANGED <<run, stage, calls, late, routed>>
  BY DEF execute_claimed_stage
<1> HIDE DEF next
<1> QED BY <1>1, <1>2, <1>3 DEF TypeOK, TxStates

\* A call of the model is counted with the execution that makes it.
LEMMA InvokeEffect ==
    ASSUME TypeOK, NEW w \in Workers, _invoke_once(w)
    PROVE  LET r == tx[w].run
               x == tx[w].role
           IN  /\ tx[w] \in Executing /\ r \in Runs /\ x \in Routed
               /\ tx[w].invoked < IF x \in Failover THEN 2 ELSE 1
               /\ calls' \in [Runs -> [Roles -> Nat]]
               /\ calls'[r][x] = calls[r][x] + 1
               /\ \A q \in Runs, y \in Roles : q # r \/ y # x => calls'[q][y] = calls[q][y]
               /\ tx' \in [Workers -> TxStates]
               /\ \A v \in Workers \ {w} : tx'[v] = tx[v]
               /\ tx'[w] \in Executing /\ tx'[w].run = r /\ tx'[w].role = x
               /\ tx'[w].invoked = tx[w].invoked + 1
               /\ UNCHANGED <<run, stage, late, routed>>
<1> DEFINE r == tx[w].run
           x == tx[w].role
           next == [tx[w] EXCEPT !.invoked = @ + 1]
<1>1. /\ tx[w] \in Executing /\ r \in Runs /\ x \in Roles /\ tx[w].invoked \in 0..2
  BY TxByStep DEF _invoke_once, Executing
<1>2. /\ x \in Routed
      /\ tx[w].invoked < IF x \in Failover THEN 2 ELSE 1
      /\ calls' = [calls EXCEPT ![r][x] = @ + 1]
      /\ tx' = [tx EXCEPT ![w] = next]
      /\ UNCHANGED <<run, stage, late, routed>>
  BY DEF _invoke_once, _invoke_model
<1>3. /\ next \in Executing /\ next.run = r /\ next.role = x /\ next.invoked = tx[w].invoked + 1
  BY <1>1, <1>2 DEF Executing
<1> HIDE DEF next
<1>4. /\ tx' \in [Workers -> TxStates]
      /\ \A v \in Workers \ {w} : tx'[v] = tx[v]
      /\ tx'[w] = next
  BY <1>2, <1>3 DEF TypeOK, TxStates
<1>5. /\ calls' \in [Runs -> [Roles -> Nat]]
      /\ calls'[r][x] = calls[r][x] + 1
      /\ \A q \in Runs, y \in Roles : q # r \/ y # x => calls'[q][y] = calls[q][y]
  BY <1>1, <1>2 DEF TypeOK
<1> QED BY <1>1, <1>2, <1>3, <1>4, <1>5

\* What a recovery reads: for a stage it takes for expired, the attempts and the
\* state it is going to write; for the others the state as it is.
Reads(w, r, Expired) ==
    /\ Expired # {}
    /\ tx[w] = Idle
    /\ tx' \in [Workers -> TxStates]
    /\ \A v \in Workers \ {w} : tx'[v] = tx[v]
    /\ tx'[w] \in Recovering /\ tx'[w].run = r
    /\ \A x \in Expired :
           /\ tx'[w].expired[x] = stage[r][x].attempts
           /\ tx'[w].seen[x] = Recovered(x, stage[r][x].attempts)
    /\ \A x \in Roles \ Expired :
           tx'[w].expired[x] = 0 /\ tx'[w].seen[x] = StateOf(r, x)
    /\ UNCHANGED <<run, stage, calls, late, routed>>

\* A recovery reads some stages that are running as expired.
LEMMA ReadEffect ==
    ASSUME TypeOK, NEW w \in Workers, NEW r \in Runs, recover_reads(w, r)
    PROVE  \E Expired \in SUBSET {x \in Roles : StateOf(r, x) = "RUNNING"} : Reads(w, r, Expired)
<1> DEFINE next(E) ==
        [step |-> "RECOVERING", run |-> r, fusion |-> run[r].fusion,
         expired |-> [x \in Roles |-> IF x \in E THEN stage[r][x].attempts ELSE 0],
         seen |-> [x \in Roles |->
             IF x \in E THEN Recovered(x, stage[r][x].attempts) ELSE StateOf(r, x)]]
<1>1. PICK Expired \in (SUBSET {x \in Roles : StateOf(r, x) = "RUNNING"}) \ {{}} :
          tx' = [tx EXCEPT ![w] = next(Expired)]
  BY DEF recover_reads
<1>2. \A x \in Roles : stage[r][x].attempts \in Nat /\ StateOf(r, x) \in StageStates
  BY DEF TypeOK, StageRun, StateOf
<1>3. \A x \in Roles : Recovered(x, stage[r][x].attempts) \in StageStates
  BY <1>2, RecoveredType DEF StageStates, TERMINAL, Broken
<1>4. run[r].fusion \in Fusions
  BY DEF TypeOK, AgentRun
<1>5. /\ next(Expired) \in Recovering /\ next(Expired).run = r
      /\ \A x \in Expired :
             /\ next(Expired).expired[x] = stage[r][x].attempts
             /\ next(Expired).seen[x] = Recovered(x, stage[r][x].attempts)
      /\ \A x \in Roles \ Expired :
             next(Expired).expired[x] = 0 /\ next(Expired).seen[x] = StateOf(r, x)
  <2> DEFINE expired == [x \in Roles |-> IF x \in Expired THEN stage[r][x].attempts ELSE 0]
             seen == [x \in Roles |->
                 IF x \in Expired THEN Recovered(x, stage[r][x].attempts) ELSE StateOf(r, x)]
  <2>1. expired \in [Roles -> Nat]
    BY <1>2
  <2>2. seen \in [Roles -> StageStates]
    BY <1>2, <1>3
  <2>3. \A x \in Expired : expired[x] = stage[r][x].attempts /\ seen[x] = Recovered(x, stage[r][x].attempts)
    OBVIOUS
  <2>4. \A x \in Roles \ Expired : expired[x] = 0 /\ seen[x] = StateOf(r, x)
    OBVIOUS
  <2>5. next(Expired) = [step |-> "RECOVERING", run |-> r, fusion |-> run[r].fusion,
                         expired |-> expired, seen |-> seen]
    OBVIOUS
  <2> HIDE DEF next, expired, seen
  <2> QED BY <1>4, <2>1, <2>2, <2>3, <2>4, <2>5 DEF Recovering
<1> HIDE DEF next
<1>6. /\ tx' \in [Workers -> TxStates]
      /\ \A v \in Workers \ {w} : tx'[v] = tx[v]
      /\ tx'[w] = next(Expired)
  BY <1>1, <1>5 DEF TypeOK, TxStates
<1>7. tx[w] = Idle /\ UNCHANGED <<run, stage, calls, late, routed>>
  BY DEF recover_reads
<1>8. /\ Expired # {}
      /\ tx'[w] \in Recovering /\ tx'[w].run = r
      /\ \A x \in Expired :
             /\ tx'[w].expired[x] = stage[r][x].attempts
             /\ tx'[w].seen[x] = Recovered(x, stage[r][x].attempts)
      /\ \A x \in Roles \ Expired :
             tx'[w].expired[x] = 0 /\ tx'[w].seen[x] = StateOf(r, x)
  BY <1>5, <1>6
<1>9. Reads(w, r, Expired)
  BY <1>6, <1>7, <1>8 DEF Reads
<1> QED BY <1>9

-----------------------------------------------------------------------------
\* Every variable keeps its type through an action of the agent runtime.
LEMMA TypeStep == TypeOK /\ [Next]_vars => TypeOK'
<1> SUFFICES ASSUME TypeOK, [Next]_vars PROVE TypeOK'
  OBVIOUS
<1> USE DEF TxStates
<1>1. ASSUME NEW r \in Runs, NEW purpose \in {"DIAGNOSTIC", "TRADING_ADVISORY"}, _create_run(r, purpose)
      PROVE  TypeOK'
  <2>1. run' \in [Runs -> AgentRun]
    BY <1>1, ZenonT(60) DEF _create_run, TypeOK, AgentRun, Fusions
  <2> QED BY <1>1, <2>1 DEF _create_run, TypeOK
<1>2. ASSUME NEW w \in Workers, NEW r \in Runs, NEW x \in Roles, claim_next_stage(w, r, x)
      PROVE  TypeOK'
  BY <1>2, ClaimEffect DEF TypeOK
<1>3. ASSUME NEW w \in Workers, NEW r \in Runs, NEW x \in Roles, claim_ends(w, r, x)
      PROVE  TypeOK'
  <2> DEFINE seen(state) == [StatesOf(r) EXCEPT ![x] = state]
  <2>1. PICK state \in Broken :
            /\ stage' = [stage EXCEPT ![r][x].state = state]
            /\ _finalize_run(w, r, seen(state), run[r])
            /\ seen(state) \in [Roles -> StageStates] /\ run[r] \in AgentRun
    BY <1>3, ClaimEndsEffect
  <2> HIDE DEF seen
  <2>2. stage' \in [Runs -> [Roles -> StageRun]]
    <3>1. stage[r][x] \in StageRun /\ state \in StageStates
      BY DEF TypeOK, StageStates, TERMINAL
    <3>2. [stage[r][x] EXCEPT !.state = state] \in StageRun
      BY <3>1 DEF StageRun
    <3>3. stage' = [stage EXCEPT ![r][x] = [stage[r][x] EXCEPT !.state = state]]
      BY <2>1 DEF TypeOK
    <3> QED BY <3>2, <3>3 DEF TypeOK
  <2>3. run' \in [Runs -> AgentRun] /\ tx' \in [Workers -> TxStates] /\ routed' \subseteq Runs
    BY <2>1, FinalizeEffect, SMTT(40) DEF TypeOK
  <2> QED BY <1>3, <2>2, <2>3 DEF TypeOK, claim_ends
<1>4. ASSUME NEW w \in Workers, execute_claimed_stage(w)
      PROVE  TypeOK'
  BY <1>4, StartEffect DEF TypeOK
<1>5. ASSUME NEW w \in Workers, _invoke_once(w)
      PROVE  TypeOK'
  BY <1>5, InvokeEffect DEF TypeOK
<1>6. ASSUME NEW w \in Workers, _execute_stage(w)
      PROVE  TypeOK'
  <2> DEFINE r == tx[w].run
             x == tx[w].role
  <2>0. r \in Runs /\ x \in Roles
    BY <1>6, TxByStep DEF _execute_stage, Executing
  <2> DEFINE seen(outcome) == [StatesOf(r) EXCEPT ![x] = outcome]
             copy(bundle) == [run[r] EXCEPT !.bundle = bundle]
  <2>1. PICK outcome \in TERMINAL, bundle \in {"ABSENT", "PARTIAL", "VERIFIED"} :
            /\ stage' = [stage EXCEPT ![r][x].state = outcome, ![r][x].owner = NoWorker]
            /\ _finalize_run(w, r, seen(outcome), copy(bundle))
            /\ seen(outcome) \in [Roles -> StageStates]
            /\ copy(bundle) \in AgentRun
    BY <1>6, ExecuteEffect
  <2> HIDE DEF seen, copy
  <2>2. stage' \in [Runs -> [Roles -> StageRun]]
    <3> DEFINE row == [stage[r][x] EXCEPT !.state = outcome, !.owner = NoWorker]
    <3>1. stage[r][x] \in StageRun /\ outcome \in StageStates
      BY <2>0 DEF TypeOK, StageStates
    <3>2. row \in StageRun
      BY <3>1 DEF StageRun
    <3>3. stage' = [stage EXCEPT ![r][x] = row]
      BY <2>0, <2>1 DEF TypeOK
    <3> HIDE DEF row
    <3> QED BY <2>0, <3>2, <3>3 DEF TypeOK
  <2>3. run' \in [Runs -> AgentRun] /\ tx' \in [Workers -> TxStates] /\ routed' \subseteq Runs
    BY <2>0, <2>1, FinalizeEffect DEF TypeOK
  <2> QED BY <1>6, <2>2, <2>3 DEF TypeOK, _execute_stage
<1>7. ASSUME NEW w \in Workers, finalize_position_advisory(w)
      PROVE  TypeOK'
  <2>1. tx[w].run \in Runs
    BY <1>7, TxByStep DEF finalize_position_advisory, Fused
  <2>2. run' \in [Runs -> AgentRun]
    BY <1>7, <2>1, ZenonT(60) DEF finalize_position_advisory, TypeOK, AgentRun, Fusions
  <2> QED BY <1>7, <2>2 DEF finalize_position_advisory, TypeOK
<1>8. ASSUME NEW w \in Workers, NEW r \in Runs, recover_reads(w, r)
      PROVE  TypeOK'
  BY <1>8, ReadEffect DEF TypeOK, Reads
<1>9. ASSUME NEW w \in Workers, recover_expired_stages(w)
      PROVE  TypeOK'
  <2> DEFINE r == tx[w].run
             copy == [run[r] EXCEPT !.fusion = tx[w].fusion]
  <2>1. /\ r \in Runs
        /\ stage' \in [Runs -> [Roles -> StageRun]]
        /\ late' \subseteq late \cup {r}
        /\ _finalize_run(w, r, tx[w].seen, copy)
        /\ tx[w].seen \in [Roles -> StageStates] /\ copy \in AgentRun
    <3>1. tx[w] \in Recovering
      BY <1>9, RecoverEffect
    <3> QED BY <1>9, <3>1, RecoverEffect DEF Recovering
  <2> HIDE DEF copy
  <2>2. run' \in [Runs -> AgentRun] /\ tx' \in [Workers -> TxStates] /\ routed' \subseteq Runs
    BY <2>1, FinalizeEffect DEF TypeOK
  <2>3. calls' = calls
    BY <1>9 DEF recover_expired_stages
  <2> QED BY <2>1, <2>2, <2>3 DEF TypeOK
<1>10. ASSUME NEW w \in Workers, Crash(w)
       PROVE  TypeOK'
  BY <1>10 DEF Crash, TypeOK
<1>11. CASE UNCHANGED vars
  BY <1>11 DEF TypeOK, vars
<1> QED
  BY <1>1, <1>2, <1>3, <1>4, <1>5, <1>6, <1>7, <1>8, <1>9, <1>10, <1>11 DEF Next, WorkerStep

\* Whatever workers do to runs, stages and each other, every row, transaction
\* and counter keeps its type.
THEOREM AgentTypeCorrect == Spec => []TypeOK
<1>1. Init => TypeOK
  BY DEF Init, TypeOK, AgentRun, StageRun, StageStates, Fusions
<1> QED BY <1>1, TypeStep, PTL DEF Spec

-----------------------------------------------------------------------------
(***************************************************************************)
(* A step that ends stage x of run r in state end: what claim_ends and     *)
(* _execute_stage do to the rows, with the end of the transaction.         *)
(***************************************************************************)

After(r) == [y \in Roles |-> stage'[r][y].state]

EndsStage(w, r, x, end, bundle) ==
    /\ \A q \in Runs \ {r} : stage'[q] = stage[q] /\ run'[q] = run[q]
    /\ \A y \in Roles \ {x} : stage'[r][y] = stage[r][y]
    /\ stage'[r][x].state = end /\ stage'[r][x].attempts = stage[r][x].attempts
    /\ run'[r].bundle = bundle
    /\ run'[r].state = IF Settled(After(r)) THEN RunResult(After(r), bundle) ELSE run[r].state
    /\ tx'[w].step \in {"IDLE", "FUSED"}
    /\ \A v \in Workers \ {w} : tx'[v] = tx[v]
    /\ routed' \subseteq routed \cup {r}
    /\ r \in routed' \ routed => Settled(After(r)) /\ \A y \in Routed : After(r)[y] = "SUCCEEDED"
    /\ UNCHANGED <<calls, late>>

\* A claim that ends its stage does so to a stage that was pending.
LEMMA ClaimEndsStep ==
    ASSUME TypeOK, NEW w \in Workers, NEW r \in Runs, NEW x \in Roles, claim_ends(w, r, x)
    PROVE  /\ tx[w] = Idle /\ StateOf(r, x) = "PENDING"
           /\ (dependency_failed(r, x) /\ ~may_reduce_v4_result(x)) \/ Ready(r, x)
           /\ \E end \in Broken : EndsStage(w, r, x, end, run[r].bundle)
<1>1. tx[w] = Idle /\ StateOf(r, x) = "PENDING" /\ UNCHANGED <<calls, late>>
  BY DEF claim_ends, Claimable
<1> DEFINE seen(state) == [StatesOf(r) EXCEPT ![x] = state]
<1>2. PICK state \in Broken :
          /\ (dependency_failed(r, x) /\ ~may_reduce_v4_result(x)) \/ Ready(r, x)
          /\ stage' = [stage EXCEPT ![r][x].state = state]
          /\ _finalize_run(w, r, seen(state), run[r])
          /\ seen(state) \in [Roles -> StageStates] /\ run[r] \in AgentRun
  BY ClaimEndsEffect
<1>3. stage[r] \in [Roles -> StageRun] /\ stage[r][x] \in StageRun
  BY DEF TypeOK
<1>4. /\ \A q \in Runs \ {r} : stage'[q] = stage[q]
      /\ \A y \in Roles \ {x} : stage'[r][y] = stage[r][y]
      /\ stage'[r][x] = [stage[r][x] EXCEPT !.state = state]
  BY <1>2, <1>3 DEF TypeOK
<1>5. stage'[r][x].state = state /\ stage'[r][x].attempts = stage[r][x].attempts
  BY <1>3, <1>4 DEF StageRun
<1>6. After(r) = seen(state)
  BY <1>4, <1>5 DEF After, StatesOf, StateOf
<1> HIDE DEF seen
<1>7. EndsStage(w, r, x, state, run[r].bundle)
  BY <1>1, <1>2, <1>4, <1>5, <1>6, FinalizeEffect DEF EndsStage
<1> QED BY <1>1, <1>2, <1>7

\* An execution ends the stage its worker holds.
LEMMA ExecuteStep ==
    ASSUME TypeOK, NEW w \in Workers, _execute_stage(w)
    PROVE  \E r \in Runs, x \in Roles, end \in TERMINAL, bundle \in {"ABSENT", "PARTIAL", "VERIFIED"} :
               /\ tx[w] \in Executing /\ r = tx[w].run /\ x = tx[w].role
               /\ end \in Outcomes(r, x, tx[w].invoked) /\ bundle \in Bundles(r, x, end)
               /\ EndsStage(w, r, x, end, bundle)
<1> DEFINE r == tx[w].run
           x == tx[w].role
           seen(outcome) == [StatesOf(r) EXCEPT ![x] = outcome]
           copy(bundle) == [run[r] EXCEPT !.bundle = bundle]
<1>1. tx[w] \in Executing /\ r \in Runs /\ x \in Roles /\ UNCHANGED <<calls, late>>
  BY TxByStep DEF _execute_stage, Executing
<1>2. PICK outcome \in TERMINAL, bundle \in {"ABSENT", "PARTIAL", "VERIFIED"} :
          /\ outcome \in Outcomes(r, x, tx[w].invoked)
          /\ bundle \in Bundles(r, x, outcome)
          /\ stage' = [stage EXCEPT ![r][x].state = outcome, ![r][x].owner = NoWorker]
          /\ _finalize_run(w, r, seen(outcome), copy(bundle))
          /\ seen(outcome) \in [Roles -> StageStates] /\ copy(bundle) \in AgentRun
  BY ExecuteEffect, Zenon
<1>3. stage[r] \in [Roles -> StageRun] /\ stage[r][x] \in StageRun /\ run[r] \in AgentRun
  BY <1>1 DEF TypeOK
<1>4. /\ \A q \in Runs \ {r} : stage'[q] = stage[q]
      /\ \A y \in Roles \ {x} : stage'[r][y] = stage[r][y]
      /\ stage'[r][x] = [stage[r][x] EXCEPT !.state = outcome, !.owner = NoWorker]
  BY <1>1, <1>2, <1>3 DEF TypeOK
<1>5. stage'[r][x].state = outcome /\ stage'[r][x].attempts = stage[r][x].attempts
  BY <1>3, <1>4 DEF StageRun
<1>6. After(r) = seen(outcome)
  BY <1>1, <1>4, <1>5 DEF After, StatesOf, StateOf
<1>7. copy(bundle).bundle = bundle
  BY <1>3 DEF AgentRun
<1> HIDE DEF seen, copy
<1>8. EndsStage(w, r, x, outcome, bundle)
  <2>1. /\ \A q \in Runs \ {r} : run'[q] = run[q]
        /\ run'[r].bundle = bundle
        /\ run'[r].state = IF Settled(seen(outcome)) THEN RunResult(seen(outcome), bundle) ELSE run[r].state
        /\ tx'[w].step \in {"IDLE", "FUSED"}
        /\ \A v \in Workers \ {w} : tx'[v] = tx[v]
        /\ routed' \subseteq routed \cup {r}
        /\ r \in routed' \ routed =>
               Settled(seen(outcome)) /\ \A y \in Routed : seen(outcome)[y] = "SUCCEEDED"
    <3>1. PICK s \in [Roles -> StageStates], c \in AgentRun : s = seen(outcome) /\ c = copy(bundle)
      BY <1>2, Zenon
    <3>2. PICK q \in Runs : q = r
      BY <1>1
    <3>3. _finalize_run(w, q, s, c) /\ c.bundle = bundle
      BY <1>2, <1>7, <3>1, <3>2, Zenon
    <3> HIDE DEF r
    <3>4. /\ \A p \in Runs \ {q} : run'[p] = run[p]
          /\ run'[q].bundle = c.bundle
          /\ run'[q].state = IF Settled(s) THEN RunResult(s, c.bundle) ELSE run[q].state
          /\ tx'[w].step \in {"IDLE", "FUSED"}
          /\ \A v \in Workers \ {w} : tx'[v] = tx[v]
          /\ routed' \subseteq routed \cup {q}
          /\ q \in routed' \ routed => Settled(s) /\ \A y \in Routed : s[y] = "SUCCEEDED"
      BY <3>3, FinalizeEffect
    <3> QED BY <3>1, <3>2, <3>3, <3>4
  <2> QED BY <1>1, <1>4, <1>5, <1>6, <2>1 DEF EndsStage
<1> QED BY <1>1, <1>2, <1>8

-----------------------------------------------------------------------------
(***************************************************************************)
(* NoResend.  A routed stage has one attempt, so it is claimed once; from  *)
(* its claim to its end one worker has it, and what that worker has called *)
(* is all that was ever called.                                            *)
(***************************************************************************)

Works(w, r, x) == tx[w].step \in {"CLAIMED", "EXECUTING"} /\ tx[w].run = r /\ tx[w].role = x

Invoked(w) == IF tx[w].step = "EXECUTING" THEN tx[w].invoked ELSE 0

\* The stage was claimed once at most, and no recovery makes it claimable again.
ClaimedOnce(r, x) ==
    /\ stage[r][x].attempts <= 1
    /\ StateOf(r, x) = "PENDING" => stage[r][x].attempts = 0
    /\ \A w \in Workers : tx[w].step = "RECOVERING" /\ tx[w].run = r /\ tx[w].expired[x] > 0
           => tx[w].seen[x] = "TIMED_OUT"

\* One worker has the stage, and its calls are the calls of the stage.
HeldOnce(r, x) ==
    /\ stage[r][x].attempts = 0 => calls[r][x] = 0 /\ \A w \in Workers : ~Works(w, r, x)
    /\ \A w \in Workers : Works(w, r, x) => calls[r][x] = Invoked(w)
    /\ \A v, w \in Workers : Works(v, r, x) /\ Works(w, r, x) => v = w

SendInv ==
    /\ NoResend
    /\ \A r \in Runs, x \in Routed : ClaimedOnce(r, x) /\ HeldOnce(r, x)

\* A step that leaves run, stage and calls of a routed stage alone, and the
\* other workers, keeps SendInv if its worker drops what it had.
LEMMA SendKeeps ==
    ASSUME TypeOK, TypeOK', SendInv, NEW w \in Workers,
           tx'[w].step \in {"IDLE", "FUSED"}, \A v \in Workers \ {w} : tx'[v] = tx[v],
           calls' = calls,
           \A r \in Runs, x \in Roles :
               /\ stage'[r][x].attempts = stage[r][x].attempts
               /\ x \in Routed /\ stage'[r][x].state = "PENDING" => stage[r][x].state = "PENDING"
    PROVE  SendInv'
<1>1. NoResend'
  BY DEF SendInv, NoResend
<1>2. ASSUME NEW r \in Runs, NEW x \in Routed
      PROVE  ClaimedOnce(r, x)' /\ HeldOnce(r, x)'
  <2>1. x \in Roles /\ ClaimedOnce(r, x) /\ HeldOnce(r, x)
    BY RolesAreKnown DEF SendInv
  <2>2. \A v \in Workers : Works(v, r, x)' => v # w /\ Works(v, r, x) /\ Invoked(v)' = Invoked(v)
    BY DEF Works, Invoked
  <2>3. ClaimedOnce(r, x)'
    BY <2>1 DEF ClaimedOnce, StateOf
  <2>4. HeldOnce(r, x)'
    BY <2>1, <2>2 DEF HeldOnce
  <2> QED BY <2>3, <2>4
<1> QED BY <1>1, <1>2 DEF SendInv

\* SendInv is inductive.
LEMMA SendStep == TypeOK /\ TypeOK' /\ SendInv /\ [Next]_vars => SendInv'
<1> SUFFICES ASSUME TypeOK, TypeOK', SendInv, [Next]_vars PROVE SendInv'
  OBVIOUS
<1>1. ASSUME NEW r \in Runs, NEW purpose \in {"DIAGNOSTIC", "TRADING_ADVISORY"}, _create_run(r, purpose)
      PROVE  SendInv'
  BY <1>1 DEF _create_run, SendInv, NoResend, ClaimedOnce, HeldOnce, Works, Invoked, StateOf
<1>2. ASSUME NEW w \in Workers, NEW r \in Runs, NEW x \in Roles, claim_next_stage(w, r, x)
      PROVE  SendInv'
  <2>1. NoResend'
    BY <1>2, ClaimEffect DEF SendInv, NoResend
  <2>2. ASSUME NEW q \in Runs, NEW y \in Routed
        PROVE  ClaimedOnce(q, y)' /\ HeldOnce(q, y)'
    <3>1. y \in Roles /\ ClaimedOnce(q, y) /\ HeldOnce(q, y)
      BY RolesAreKnown DEF SendInv
    <3>2. Idle.step = "IDLE"
      BY DEF Idle
    <3>3. CASE q = r /\ y = x
      <4>1. stage[r][x].attempts = 0 /\ calls[r][x] = 0 /\ \A v \in Workers : ~Works(v, r, x)
        BY <1>2, <3>1, <3>3, ClaimEffect DEF ClaimedOnce, HeldOnce
      <4>2. /\ stage'[r][x].attempts = 1 /\ stage'[r][x].state = "RUNNING" /\ calls' = calls
            /\ tx'[w].step = "CLAIMED" /\ \A v \in Workers \ {w} : tx'[v] = tx[v]
        BY <1>2, <4>1, ClaimEffect
      <4>3. ClaimedOnce(r, x)'
        BY <3>1, <3>3, <4>2 DEF ClaimedOnce, StateOf
      <4>4. \A v \in Workers \ {w} : ~Works(v, r, x)'
        BY <4>1, <4>2 DEF Works
      <4>5. Invoked(w)' = 0
        BY <4>2 DEF Invoked
      <4>6. HeldOnce(r, x)'
        BY <4>1, <4>2, <4>4, <4>5 DEF HeldOnce
      <4> QED BY <3>3, <4>3, <4>6
    <3>4. CASE ~(q = r /\ y = x)
      <4>1. /\ stage'[q][y] = stage[q][y] /\ calls' = calls
            /\ \A v \in Workers \ {w} : tx'[v] = tx[v]
            /\ tx'[w].step = "CLAIMED" /\ tx'[w].run = r /\ tx'[w].role = x
        BY <1>2, <3>1, <3>4, ClaimEffect
      <4>2. \A v \in Workers : Works(v, q, y)' => v # w /\ Works(v, q, y) /\ Invoked(v)' = Invoked(v)
        BY <3>4, <4>1 DEF Works, Invoked
      <4>3. ClaimedOnce(q, y)'
        BY <3>1, <4>1 DEF ClaimedOnce, StateOf
      <4>4. HeldOnce(q, y)'
        BY <3>1, <4>1, <4>2 DEF HeldOnce
      <4> QED BY <4>3, <4>4
    <3> QED BY <3>3, <3>4
  <2> QED BY <2>1, <2>2 DEF SendInv
<1>3. ASSUME NEW w \in Workers, NEW r \in Runs, NEW x \in Roles, claim_ends(w, r, x)
      PROVE  SendInv'
  <2>1. PICK end \in Broken : EndsStage(w, r, x, end, run[r].bundle)
    BY <1>3, ClaimEndsStep
  <2>2. ASSUME NEW q \in Runs, NEW y \in Roles
        PROVE  /\ stage'[q][y].attempts = stage[q][y].attempts
               /\ stage'[q][y].state = "PENDING" => stage[q][y].state = "PENDING"
    BY <2>1 DEF EndsStage, Broken
  <2> QED BY <2>1, <2>2, SendKeeps DEF EndsStage
<1>4. ASSUME NEW w \in Workers, execute_claimed_stage(w)
      PROVE  SendInv'
  <2>1. NoResend'
    BY <1>4, StartEffect DEF SendInv, NoResend
  <2>2. ASSUME NEW q \in Runs, NEW y \in Routed
        PROVE  ClaimedOnce(q, y)' /\ HeldOnce(q, y)'
    <3>1. y \in Roles /\ ClaimedOnce(q, y) /\ HeldOnce(q, y)
      BY RolesAreKnown DEF SendInv
    <3>2. /\ stage' = stage /\ calls' = calls
          /\ \A v \in Workers \ {w} : tx'[v] = tx[v]
          /\ tx[w].step = "CLAIMED"
          /\ \/ tx'[w].step = "IDLE"
             \/ /\ tx'[w].step = "EXECUTING" /\ tx'[w].run = tx[w].run /\ tx'[w].role = tx[w].role
                /\ tx'[w].invoked = 0
      BY <1>4, StartEffect DEF Claimed, Executing, Idle
    <3>3. \A v \in Workers : Works(v, q, y)' => Works(v, q, y) /\ Invoked(v)' = Invoked(v)
      BY <3>2 DEF Works, Invoked
    <3>4. ClaimedOnce(q, y)'
      BY <3>1, <3>2 DEF ClaimedOnce, StateOf
    <3>5. HeldOnce(q, y)'
      BY <3>1, <3>2, <3>3 DEF HeldOnce
    <3> QED BY <3>4, <3>5
  <2> QED BY <2>1, <2>2 DEF SendInv
<1>5. ASSUME NEW w \in Workers, _invoke_once(w)
      PROVE  SendInv'
  <2> DEFINE r == tx[w].run
             x == tx[w].role
  <2>1. /\ r \in Runs /\ x \in Routed /\ x \in Roles
        /\ tx[w].step = "EXECUTING" /\ tx[w].invoked \in 0..2
        /\ tx[w].invoked < IF x \in Failover THEN 2 ELSE 1
        /\ calls'[r][x] = calls[r][x] + 1 /\ calls[r][x] \in Nat
        /\ \A q \in Runs, y \in Roles : q # r \/ y # x => calls'[q][y] = calls[q][y]
        /\ \A v \in Workers \ {w} : tx'[v] = tx[v]
        /\ tx'[w].step = "EXECUTING" /\ tx'[w].run = r /\ tx'[w].role = x
        /\ tx'[w].invoked = tx[w].invoked + 1
        /\ stage' = stage
    <3>1. /\ tx[w] \in Executing /\ r \in Runs /\ x \in Routed
          /\ tx[w].invoked < IF x \in Failover THEN 2 ELSE 1
          /\ calls'[r][x] = calls[r][x] + 1
          /\ \A q \in Runs, y \in Roles : q # r \/ y # x => calls'[q][y] = calls[q][y]
          /\ \A v \in Workers \ {w} : tx'[v] = tx[v]
          /\ tx'[w] \in Executing /\ tx'[w].run = r /\ tx'[w].role = x
          /\ tx'[w].invoked = tx[w].invoked + 1
          /\ stage' = stage
      BY <1>5, InvokeEffect
    <3>2. x \in Roles
      BY <3>1, RolesAreKnown
    <3>3. tx[w].step = "EXECUTING" /\ tx[w].invoked \in 0..2 /\ tx'[w].step = "EXECUTING"
      BY <3>1 DEF Executing
    <3>4. calls[r][x] \in Nat
      BY <3>1, <3>2 DEF TypeOK
    <3> QED BY <3>1, <3>2, <3>3, <3>4
  <2>2. Works(w, r, x) /\ ClaimedOnce(r, x) /\ HeldOnce(r, x)
    BY <2>1 DEF Works, SendInv
  <2>3. calls[r][x] = tx[w].invoked
    BY <2>1, <2>2 DEF HeldOnce, Invoked
  <2>4. NoResend'
    <3>1. calls'[r][x] <= IF x \in Failover THEN 2 ELSE IF x \in Routed THEN 1 ELSE 0
      BY <2>1, <2>3
    <3> QED BY <2>1, <3>1 DEF NoResend, SendInv
  <2>5. ASSUME NEW q \in Runs, NEW y \in Routed
        PROVE  ClaimedOnce(q, y)' /\ HeldOnce(q, y)'
    <3>1. y \in Roles /\ ClaimedOnce(q, y) /\ HeldOnce(q, y)
      BY RolesAreKnown DEF SendInv
    <3>2. ClaimedOnce(q, y)'
      BY <2>1, <3>1 DEF ClaimedOnce, StateOf
    <3>3. \A v \in Workers : Works(v, q, y)' => Works(v, q, y)
      BY <2>1 DEF Works
    <3>4. CASE q = r /\ y = x
      <4>1. \A v \in Workers : Works(v, r, x) => v = w
        BY <2>2, <3>1, <3>4 DEF HeldOnce
      <4>2. Invoked(w)' = calls'[r][x]
        BY <2>1, <2>3 DEF Invoked
      <4>3. stage[r][x].attempts # 0
        BY <2>2 DEF HeldOnce
      <4> QED BY <2>1, <3>2, <3>3, <3>4, <4>1, <4>2, <4>3 DEF HeldOnce
    <3>5. CASE ~(q = r /\ y = x)
      <4>1. calls'[q][y] = calls[q][y]
        BY <2>1, <3>1, <3>5
      <4>2. \A v \in Workers : Works(v, q, y)' => v # w /\ Invoked(v)' = Invoked(v)
        BY <2>1, <3>5 DEF Works, Invoked
      <4> QED BY <2>1, <3>1, <3>2, <3>3, <4>1, <4>2 DEF HeldOnce
    <3> QED BY <3>4, <3>5
  <2> QED BY <2>4, <2>5 DEF SendInv
<1>6. ASSUME NEW w \in Workers, _execute_stage(w)
      PROVE  SendInv'
  <2>1. PICK r \in Runs, x \in Roles, end \in TERMINAL, bundle \in {"ABSENT", "PARTIAL", "VERIFIED"} :
            EndsStage(w, r, x, end, bundle)
    BY <1>6, ExecuteStep
  <2>2. ASSUME NEW q \in Runs, NEW y \in Roles
        PROVE  /\ stage'[q][y].attempts = stage[q][y].attempts
               /\ stage'[q][y].state = "PENDING" => stage[q][y].state = "PENDING"
    BY <2>1 DEF EndsStage, TERMINAL, Broken, DEPENDENCY_OK
  <2> QED BY <2>1, <2>2, SendKeeps DEF EndsStage
<1>7. ASSUME NEW w \in Workers, finalize_position_advisory(w) \/ Crash(w)
      PROVE  SendInv'
  <2>1. stage' = stage /\ calls' = calls /\ tx' = [tx EXCEPT ![w] = Idle]
    BY <1>7 DEF finalize_position_advisory, Crash
  <2>2. tx'[w].step = "IDLE" /\ \A v \in Workers \ {w} : tx'[v] = tx[v]
    BY <2>1 DEF TypeOK, Idle
  <2> QED BY <2>1, <2>2, SendKeeps
<1>8. ASSUME NEW w \in Workers, NEW r \in Runs, recover_reads(w, r)
      PROVE  SendInv'
  <2>0. PICK Expired \in SUBSET {x \in Roles : StateOf(r, x) = "RUNNING"} : Reads(w, r, Expired)
    BY <1>8, ReadEffect
  <2>1. /\ \A v \in Workers \ {w} : tx'[v] = tx[v]
        /\ tx'[w] \in Recovering /\ tx'[w].run = r
        /\ \A x \in Expired :
               /\ tx'[w].expired[x] = stage[r][x].attempts
               /\ tx'[w].seen[x] = Recovered(x, stage[r][x].attempts)
        /\ \A x \in Roles \ Expired : tx'[w].expired[x] = 0
        /\ stage' = stage /\ calls' = calls
    BY <2>0 DEF Reads
  <2>2. NoResend'
    BY <2>1 DEF SendInv, NoResend
  <2>3. tx'[w].step = "RECOVERING"
    BY <2>1 DEF Recovering
  <2>4. ASSUME NEW q \in Runs, NEW y \in Routed
        PROVE  ClaimedOnce(q, y)' /\ HeldOnce(q, y)'
    <3>1. y \in Roles /\ ClaimedOnce(q, y) /\ HeldOnce(q, y)
      BY RolesAreKnown DEF SendInv
    <3>2. \A v \in Workers : Works(v, q, y)' => v # w /\ Works(v, q, y) /\ Invoked(v)' = Invoked(v)
      BY <2>1, <2>3 DEF Works, Invoked
    <3>3. tx'[w].expired[y] > 0 => tx'[w].seen[y] = "TIMED_OUT"
      <4>1. stage[r][y].attempts \in Nat
        BY <3>1 DEF TypeOK, StageRun
      <4> QED BY <2>1, <3>1, <4>1, RecoveredType
    <3>4. ClaimedOnce(q, y)'
      BY <2>1, <3>1, <3>3 DEF ClaimedOnce, StateOf
    <3>5. HeldOnce(q, y)'
      BY <2>1, <3>1, <3>2 DEF HeldOnce
    <3> QED BY <3>4, <3>5
  <2> QED BY <2>2, <2>4 DEF SendInv
<1>9. ASSUME NEW w \in Workers, recover_expired_stages(w)
      PROVE  SendInv'
  <2> DEFINE r == tx[w].run
             copy == [run[r] EXCEPT !.fusion = tx[w].fusion]
  <2>1. /\ tx[w] \in Recovering
        /\ \A q \in Runs \ {r} : stage'[q] = stage[q]
        /\ \A x \in Roles :
               /\ stage'[r][x].attempts = stage[r][x].attempts
               /\ tx[w].expired[x] > 0 => stage'[r][x].state = tx[w].seen[x]
               /\ ~(tx[w].expired[x] > 0) => stage'[r][x] = stage[r][x]
        /\ _finalize_run(w, r, tx[w].seen, copy)
        /\ tx[w].seen \in [Roles -> StageStates] /\ copy \in AgentRun
    BY <1>9, RecoverEffect
  <2>2. r \in Runs /\ tx[w].step = "RECOVERING"
    BY <2>1 DEF Recovering
  <2> HIDE DEF copy
  <2>3. tx'[w].step \in {"IDLE", "FUSED"} /\ \A v \in Workers \ {w} : tx'[v] = tx[v]
    BY <2>1, <2>2, FinalizeEffect
  <2>4. calls' = calls
    BY <1>9 DEF recover_expired_stages
  <2>5. ASSUME NEW q \in Runs, NEW y \in Roles
        PROVE  /\ stage'[q][y].attempts = stage[q][y].attempts
               /\ y \in Routed /\ stage'[q][y].state = "PENDING" => stage[q][y].state = "PENDING"
    <3>1. CASE q # r
      BY <2>1, <3>1
    <3>2. CASE q = r /\ y \in Routed
      <4>1. tx[w].expired[y] > 0 => tx[w].seen[y] = "TIMED_OUT"
        BY <2>2, <3>2 DEF SendInv, ClaimedOnce
      <4> QED BY <2>1, <3>2, <4>1
    <3>3. CASE q = r /\ y \notin Routed
      BY <2>1, <3>3
    <3> QED BY <3>1, <3>2, <3>3
  <2> QED BY <2>3, <2>4, <2>5, SendKeeps
<1>10. CASE UNCHANGED vars
  BY <1>10 DEF vars, SendInv, NoResend, ClaimedOnce, HeldOnce, Works, Invoked, StateOf
<1> QED
  BY <1>1, <1>2, <1>3, <1>4, <1>5, <1>6, <1>7, <1>8, <1>9, <1>10 DEF Next, WorkerStep

-----------------------------------------------------------------------------
(***************************************************************************)
(* RunAgreesWithStages and FusedFromComplete.  Stages end in the order of  *)
(* the graph, and CORE last.  A recovery decides about the run with what   *)
(* it read, which is what its commit makes of the stages: stages that had  *)
(* ended have not moved, and one that had not ended can only be CORE.      *)
(***************************************************************************)

\* A stage has left PENDING only after what it depends on has ended.
InOrder ==
    \A r \in Runs \ late, x \in Roles :
        StateOf(r, x) # "PENDING" => \A d \in STAGES[x] : StateOf(r, d) \in TERMINAL

\* A stage that is running was claimed, and an execution holds its row.
HeldRows ==
    /\ \A r \in Runs, x \in Roles : StateOf(r, x) = "RUNNING" => stage[r][x].attempts > 0
    /\ \A w \in Workers : tx[w].step = "EXECUTING" => StateOf(tx[w].run, tx[w].role) = "RUNNING"
    /\ \A v, w \in Workers :
           /\ tx[v].step = "EXECUTING" /\ tx[w].step = "EXECUTING"
           /\ tx[v].run = tx[w].run /\ tx[v].role = tx[w].role
           => v = w

\* What a recovery has read is still so where it had come to an end.
ReadIsCurrent ==
    \A w \in Workers : tx[w].step = "RECOVERING" =>
        /\ \E x \in Roles : tx[w].expired[x] > 0
        /\ \A x \in Roles : tx[w].expired[x] > 0 => tx[w].seen[x] \in {"PENDING", "TIMED_OUT"}
        /\ tx[w].run \notin late =>
               /\ tx[w].expired["CORE"] > 0 =>
                      \A x \in Roles \ {"CORE"} : tx[w].seen[x] \in TERMINAL
               /\ \A x \in Roles : tx[w].expired[x] = 0 /\ tx[w].seen[x] \in TERMINAL
                      => StateOf(tx[w].run, x) = tx[w].seen[x]

\* A scout succeeds on the evidence of a bundle.
OnEvidence ==
    \A r \in Runs, x \in Scouts : StateOf(r, x) = "SUCCEEDED" => run[r].bundle # "ABSENT"

DagInv == InOrder /\ HeldRows /\ ReadIsCurrent /\ OnEvidence /\ RunAgreesWithStages

\* The order of the graph: what a stage that is not at its end keeps pending.
LEMMA CoreIsLast ==
    ASSUME TypeOK, InOrder, NEW r \in Runs \ late, StateOf(r, "CORE") # "PENDING"
    PROVE  \A x \in Roles \ {"CORE"} : StateOf(r, x) \in TERMINAL
<1>1. /\ "CORE" \in Roles /\ "EVIDENCE_VERIFIER" \in Roles /\ "INTEL_COLLECTOR" \in Roles
      /\ Scouts \subseteq Roles
      /\ STAGES["CORE"] = Scouts \cup {"EVIDENCE_CANDIDATE_AUDITOR"}
      /\ STAGES["EVIDENCE_VERIFIER"] = {"INTEL_COLLECTOR"}
  BY RolesAreKnown DEF STAGES, Fixtures
<1>2. \A x \in Scouts : STAGES[x] = {"EVIDENCE_VERIFIER"}
  BY <1>1, RolesAreKnown DEF STAGES, Fixtures
<1>3. \A x \in Scouts \cup {"EVIDENCE_CANDIDATE_AUDITOR"} : StateOf(r, x) \in TERMINAL
  BY <1>1 DEF InOrder
<1>4. "PENDING" \notin TERMINAL
  BY DEF TERMINAL, Broken, DEPENDENCY_OK
<1>5. PICK s \in Scouts : TRUE
  BY RolesAreKnown
<1>6. StateOf(r, "EVIDENCE_VERIFIER") \in TERMINAL
  BY <1>1, <1>2, <1>3, <1>4, <1>5 DEF InOrder
<1>7. StateOf(r, "INTEL_COLLECTOR") \in TERMINAL
  BY <1>1, <1>4, <1>6 DEF InOrder
<1> QED BY <1>3, <1>6, <1>7, RolesAreKnown

\* A stage that is ready, or that ends because of a dependency, depends only on
\* stages at their end.
LEMMA ReadyIsInOrder ==
    ASSUME NEW r \in Runs, NEW x \in Roles,
           (dependency_failed(r, x) /\ ~may_reduce_v4_result(x)) \/ Ready(r, x)
    PROVE  \A d \in STAGES[x] : StateOf(r, d) \in TERMINAL
<1>1. CASE Ready(r, x)
  BY <1>1 DEF Ready, TERMINAL
<1>2. CASE dependency_failed(r, x) /\ ~may_reduce_v4_result(x)
  <2>1. x \notin {"CORE", "EVIDENCE_CANDIDATE_AUDITOR"}
    BY <1>2 DEF may_reduce_v4_result
  <2>2. \A d, e \in STAGES[x] : d = e
    BY <2>1 DEF STAGES
  <2>3. PICK d \in STAGES[x] : StateOf(r, d) \in Broken
    BY <1>2 DEF dependency_failed
  <2> QED BY <2>2, <2>3 DEF TERMINAL
<1> QED BY <1>1, <1>2

\* A run with a stage that has not ended has not ended.
LEMMA OpenStageOpenRun ==
    ASSUME RunAgreesWithStages, NEW r \in Runs \ late, NEW x \in Roles, StateOf(r, x) \notin TERMINAL
    PROVE  run[r].state \notin Ended
BY DEF RunAgreesWithStages, Settled, StatesOf

\* A step that ends a stage in the order of the graph keeps DagInv.
LEMMA EndKeepsDag ==
    ASSUME TypeOK, TypeOK', DagInv,
           NEW w \in Workers, NEW r \in Runs, NEW x \in Roles, NEW end \in TERMINAL, NEW bundle,
           EndsStage(w, r, x, end, bundle),
           StateOf(r, x) \notin TERMINAL,
           r \notin late => \A d \in STAGES[x] : StateOf(r, d) \in TERMINAL,
           \A v \in Workers \ {w} : ~(tx[v].step = "EXECUTING" /\ tx[v].run = r /\ tx[v].role = x),
           run[r].bundle # "ABSENT" => bundle # "ABSENT",
           x \in Scouts /\ end = "SUCCEEDED" => bundle # "ABSENT"
    PROVE  DagInv'
<1>1. /\ \A q \in Runs \ {r} : stage'[q] = stage[q] /\ run'[q] = run[q]
      /\ \A y \in Roles \ {x} : stage'[r][y] = stage[r][y]
      /\ stage'[r][x].state = end
      /\ run'[r].bundle = bundle
      /\ run'[r].state = IF Settled(After(r)) THEN RunResult(After(r), bundle) ELSE run[r].state
      /\ tx'[w].step \in {"IDLE", "FUSED"}
      /\ \A v \in Workers \ {w} : tx'[v] = tx[v]
      /\ late' = late
  BY DEF EndsStage
<1>2. end \notin {"PENDING", "RUNNING"}
  BY DEF TERMINAL, Broken, DEPENDENCY_OK
<1>3. InOrder'
  <2>1. \A q \in Runs, y \in Roles : q # r \/ y # x => stage'[q][y].state = stage[q][y].state
    BY <1>1
  <2> SUFFICES ASSUME NEW q \in Runs \ late, NEW y \in Roles, stage'[q][y].state # "PENDING",
                      NEW d \in STAGES[y], d \in Roles
               PROVE  stage'[q][d].state \in TERMINAL
    <3>1. \A y \in Roles : STAGES[y] \subseteq Roles
      BY RolesAreKnown DEF STAGES, Fixtures
    <3> QED BY <1>1, <3>1 DEF InOrder, StateOf
  <2>2. CASE q = r /\ y = x
    BY <1>1, <2>1, <2>2 DEF StateOf
  <2>3. CASE ~(q = r /\ y = x)
    <3>1. stage[q][d].state \in TERMINAL
      BY <2>1, <2>3 DEF DagInv, InOrder, StateOf
    <3> QED BY <1>1, <2>1, <3>1
  <2> QED BY <2>2, <2>3
<1>4. HeldRows'
  <2>1. \A q \in Runs, y \in Roles : stage'[q][y].state = "RUNNING" => stage'[q][y].attempts > 0
    BY <1>1, <1>2 DEF DagInv, HeldRows, StateOf
  <2>2. ASSUME NEW v \in Workers, tx'[v].step = "EXECUTING"
        PROVE  stage'[tx'[v].run][tx'[v].role].state = "RUNNING"
    <3>1. v # w /\ tx'[v] = tx[v]
      BY <1>1, <2>2
    <3>2. tx[v].run \in Runs /\ tx[v].role \in Roles
      BY <2>2, <3>1, TxByStep DEF Executing
    <3>3. ~(tx[v].run = r /\ tx[v].role = x)
      BY <2>2, <3>1
    <3>4. stage[tx[v].run][tx[v].role].state = "RUNNING"
      BY <2>2, <3>1 DEF DagInv, HeldRows, StateOf
    <3> QED BY <1>1, <3>1, <3>2, <3>3, <3>4
  <2>3. ASSUME NEW u \in Workers, NEW v \in Workers,
               tx'[u].step = "EXECUTING", tx'[v].step = "EXECUTING",
               tx'[u].run = tx'[v].run, tx'[u].role = tx'[v].role
        PROVE  u = v
    BY <1>1, <2>3 DEF DagInv, HeldRows
  <2> QED BY <2>1, <2>2, <2>3 DEF HeldRows, StateOf
<1>5. ReadIsCurrent'
  <2> SUFFICES ASSUME NEW v \in Workers, tx'[v].step = "RECOVERING"
               PROVE  ( /\ \E y \in Roles : tx[v].expired[y] > 0
                        /\ \A y \in Roles : tx[v].expired[y] > 0 => tx[v].seen[y] \in {"PENDING", "TIMED_OUT"}
                        /\ tx[v].run \notin late =>
                               /\ tx[v].expired["CORE"] > 0 =>
                                      \A y \in Roles \ {"CORE"} : tx[v].seen[y] \in TERMINAL
                               /\ \A y \in Roles : tx[v].expired[y] = 0 /\ tx[v].seen[y] \in TERMINAL
                                      => StateOf(tx[v].run, y) = tx[v].seen[y] )'
    BY DEF ReadIsCurrent
  <2>1. v # w /\ tx'[v] = tx[v]
    BY <1>1
  <2>2. tx[v].run \in Runs
    BY <2>1, TxByStep DEF Recovering
  <2>3. ASSUME tx[v].run \notin late, NEW y \in Roles,
               tx[v].expired[y] = 0, tx[v].seen[y] \in TERMINAL
        PROVE  stage'[tx[v].run][y].state = tx[v].seen[y]
    <3>1. stage[tx[v].run][y].state = tx[v].seen[y]
      BY <2>1, <2>3 DEF DagInv, ReadIsCurrent, StateOf
    <3>2. ~(tx[v].run = r /\ y = x)
      BY <2>3, <3>1 DEF StateOf
    <3> QED BY <1>1, <2>2, <3>1, <3>2
  <2> QED BY <1>1, <2>1, <2>3 DEF DagInv, ReadIsCurrent, StateOf
<1>6. OnEvidence'
  <2> SUFFICES ASSUME NEW q \in Runs, NEW y \in Scouts, stage'[q][y].state = "SUCCEEDED"
               PROVE  run'[q].bundle # "ABSENT"
    BY DEF OnEvidence, StateOf
  <2>1. y \in Roles
    BY RolesAreKnown
  <2>2. CASE q = r /\ y = x
    BY <1>1, <2>2
  <2>3. CASE ~(q = r /\ y = x)
    BY <1>1, <2>1, <2>3 DEF DagInv, OnEvidence, StateOf
  <2> QED BY <2>2, <2>3
<1>7. RunAgreesWithStages'
  <2> SUFFICES ASSUME NEW q \in Runs \ late
               PROVE  /\ run'[q].state \in Ended <=> Settled(After(q))
                      /\ run'[q].state \in Ended => run'[q].state = RunResult(After(q), run'[q].bundle)
    BY <1>1 DEF RunAgreesWithStages, StatesOf, StateOf, After
  <2>1. CASE q # r
    <3>1. After(q) = StatesOf(q) /\ run'[q] = run[q]
      BY <1>1, <2>1 DEF After, StatesOf, StateOf
    <3> QED BY <3>1 DEF DagInv, RunAgreesWithStages
  <2>2. CASE q = r
    <3>1. run[r].state \notin Ended
      BY <2>2, OpenStageOpenRun DEF DagInv
    <3> QED BY <1>1, <2>2, <3>1, RunResultType
  <2> QED BY <2>1, <2>2
<1> QED BY <1>3, <1>4, <1>5, <1>6, <1>7 DEF DagInv

\* A claim starts a stage that was pending: nothing that depends on it has
\* started, and no recovery has read it as ended.
LEMMA ClaimKeepsDag ==
    ASSUME TypeOK, TypeOK', DagInv, NEW w \in Workers, NEW r \in Runs, NEW x \in Roles,
           claim_next_stage(w, r, x)
    PROVE  DagInv'
<1>1. /\ StateOf(r, x) = "PENDING" /\ Ready(r, x)
      /\ \A q \in Runs \ {r} : stage'[q] = stage[q] /\ run'[q] = run[q]
      /\ \A y \in Roles \ {x} : stage'[r][y] = stage[r][y]
      /\ stage'[r][x].state = "RUNNING" /\ stage'[r][x].attempts = stage[r][x].attempts + 1
      /\ run'[r].state = "RUNNING" /\ run'[r].bundle = run[r].bundle
      /\ \A v \in Workers \ {w} : tx'[v] = tx[v]
      /\ tx'[w].step = "CLAIMED"
      /\ late' = late
  BY ClaimEffect
<1>2. "PENDING" \notin TERMINAL /\ "RUNNING" \notin TERMINAL /\ "RUNNING" \notin Ended
  BY DEF TERMINAL, Broken, DEPENDENCY_OK, Ended
<1>3. InOrder'
  <2> SUFFICES ASSUME NEW q \in Runs \ late, NEW y \in Roles, stage'[q][y].state # "PENDING",
                      NEW d \in STAGES[y], d \in Roles
               PROVE  stage'[q][d].state \in TERMINAL
    <3>1. \A y \in Roles : STAGES[y] \subseteq Roles
      BY RolesAreKnown DEF STAGES, Fixtures
    <3> QED BY <1>1, <3>1 DEF InOrder, StateOf
  <2>1. stage[q][d].state \in TERMINAL
    <3>1. CASE q = r /\ y = x
      BY <1>1, <3>1, ReadyIsInOrder DEF StateOf
    <3>2. CASE ~(q = r /\ y = x)
      <4>1. stage[q][y].state # "PENDING"
        BY <1>1, <3>2
      <4> QED BY <4>1 DEF DagInv, InOrder, StateOf
    <3> QED BY <3>1, <3>2
  <2>2. ~(q = r /\ d = x)
    BY <1>1, <1>2, <2>1 DEF StateOf
  <2> QED BY <1>1, <2>1, <2>2
<1>4. HeldRows'
  <2>1. \A q \in Runs, y \in Roles : stage'[q][y].state = "RUNNING" => stage'[q][y].attempts > 0
    <3>1. stage[r][x].attempts \in Nat
      BY DEF TypeOK, StageRun
    <3>2. stage'[r][x].attempts > 0
      BY <1>1, <3>1
    <3> QED BY <1>1, <3>2 DEF DagInv, HeldRows, StateOf
  <2>2. ASSUME NEW v \in Workers, tx'[v].step = "EXECUTING"
        PROVE  stage'[tx'[v].run][tx'[v].role].state = "RUNNING"
    <3>1. v # w /\ tx'[v] = tx[v]
      BY <1>1, <2>2
    <3>2. tx[v].run \in Runs /\ tx[v].role \in Roles
      BY <2>2, <3>1, TxByStep DEF Executing
    <3>3. stage[tx[v].run][tx[v].role].state = "RUNNING"
      BY <2>2, <3>1 DEF DagInv, HeldRows, StateOf
    <3> QED BY <1>1, <3>1, <3>2, <3>3
  <2>3. ASSUME NEW u \in Workers, NEW v \in Workers,
               tx'[u].step = "EXECUTING", tx'[v].step = "EXECUTING",
               tx'[u].run = tx'[v].run, tx'[u].role = tx'[v].role
        PROVE  u = v
    BY <1>1, <2>3 DEF DagInv, HeldRows
  <2> QED BY <2>1, <2>2, <2>3 DEF HeldRows, StateOf
<1>5. ReadIsCurrent'
  <2>1. ASSUME NEW v \in Workers, tx'[v].step = "RECOVERING"
        PROVE  /\ v # w /\ tx'[v] = tx[v] /\ tx[v].run \in Runs
               /\ \A y \in Roles : tx[v].run \notin late /\ tx[v].expired[y] = 0 /\ tx[v].seen[y] \in TERMINAL
                      => stage'[tx[v].run][y].state = tx[v].seen[y]
    <3>1. v # w /\ tx'[v] = tx[v]
      BY <1>1, <2>1
    <3>2. tx[v].run \in Runs
      BY <2>1, <3>1, TxByStep DEF Recovering
    <3>3. ASSUME NEW y \in Roles, tx[v].run \notin late, tx[v].expired[y] = 0, tx[v].seen[y] \in TERMINAL
          PROVE  stage'[tx[v].run][y].state = tx[v].seen[y]
      <4>1. stage[tx[v].run][y].state = tx[v].seen[y]
        BY <2>1, <3>1, <3>3 DEF DagInv, ReadIsCurrent, StateOf
      <4>2. ~(tx[v].run = r /\ y = x)
        BY <1>1, <1>2, <3>3, <4>1 DEF StateOf
      <4> QED BY <1>1, <3>2, <4>1, <4>2
    <3> QED BY <3>1, <3>2, <3>3
  <2> QED BY <1>1, <2>1 DEF DagInv, ReadIsCurrent, StateOf
<1>6. OnEvidence'
  <2> SUFFICES ASSUME NEW q \in Runs, NEW y \in Scouts, stage'[q][y].state = "SUCCEEDED"
               PROVE  run'[q].bundle # "ABSENT"
    BY DEF OnEvidence, StateOf
  <2>1. y \in Roles /\ ~(q = r /\ y = x)
    BY <1>1, RolesAreKnown
  <2> QED BY <1>1, <2>1 DEF DagInv, OnEvidence, StateOf
<1>7. RunAgreesWithStages'
  <2> SUFFICES ASSUME NEW q \in Runs \ late
               PROVE  /\ run'[q].state \in Ended <=> Settled(After(q))
                      /\ run'[q].state \in Ended => run'[q].state = RunResult(After(q), run'[q].bundle)
    BY <1>1 DEF RunAgreesWithStages, StatesOf, StateOf, After
  <2>1. CASE q # r
    <3>1. After(q) = StatesOf(q) /\ run'[q] = run[q]
      BY <1>1, <2>1 DEF After, StatesOf, StateOf
    <3> QED BY <3>1 DEF DagInv, RunAgreesWithStages
  <2>2. CASE q = r
    <3>1. ~Settled(After(r))
      BY <1>1, <1>2 DEF Settled, After
    <3> QED BY <1>1, <1>2, <2>2, <3>1
  <2> QED BY <2>1, <2>2
<1> QED BY <1>3, <1>4, <1>5, <1>6, <1>7 DEF DagInv

\* A recovery reads CORE as expired only when everything else has ended.
LEMMA ReadKeepsDag ==
    ASSUME TypeOK, TypeOK', DagInv, NEW w \in Workers, NEW r \in Runs, recover_reads(w, r)
    PROVE  DagInv'
<1>1. PICK Expired \in SUBSET {x \in Roles : StateOf(r, x) = "RUNNING"} : Reads(w, r, Expired)
  BY ReadEffect
<1>2. /\ Expired # {}
      /\ \A v \in Workers \ {w} : tx'[v] = tx[v]
      /\ tx'[w] \in Recovering /\ tx'[w].run = r
      /\ \A x \in Expired :
             /\ tx'[w].expired[x] = stage[r][x].attempts
             /\ tx'[w].seen[x] = Recovered(x, stage[r][x].attempts)
      /\ \A x \in Roles \ Expired : tx'[w].expired[x] = 0 /\ tx'[w].seen[x] = StateOf(r, x)
      /\ run' = run /\ stage' = stage /\ late' = late
  BY <1>1 DEF Reads
<1>3. \A x \in Expired : /\ x \in Roles /\ StateOf(r, x) = "RUNNING"
                         /\ stage[r][x].attempts \in Nat /\ stage[r][x].attempts > 0
  BY DEF TypeOK, StageRun, DagInv, HeldRows
<1>4. tx'[w].step = "RECOVERING"
  BY <1>2 DEF Recovering
<1>5. /\ \E x \in Roles : tx'[w].expired[x] > 0
      /\ \A x \in Roles : tx'[w].expired[x] > 0 => x \in Expired
      /\ \A x \in Roles : tx'[w].expired[x] = 0 => x \notin Expired
  BY <1>2, <1>3
<1>6. \A x \in Roles : tx'[w].expired[x] > 0 => tx'[w].seen[x] \in {"PENDING", "TIMED_OUT"}
  BY <1>2, <1>3, <1>5, RecoveredType
<1>7. ASSUME r \notin late, tx'[w].expired["CORE"] > 0, NEW x \in Roles \ {"CORE"}
      PROVE  tx'[w].seen[x] \in TERMINAL
  <2>1. "CORE" \in Expired
    BY <1>5, <1>7, RolesAreKnown
  <2>2. StateOf(r, x) \in TERMINAL
    BY <1>3, <1>7, <2>1, CoreIsLast DEF DagInv
  <2>3. x \notin Expired
    BY <1>3, <2>2 DEF TERMINAL, Broken, DEPENDENCY_OK
  <2> QED BY <1>2, <2>2, <2>3
<1>8. ReadIsCurrent'
  BY <1>2, <1>4, <1>5, <1>6, <1>7 DEF DagInv, ReadIsCurrent, StateOf
<1>9. HeldRows'
  BY <1>2, <1>4 DEF DagInv, HeldRows, StateOf
<1>10. InOrder' /\ OnEvidence' /\ RunAgreesWithStages'
  BY <1>2 DEF DagInv, InOrder, OnEvidence, RunAgreesWithStages, StateOf, StatesOf
<1> QED BY <1>8, <1>9, <1>10 DEF DagInv

\* What a recovery commits, when it does not come late: the stages it writes
\* were running, and it settles the run exactly if its commit settles the stages.
LEMMA RecoverDecides ==
    ASSUME TypeOK, DagInv, NEW w \in Workers, recover_expired_stages(w),
           NEW r \in Runs, r = tx[w].run, r \notin late'
    PROVE  /\ late' = late
           /\ \A x \in Roles : tx[w].expired[x] > 0 => StateOf(r, x) = "RUNNING"
           /\ Settled(tx[w].seen) <=> Settled(After(r))
           /\ Settled(tx[w].seen) => tx[w].seen = After(r) /\ tx[w].seen["CORE"] # "SUCCEEDED"
           /\ run[r].state \notin Ended
<1> DEFINE expired == {x \in Roles : tx[w].expired[x] > 0}
           seen == tx[w].seen
<1>1. /\ tx[w] \in Recovering
      /\ \A x \in Roles :
             /\ tx[w].expired[x] > 0 => stage'[r][x].state = seen[x]
             /\ ~(tx[w].expired[x] > 0) => stage'[r][x] = stage[r][x]
      /\ late' = IF \A x \in expired :
                       StateOf(r, x) = "RUNNING" /\ stage[r][x].attempts = tx[w].expired[x]
                 THEN late ELSE late \cup {r}
  BY RecoverEffect
<1>2. /\ tx[w].step = "RECOVERING" /\ seen \in [Roles -> StageStates]
      /\ tx[w].expired \in [Roles -> Nat]
  BY <1>1 DEF Recovering
<1>3. late' = late /\ \A x \in Roles : tx[w].expired[x] > 0 => StateOf(r, x) = "RUNNING"
  BY <1>1
<1>4. /\ \E x \in Roles : tx[w].expired[x] > 0
      /\ \A x \in Roles : tx[w].expired[x] > 0 => seen[x] \in {"PENDING", "TIMED_OUT"}
      /\ tx[w].expired["CORE"] > 0 => \A x \in Roles \ {"CORE"} : seen[x] \in TERMINAL
      /\ \A x \in Roles : tx[w].expired[x] = 0 /\ seen[x] \in TERMINAL => StateOf(r, x) = seen[x]
  BY <1>2, <1>3 DEF DagInv, ReadIsCurrent
<1>5. "PENDING" \notin TERMINAL /\ "RUNNING" \notin TERMINAL /\ "CORE" \in Roles
  BY RolesAreKnown DEF TERMINAL, Broken, DEPENDENCY_OK
<1>6. PICK x \in Roles : tx[w].expired[x] > 0
  BY <1>4
<1>7. \A y \in Roles : After(r)[y] = stage'[r][y].state
  BY DEF After
<1>8. run[r].state \notin Ended
  BY <1>3, <1>5, <1>6, OpenStageOpenRun DEF DagInv
<1>9. CASE x # "CORE"
  <2>1. StateOf(r, "CORE") = "PENDING"
    BY <1>3, <1>5, <1>6, <1>9, CoreIsLast DEF DagInv
  <2>2. ~(tx[w].expired["CORE"] > 0)
    BY <1>3, <1>5, <2>1
  <2>3. tx[w].expired["CORE"] = 0
    BY <1>2, <1>5, <2>2
  <2>4. seen["CORE"] \notin TERMINAL
    BY <1>4, <1>5, <2>1, <2>3
  <2>5. After(r)["CORE"] = "PENDING"
    BY <1>1, <1>5, <1>7, <2>1, <2>2 DEF StateOf
  <2> QED BY <1>3, <1>5, <1>8, <2>4, <2>5 DEF Settled
<1>10. CASE x = "CORE"
  <2>1. \A y \in Roles \ {"CORE"} : seen[y] \in TERMINAL /\ ~(tx[w].expired[y] > 0)
    <3>1. \A y \in Roles \ {"CORE"} : StateOf(r, y) \in TERMINAL
      BY <1>3, <1>6, <1>10, CoreIsLast DEF DagInv
    <3> QED BY <1>3, <1>4, <1>5, <1>6, <1>10, <3>1
  <2>2. \A y \in Roles \ {"CORE"} : tx[w].expired[y] = 0
    BY <1>2, <2>1
  <2>3. \A y \in Roles : After(r)[y] = seen[y]
    BY <1>1, <1>4, <1>6, <1>7, <1>10, <2>1, <2>2, SMTT(40) DEF StateOf
  <2>4. After(r) = seen
    BY <1>2, <2>3 DEF After
  <2>5. seen["CORE"] # "SUCCEEDED"
    BY <1>4, <1>5, <1>6, <1>10
  <2> QED BY <1>3, <1>8, <2>4, <2>5
<1> QED BY <1>9, <1>10

\* What a recovery writes keeps DagInv: if it comes late, for the other runs.
LEMMA RecoverKeepsDag ==
    ASSUME TypeOK, TypeOK', DagInv, NEW w \in Workers, recover_expired_stages(w)
    PROVE  DagInv'
<1>0. PICK r \in Runs : r = tx[w].run
  BY TxByStep DEF recover_expired_stages, Recovering
<1> DEFINE copy == [run[r] EXCEPT !.fusion = tx[w].fusion]
<1>1. /\ tx[w] \in Recovering
      /\ \A x \in Roles : tx[w].expired[x] > 0 => ~Locked(r, x)
      /\ \A q \in Runs \ {r} : stage'[q] = stage[q]
      /\ \A x \in Roles :
             /\ stage'[r][x].attempts = stage[r][x].attempts
             /\ tx[w].expired[x] > 0 => stage'[r][x].state = tx[w].seen[x]
             /\ ~(tx[w].expired[x] > 0) => stage'[r][x] = stage[r][x]
      /\ late' \subseteq late \cup {r} /\ late \subseteq late'
      /\ _finalize_run(w, r, tx[w].seen, copy)
      /\ tx[w].seen \in [Roles -> StageStates] /\ copy \in AgentRun
  BY <1>0, RecoverEffect
<1>2. copy.bundle = run[r].bundle
  BY DEF TypeOK, AgentRun
<1> HIDE DEF copy
<1>3. /\ \A q \in Runs \ {r} : run'[q] = run[q]
      /\ run'[r].bundle = run[r].bundle
      /\ run'[r].state = IF Settled(tx[w].seen) THEN RunResult(tx[w].seen, run[r].bundle) ELSE run[r].state
      /\ tx'[w].step \in {"IDLE", "FUSED"}
      /\ \A v \in Workers \ {w} : tx'[v] = tx[v]
  BY <1>1, <1>2, FinalizeEffect
<1>4. "PENDING" \notin TERMINAL /\ "RUNNING" \notin TERMINAL
  BY DEF TERMINAL, Broken, DEPENDENCY_OK
<1>5. \A x \in Roles : tx[w].expired[x] > 0 => tx[w].seen[x] \in {"PENDING", "TIMED_OUT"}
  BY <1>1 DEF DagInv, ReadIsCurrent, Recovering
<1>6. r \notin late' => \A x \in Roles : StateOf(r, x) # "RUNNING" => stage'[r][x] = stage[r][x]
  BY <1>0, <1>1, RecoverDecides
<1>7. InOrder'
  <2> SUFFICES ASSUME NEW q \in Runs, q \notin late', NEW y \in Roles, stage'[q][y].state # "PENDING",
                      NEW d \in STAGES[y], d \in Roles
               PROVE  stage'[q][d].state \in TERMINAL
    <3>1. \A y \in Roles : STAGES[y] \subseteq Roles
      BY RolesAreKnown DEF STAGES, Fixtures
    <3> QED BY <3>1 DEF InOrder, StateOf
  <2>1. q \notin late
    BY <1>1
  <2>2. CASE q # r
    BY <1>1, <2>1, <2>2 DEF DagInv, InOrder, StateOf
  <2>3. CASE q = r
    <3>1. stage[r][y].state # "PENDING"
      BY <1>6, <2>3 DEF StateOf
    <3>2. stage[r][d].state \in TERMINAL
      BY <2>1, <2>3, <3>1 DEF DagInv, InOrder, StateOf
    <3> QED BY <1>4, <1>6, <2>3, <3>2 DEF StateOf
  <2> QED BY <2>2, <2>3
<1>8. HeldRows'
  <2>1. \A q \in Runs, y \in Roles : stage'[q][y].state = "RUNNING" => stage'[q][y].attempts > 0
    BY <1>1, <1>5 DEF DagInv, HeldRows, StateOf
  <2>2. ASSUME NEW v \in Workers, tx'[v].step = "EXECUTING"
        PROVE  stage'[tx'[v].run][tx'[v].role].state = "RUNNING"
    <3>1. v # w /\ tx'[v] = tx[v]
      BY <1>3, <2>2
    <3>2. tx[v].run \in Runs /\ tx[v].role \in Roles
      BY <2>2, <3>1, TxByStep DEF Executing
    <3>3. stage[tx[v].run][tx[v].role].state = "RUNNING"
      BY <2>2, <3>1 DEF DagInv, HeldRows, StateOf
    <3>4. tx[v].run = r => Locked(r, tx[v].role)
      BY <2>2, <3>1 DEF Locked
    <3> QED BY <1>1, <3>1, <3>2, <3>3, <3>4
  <2>3. ASSUME NEW u \in Workers, NEW v \in Workers,
               tx'[u].step = "EXECUTING", tx'[v].step = "EXECUTING",
               tx'[u].run = tx'[v].run, tx'[u].role = tx'[v].role
        PROVE  u = v
    BY <1>3, <2>3 DEF DagInv, HeldRows
  <2> QED BY <2>1, <2>2, <2>3 DEF HeldRows, StateOf
<1>9. ReadIsCurrent'
  <2>1. ASSUME NEW v \in Workers, tx'[v].step = "RECOVERING"
        PROVE  /\ v # w /\ tx'[v] = tx[v] /\ tx[v].run \in Runs
               /\ \A y \in Roles : tx[v].run \notin late' /\ tx[v].expired[y] = 0 /\ tx[v].seen[y] \in TERMINAL
                      => stage'[tx[v].run][y].state = tx[v].seen[y]
    <3>1. v # w /\ tx'[v] = tx[v]
      BY <1>3, <2>1
    <3>2. tx[v].run \in Runs
      BY <2>1, <3>1, TxByStep DEF Recovering
    <3>3. ASSUME NEW y \in Roles, tx[v].run \notin late', tx[v].expired[y] = 0, tx[v].seen[y] \in TERMINAL
          PROVE  stage'[tx[v].run][y].state = tx[v].seen[y]
      <4>1. stage[tx[v].run][y].state = tx[v].seen[y]
        BY <1>1, <2>1, <3>1, <3>3 DEF DagInv, ReadIsCurrent, StateOf
      <4> QED BY <1>1, <1>4, <1>6, <3>2, <3>3, <4>1 DEF StateOf
    <3> QED BY <3>1, <3>2, <3>3
  <2> QED BY <1>1, <2>1 DEF DagInv, ReadIsCurrent, StateOf
<1>10. OnEvidence'
  <2> SUFFICES ASSUME NEW q \in Runs, NEW y \in Scouts, stage'[q][y].state = "SUCCEEDED"
               PROVE  run'[q].bundle # "ABSENT"
    BY DEF OnEvidence, StateOf
  <2>1. y \in Roles
    BY RolesAreKnown
  <2>2. stage[q][y].state = "SUCCEEDED"
    BY <1>1, <1>5, <2>1
  <2> QED BY <1>3, <2>2 DEF DagInv, OnEvidence, StateOf
<1>11. RunAgreesWithStages'
  <2> SUFFICES ASSUME NEW q \in Runs, q \notin late'
               PROVE  /\ run'[q].state \in Ended <=> Settled(After(q))
                      /\ run'[q].state \in Ended => run'[q].state = RunResult(After(q), run'[q].bundle)
    BY DEF RunAgreesWithStages, StatesOf, StateOf, After
  <2>1. CASE q # r
    <3>1. After(q) = StatesOf(q) /\ run'[q] = run[q]
      BY <1>1, <1>3, <2>1 DEF After, StatesOf, StateOf
    <3> QED BY <1>1, <3>1 DEF DagInv, RunAgreesWithStages
  <2>2. CASE q = r
    <3>1. /\ Settled(tx[w].seen) <=> Settled(After(r))
          /\ Settled(tx[w].seen) => tx[w].seen = After(r)
          /\ run[r].state \notin Ended
      BY <1>0, <2>2, RecoverDecides
    <3> QED BY <1>3, <2>2, <3>1, RunResultType
  <2> QED BY <2>1, <2>2
<1> QED BY <1>7, <1>8, <1>9, <1>10, <1>11 DEF DagInv

\* DagInv is inductive.
LEMMA DagStep == TypeOK /\ TypeOK' /\ DagInv /\ [Next]_vars => DagInv'
<1> SUFFICES ASSUME TypeOK, TypeOK', DagInv, [Next]_vars PROVE DagInv'
  OBVIOUS
<1>1. ASSUME NEW r \in Runs, NEW purpose \in {"DIAGNOSTIC", "TRADING_ADVISORY"}, _create_run(r, purpose)
      PROVE  DagInv'
  <2>1. /\ stage' = stage /\ tx' = tx /\ late' = late
        /\ \A q \in Runs : run'[q].bundle = run[q].bundle
        /\ \A q \in Runs \ {r} : run'[q] = run[q]
        /\ run[r].state = "ABSENT" /\ run'[r].state = "CREATED"
    BY <1>1 DEF _create_run, TypeOK, AgentRun
  <2>2. InOrder' /\ HeldRows' /\ ReadIsCurrent' /\ OnEvidence'
    BY <2>1 DEF DagInv, InOrder, HeldRows, ReadIsCurrent, OnEvidence, StateOf
  <2>3. RunAgreesWithStages'
    BY <2>1 DEF DagInv, RunAgreesWithStages, StatesOf, StateOf, Ended
  <2> QED BY <2>2, <2>3 DEF DagInv
<1>2. ASSUME NEW w \in Workers, NEW r \in Runs, NEW x \in Roles, claim_next_stage(w, r, x)
      PROVE  DagInv'
  BY <1>2, ClaimKeepsDag
<1>3. ASSUME NEW w \in Workers, NEW r \in Runs, NEW x \in Roles, claim_ends(w, r, x)
      PROVE  DagInv'
  <2>1. PICK end \in Broken : EndsStage(w, r, x, end, run[r].bundle)
    BY <1>3, ClaimEndsStep
  <2>2. /\ StateOf(r, x) = "PENDING"
        /\ \A d \in STAGES[x] : StateOf(r, d) \in TERMINAL
    BY <1>3, ClaimEndsStep, ReadyIsInOrder
  <2>3. \A v \in Workers : ~(tx[v].step = "EXECUTING" /\ tx[v].run = r /\ tx[v].role = x)
    BY <2>2 DEF DagInv, HeldRows
  <2>4. StateOf(r, x) \notin TERMINAL /\ end \in TERMINAL /\ end # "SUCCEEDED"
    BY <2>2 DEF TERMINAL, Broken, DEPENDENCY_OK
  <2> QED BY <2>1, <2>2, <2>3, <2>4, EndKeepsDag
<1>4. ASSUME NEW w \in Workers, execute_claimed_stage(w)
      PROVE  DagInv'
  <2>1. /\ tx[w] \in Claimed /\ ~Locked(tx[w].run, tx[w].role)
        /\ \A v \in Workers \ {w} : tx'[v] = tx[v]
        /\ \/ tx'[w] = Idle
           \/ /\ Holds(w)
              /\ tx'[w] \in Executing /\ tx'[w].run = tx[w].run /\ tx'[w].role = tx[w].role
        /\ run' = run /\ stage' = stage /\ late' = late
    BY <1>4, StartEffect
  <2>2. tx'[w].step \in {"IDLE", "EXECUTING"}
    BY <2>1 DEF Idle, Executing
  <2>3. tx'[w].step = "EXECUTING" =>
            /\ stage[tx'[w].run][tx'[w].role].state = "RUNNING"
            /\ \A v \in Workers \ {w} :
                   ~(tx[v].step = "EXECUTING" /\ tx[v].run = tx'[w].run /\ tx[v].role = tx'[w].role)
    BY <2>1 DEF Idle, Holds, Locked
  <2>4. HeldRows'
    <3>1. ASSUME NEW v \in Workers, tx'[v].step = "EXECUTING"
          PROVE  stage'[tx'[v].run][tx'[v].role].state = "RUNNING"
      BY <2>1, <2>3, <3>1 DEF DagInv, HeldRows, StateOf
    <3>2. ASSUME NEW u \in Workers, NEW v \in Workers,
                 tx'[u].step = "EXECUTING", tx'[v].step = "EXECUTING",
                 tx'[u].run = tx'[v].run, tx'[u].role = tx'[v].role
          PROVE  u = v
      BY <2>1, <2>3, <3>2 DEF DagInv, HeldRows
    <3> QED BY <2>1, <3>1, <3>2 DEF DagInv, HeldRows, StateOf
  <2>5. ReadIsCurrent'
    BY <2>1, <2>2 DEF DagInv, ReadIsCurrent, StateOf
  <2>6. InOrder' /\ OnEvidence' /\ RunAgreesWithStages'
    BY <2>1 DEF DagInv, InOrder, OnEvidence, RunAgreesWithStages, StateOf, StatesOf
  <2> QED BY <2>4, <2>5, <2>6 DEF DagInv
<1>5. ASSUME NEW w \in Workers, _invoke_once(w)
      PROVE  DagInv'
  <2>1. /\ tx[w] \in Executing /\ tx'[w] \in Executing
        /\ tx'[w].run = tx[w].run /\ tx'[w].role = tx[w].role
        /\ \A v \in Workers \ {w} : tx'[v] = tx[v]
        /\ run' = run /\ stage' = stage /\ late' = late
    BY <1>5, InvokeEffect
  <2>2. tx[w].step = "EXECUTING" /\ tx'[w].step = "EXECUTING"
    BY <2>1 DEF Executing
  <2>3. HeldRows'
    BY <2>1, <2>2 DEF DagInv, HeldRows, StateOf
  <2>4. ReadIsCurrent'
    BY <2>1, <2>2 DEF DagInv, ReadIsCurrent, StateOf
  <2>5. InOrder' /\ OnEvidence' /\ RunAgreesWithStages'
    BY <2>1 DEF DagInv, InOrder, OnEvidence, RunAgreesWithStages, StateOf, StatesOf
  <2> QED BY <2>3, <2>4, <2>5 DEF DagInv
<1>6. ASSUME NEW w \in Workers, _execute_stage(w)
      PROVE  DagInv'
  <2>1. PICK r \in Runs, x \in Roles, end \in TERMINAL, bundle \in {"ABSENT", "PARTIAL", "VERIFIED"} :
            /\ tx[w] \in Executing /\ r = tx[w].run /\ x = tx[w].role
            /\ end \in Outcomes(r, x, tx[w].invoked) /\ bundle \in Bundles(r, x, end)
            /\ EndsStage(w, r, x, end, bundle)
    BY <1>6, ExecuteStep
  <2>2. tx[w].step = "EXECUTING" /\ tx[w].invoked \in 0..2
    BY <2>1 DEF Executing
  <2>3. StateOf(r, x) = "RUNNING"
    BY <2>1, <2>2 DEF DagInv, HeldRows
  <2>4. StateOf(r, x) \notin TERMINAL
    BY <2>3 DEF TERMINAL, Broken, DEPENDENCY_OK
  <2>5. r \notin late => \A d \in STAGES[x] : StateOf(r, d) \in TERMINAL
    BY <2>3 DEF DagInv, InOrder
  <2>6. \A v \in Workers \ {w} : ~(tx[v].step = "EXECUTING" /\ tx[v].run = r /\ tx[v].role = x)
    BY <2>1, <2>2 DEF DagInv, HeldRows
  <2>7. run[r].bundle # "ABSENT" => bundle # "ABSENT"
    BY <2>1, BundlesType
  <2>8. x \in Scouts /\ end = "SUCCEEDED" => run[r].bundle # "ABSENT"
    BY <2>1, <2>2, OutcomesType
  <2> QED BY <2>1, <2>4, <2>5, <2>6, <2>7, <2>8, EndKeepsDag
<1>7. ASSUME NEW w \in Workers, finalize_position_advisory(w) \/ Crash(w)
      PROVE  DagInv'
  <2>1. /\ stage' = stage /\ late' = late /\ tx' = [tx EXCEPT ![w] = Idle]
        /\ \A r \in Runs : run'[r].state = run[r].state /\ run'[r].bundle = run[r].bundle
    <3>1. CASE Crash(w)
      BY <3>1 DEF Crash
    <3>2. CASE finalize_position_advisory(w)
      <4>1. tx[w].run \in Runs
        BY <3>2, TxByStep DEF finalize_position_advisory, Fused
      <4>2. run' = [run EXCEPT ![tx[w].run].fusion = "ESCALATED"]
        BY <3>2 DEF finalize_position_advisory
      <4>3. \A r \in Runs : run'[r].state = run[r].state /\ run'[r].bundle = run[r].bundle
        BY <4>1, <4>2 DEF TypeOK, AgentRun
      <4> QED BY <3>2, <4>3 DEF finalize_position_advisory
    <3> QED BY <1>7, <3>1, <3>2
  <2>2. tx'[w].step = "IDLE" /\ \A v \in Workers \ {w} : tx'[v] = tx[v]
    BY <2>1 DEF TypeOK, Idle
  <2>3. HeldRows'
    BY <2>1, <2>2 DEF DagInv, HeldRows, StateOf
  <2>4. ReadIsCurrent'
    BY <2>1, <2>2 DEF DagInv, ReadIsCurrent, StateOf
  <2>5. InOrder' /\ OnEvidence' /\ RunAgreesWithStages'
    BY <2>1 DEF DagInv, InOrder, OnEvidence, RunAgreesWithStages, StateOf, StatesOf
  <2> QED BY <2>3, <2>4, <2>5 DEF DagInv
<1>8. ASSUME NEW w \in Workers, NEW r \in Runs, recover_reads(w, r)
      PROVE  DagInv'
  BY <1>8, ReadKeepsDag
<1>9. ASSUME NEW w \in Workers, recover_expired_stages(w)
      PROVE  DagInv'
  BY <1>9, RecoverKeepsDag
<1>10. CASE UNCHANGED vars
  BY <1>10 DEF vars, DagInv, InOrder, HeldRows, ReadIsCurrent, OnEvidence, RunAgreesWithStages,
               StateOf, StatesOf
<1> QED
  BY <1>1, <1>2, <1>3, <1>4, <1>5, <1>6, <1>7, <1>8, <1>9, <1>10 DEF Next, WorkerStep

\* A decision is routed only by the execution of CORE, and of a CORE that called
\* its model.
LEMMA RoutedStep ==
    ASSUME TypeOK, SendInv, DagInv, Next, NEW r \in Runs, r \in routed' \ (routed \cup late')
    PROVE  calls[r]["CORE"] > 0 /\ \A y \in Routed : stage'[r][y].state = "SUCCEEDED"
<1>1. /\ "CORE" \in Routed /\ "CORE" \in Roles /\ Scouts \subseteq Routed /\ Routed \subseteq Roles
      /\ "CORE" \notin Scouts
  BY RolesAreKnown
<1>2. "PENDING" \notin TERMINAL /\ "RUNNING" \notin TERMINAL /\ "SUCCEEDED" \notin Broken
  BY DEF TERMINAL, Broken, DEPENDENCY_OK
<1>3. ASSUME NEW w \in Workers, NEW q \in Runs, NEW x \in Roles, NEW end, NEW bundle,
             EndsStage(w, q, x, end, bundle), StateOf(q, x) \notin TERMINAL
      PROVE  /\ q = r /\ r \notin late
             /\ x = "CORE" /\ end = "SUCCEEDED"
             /\ \A y \in Routed : stage'[r][y].state = "SUCCEEDED"
             /\ \A y \in Scouts : StateOf(r, y) = "SUCCEEDED"
  <2>1. q = r /\ r \notin late /\ \A y \in Routed : After(r)[y] = "SUCCEEDED"
    BY <1>3 DEF EndsStage
  <2>2. \A y \in Routed : stage'[r][y].state = "SUCCEEDED"
    BY <1>1, <2>1 DEF After
  <2>3. \A y \in Roles \ {x} : stage'[r][y] = stage[r][y]
    BY <1>3, <2>1 DEF EndsStage
  <2>4. x = "CORE"
    <3>1. SUFFICES ASSUME x # "CORE" PROVE FALSE
      OBVIOUS
    <3>2. StateOf(r, "CORE") = "SUCCEEDED"
      BY <1>1, <2>2, <2>3, <3>1 DEF StateOf
    <3>3. StateOf(r, x) \in TERMINAL
      BY <2>1, <3>1, <3>2, CoreIsLast DEF DagInv
    <3> QED BY <1>3, <2>1, <3>3
  <2>5. end = "SUCCEEDED"
    BY <1>1, <1>3, <2>1, <2>2, <2>4 DEF EndsStage
  <2>6. \A y \in Scouts : StateOf(r, y) = "SUCCEEDED"
    BY <1>1, <2>2, <2>3, <2>4 DEF StateOf
  <2> QED BY <2>1, <2>2, <2>4, <2>5, <2>6
<1>4. CASE \E w \in Workers, q \in Runs, x \in Roles : claim_ends(w, q, x)
  <2>1. PICK w \in Workers, q \in Runs, x \in Roles : claim_ends(w, q, x)
    BY <1>4
  <2>2. PICK end \in Broken : EndsStage(w, q, x, end, run[q].bundle)
    BY <2>1, ClaimEndsStep
  <2>3. StateOf(q, x) \notin TERMINAL
    BY <1>2, <2>1, ClaimEndsStep
  <2> QED BY <1>2, <1>3, <2>2, <2>3
<1>5. CASE \E w \in Workers : _execute_stage(w)
  <2>1. PICK w \in Workers : _execute_stage(w)
    BY <1>5
  <2>2. PICK q \in Runs, x \in Roles, end \in TERMINAL, bundle \in {"ABSENT", "PARTIAL", "VERIFIED"} :
            /\ tx[w] \in Executing /\ q = tx[w].run /\ x = tx[w].role
            /\ end \in Outcomes(q, x, tx[w].invoked) /\ bundle \in Bundles(q, x, end)
            /\ EndsStage(w, q, x, end, bundle)
    BY <2>1, ExecuteStep
  <2>3. tx[w].step = "EXECUTING" /\ tx[w].invoked \in 0..2
    BY <2>2 DEF Executing
  <2>4. StateOf(q, x) \notin TERMINAL
    BY <1>2, <2>2, <2>3 DEF DagInv, HeldRows
  <2>5. /\ q = r /\ r \notin late /\ x = "CORE" /\ end = "SUCCEEDED"
        /\ \A y \in Routed : stage'[r][y].state = "SUCCEEDED"
        /\ \A y \in Scouts : StateOf(r, y) = "SUCCEEDED"
    BY <1>3, <2>2, <2>4
  <2>6. run[r].bundle # "ABSENT" /\ ScoutsComplete(r)
    <3>1. PICK s \in Scouts : TRUE
      BY RolesAreKnown
    <3> QED BY <2>5, <3>1 DEF DagInv, OnEvidence, ScoutsComplete
  <2>7. tx[w].invoked > 0
    BY <2>2, <2>3, <2>5, <2>6, OutcomesType
  <2>8. Works(w, r, "CORE")
    BY <2>2, <2>3, <2>5 DEF Works
  <2>9. calls[r]["CORE"] = tx[w].invoked
    BY <1>1, <2>3, <2>8 DEF SendInv, HeldOnce, Invoked
  <2> QED BY <2>5, <2>7, <2>9
<1>6. CASE \E w \in Workers : recover_expired_stages(w)
  <2>1. PICK w \in Workers : recover_expired_stages(w)
    BY <1>6
  <2>2. PICK q \in Runs : q = tx[w].run
    BY <2>1, TxByStep DEF recover_expired_stages, Recovering
  <2> DEFINE copy == [run[q] EXCEPT !.fusion = tx[w].fusion]
  <2>3. /\ _finalize_run(w, q, tx[w].seen, copy)
        /\ tx[w].seen \in [Roles -> StageStates] /\ copy \in AgentRun
    BY <2>1, <2>2, RecoverEffect
  <2> HIDE DEF copy
  <2>4. /\ routed' \subseteq routed \cup {q}
        /\ q \in routed' \ routed => Settled(tx[w].seen) /\ \A y \in Routed : tx[w].seen[y] = "SUCCEEDED"
    BY <2>3, FinalizeEffect
  <2>5. q = r /\ Settled(tx[w].seen) /\ tx[w].seen["CORE"] = "SUCCEEDED"
    BY <1>1, <2>4
  <2> QED BY <2>1, <2>2, <2>5, RecoverDecides
<1>7. CASE UNCHANGED routed
  BY <1>7
<1>8. \/ \E w \in Workers, q \in Runs, x \in Roles : claim_ends(w, q, x)
      \/ \E w \in Workers : _execute_stage(w)
      \/ \E w \in Workers : recover_expired_stages(w)
      \/ UNCHANGED routed
  BY ZenonT(60) DEF Next, WorkerStep, _create_run, claim_next_stage, execute_claimed_stage, _invoke_once,
         finalize_position_advisory, recover_reads, Crash
<1> QED BY <1>4, <1>5, <1>6, <1>7, <1>8

\* The three inductive invariants hold together.
LEMMA AgentInvariants == Spec => [](TypeOK /\ SendInv /\ DagInv)
<1>1. Init => TypeOK
  BY DEF Init, TypeOK, AgentRun, StageRun, StageStates, Fusions
<1>2. ASSUME Init PROVE SendInv
  BY <1>2, RolesAreKnown DEF Init, SendInv, NoResend, ClaimedOnce, HeldOnce, Works, Idle, StateOf
<1>3. ASSUME Init PROVE DagInv
  <2>1. /\ \A r \in Runs, x \in Roles : StateOf(r, x) = "PENDING"
        /\ \A w \in Workers : tx[w].step = "IDLE"
        /\ \A r \in Runs : run[r].state = "ABSENT"
    BY <1>3 DEF Init, StateOf, Idle
  <2>2. \A r \in Runs : ~Settled(StatesOf(r))
    BY <2>1, RolesAreKnown DEF Settled, StatesOf, TERMINAL, Broken, DEPENDENCY_OK
  <2>3. RunAgreesWithStages
    BY <2>1, <2>2 DEF RunAgreesWithStages, Ended
  <2>4. InOrder /\ HeldRows /\ ReadIsCurrent /\ OnEvidence
    BY <2>1, RolesAreKnown DEF InOrder, HeldRows, ReadIsCurrent, OnEvidence
  <2> QED BY <2>3, <2>4 DEF DagInv
<1>4. TypeOK /\ SendInv /\ DagInv /\ [Next]_vars => (TypeOK /\ SendInv /\ DagInv)'
  BY TypeStep, SendStep, DagStep
<1> QED BY <1>1, <1>2, <1>3, <1>4, PTL DEF Spec

\* A stage calls each of its models at most once, whatever crashes, leases that
\* expire and recoveries, late ones too, come in between.
THEOREM NothingSentTwice == Spec => []NoResend
<1>1. SendInv => NoResend
  BY DEF SendInv
<1> QED BY <1>1, AgentInvariants, PTL

\* Until a recovery comes late, a run has ended exactly when all its stages
\* have, and as what they amount to: also when the commit that ends the last
\* stage is a recovery that decided with older reads.
THEOREM RunsAgree == Spec => []RunAgreesWithStages
<1>1. DagInv => RunAgreesWithStages
  BY DEF DagInv
<1> QED BY <1>1, AgentInvariants, PTL

\* A fused decision is routed only when every scout and CORE have succeeded and
\* CORE has called its model, unless a recovery came late.
THEOREM FusionIsComplete == Spec => FusedFromComplete
<1>1. TypeOK /\ SendInv /\ DagInv /\ [Next]_vars =>
          [\A r \in routed' \ (routed \cup late') :
               calls[r]["CORE"] > 0 /\ \A x \in Routed : stage'[r][x].state = "SUCCEEDED"]_vars
  <2> SUFFICES ASSUME TypeOK, SendInv, DagInv, Next, NEW r \in routed' \ (routed \cup late')
               PROVE  calls[r]["CORE"] > 0 /\ \A x \in Routed : stage'[r][x].state = "SUCCEEDED"
    OBVIOUS
  <2>1. TypeOK'
    BY TypeStep
  <2>2. r \in Runs
    BY <2>1 DEF TypeOK
  <2> QED BY <2>2, RoutedStep
<1> QED BY <1>1, AgentInvariants, PTL DEF Spec, FusedFromComplete

=============================================================================
