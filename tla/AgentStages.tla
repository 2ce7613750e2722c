---------------------------- MODULE AgentStages ----------------------------
(***************************************************************************)
(* The multi-agent DAG: admission of a run, the agent workers that claim,  *)
(* execute and recover its stages, and the fusion of a finished advisory   *)
(* run into a decision (agents/runtime.py, agents/worker.py,               *)
(* position_agent_fusion.py).                                              *)
(*                                                                         *)
(* A claim is one transaction.  A recovery reads rows in one step and      *)
(* writes them in a later one, without a lock.  An execution holds the     *)
(* lock of its stage from its first read to its commit, over the calls of  *)
(* the model.  What a stage computes is reduced to the state it ends in.   *)
(***************************************************************************)
EXTENDS Naturals, FiniteSets

CONSTANTS
    Workers,    \* agent worker processes
    NoWorker,
    Runs,       \* runs, by idempotency key
    Scouts,     \* the scout roles
    Failover    \* roles whose route has a fallback model (FAILOVER)

Routed == Scouts \cup {"CORE"}
Fixtures == {"INTEL_COLLECTOR", "EVIDENCE_VERIFIER", "EVIDENCE_CANDIDATE_AUDITOR"}
Roles == Routed \cup Fixtures

ASSUME StagesAssumption ==
    /\ NoWorker \notin Workers
    /\ Scouts # {} /\ Scouts \cap (Fixtures \cup {"CORE"}) = {}
    /\ Failover \subseteq Routed

\* Dependencies and attempts of the stages.
STAGES ==
    [x \in Roles |->
        CASE x = "INTEL_COLLECTOR" -> {}
          [] x = "EVIDENCE_VERIFIER" -> {"INTEL_COLLECTOR"}
          [] x = "EVIDENCE_CANDIDATE_AUDITOR" -> Scouts
          [] x = "CORE" -> Scouts \cup {"EVIDENCE_CANDIDATE_AUDITOR"}
          [] OTHER -> {"EVIDENCE_VERIFIER"}]
max_attempts == [x \in Roles |-> IF x \in Routed THEN 1 ELSE 2]

\* INSUFFICIENT_DATA also stands for CONFLICTED.
DEPENDENCY_OK == {"SUCCEEDED", "NOT_APPLICABLE", "INSUFFICIENT_DATA"}
Broken == {"TIMED_OUT", "FAILED"}
TERMINAL == DEPENDENCY_OK \cup Broken
Ended == {"SUCCEEDED", "PARTIAL", "FAILED"}

VARIABLES
    run,     \* the run, its evidence bundle and the state of its fusion
    stage,   \* the stage rows of each run
    tx,      \* the open transaction of each worker, or its claim
    calls,   \* history: calls of a model for each stage
    late,    \* history: runs a recovery wrote to whose stage had moved on since it was read
    routed   \* the runs whose fused decision has been routed

vars == <<run, stage, tx, calls, late, routed>>

\* fencing_token and attempt_count are counted together, by the claim only.
StageStates == {"PENDING", "RUNNING"} \cup TERMINAL
StageRun == [state : StageStates, owner : Workers \cup {NoWorker},
             attempts : Nat]
Fusions == {"NONE", "PENDING", "NO_ESCALATION", "ESCALATED", "EXPIRED", "FAILED_SAFE"}
AgentRun == [state : {"ABSENT", "CREATED", "RUNNING"} \cup Ended,
             bundle : {"ABSENT", "PARTIAL", "VERIFIED"},
             fusion : Fusions]

Idle == [step |-> "IDLE"]
Claimed == [step : {"CLAIMED"}, run : Runs, role : Roles, token : Nat]
Executing == [step : {"EXECUTING"}, run : Runs, role : Roles, invoked : 0..2]
\* The attempts of the expired stages (0 for the others), and what the session
\* has of the stages and the fusion.
Recovering == [step : {"RECOVERING"}, run : Runs, expired : [Roles -> Nat],
               seen : [Roles -> StageStates], fusion : Fusions]
Fused == [step : {"FUSED"}, run : Runs]

TypeOK ==
    /\ run \in [Runs -> AgentRun]
    /\ stage \in [Runs -> [Roles -> StageRun]]
    /\ tx \in [Workers -> {Idle} \cup Claimed \cup Executing \cup Recovering \cup Fused]
    /\ calls \in [Runs -> [Roles -> Nat]]
    /\ late \subseteq Runs /\ routed \subseteq Runs

Locked(r, x) == \E w \in Workers : tx[w].step = "EXECUTING" /\ tx[w].run = r /\ tx[w].role = x

-----------------------------------------------------------------------------
(***************************************************************************)
(* The end of a run.                                                       *)
(***************************************************************************)

StateOf(r, x) == stage[r][x].state
StatesOf(r) == [x \in Roles |-> StateOf(r, x)]

Settled(seen) == \A x \in Roles : seen[x] \in TERMINAL

RunResult(seen, bundle) ==
    IF seen["CORE"] # "SUCCEEDED" \/ \E x \in Roles : seen[x] \in Broken THEN "FAILED"
    ELSE IF bundle # "VERIFIED" \/ \E x \in Roles : seen[x] = "INSUFFICIENT_DATA" THEN "PARTIAL"
    ELSE "SUCCEEDED"

\* Mutant: the fusion looks at CORE only.
FusionResults_core_only(seen, fusion) ==
    IF fusion # "PENDING" THEN {fusion}
    ELSE {"EXPIRED", "FAILED_SAFE"} \cup
         IF seen["CORE"] = "SUCCEEDED" THEN {"NO_ESCALATION", "ESCALATED"} ELSE {}

\* Whether the basis is still valid, the position unchanged, the confidence high
\* enough and the action stronger is left open.
FusionResults(seen, fusion) ==
    IF fusion # "PENDING" THEN {fusion}
    ELSE {"EXPIRED", "FAILED_SAFE"} \cup
         IF \A x \in Routed : seen[x] = "SUCCEEDED" THEN {"NO_ESCALATION", "ESCALATED"} ELSE {}

\* seen and copy: states of stages, and the run, as the session has them.  Routing the
\* fused decision commits, so its result reaches the run in a second commit.
_finalize_run(w, r, seen, copy) ==
    IF ~Settled(seen)
    THEN tx' = [tx EXCEPT ![w] = Idle] /\ UNCHANGED routed /\ run' = [run EXCEPT ![r].bundle = copy.bundle]
    ELSE \E fusion \in FusionResults(seen, copy.fusion) :
            LET routes == fusion = "ESCALATED" /\ copy.fusion = "PENDING" /\ r \notin routed IN
                /\ run' = [run EXCEPT ![r].state = RunResult(seen, copy.bundle),
                                      ![r].bundle = copy.bundle,
                                      ![r].fusion = IF routes \/ fusion = copy.fusion THEN @ ELSE fusion]
                /\ routed' = IF routes THEN routed \cup {r} ELSE routed
                /\ tx' = [tx EXCEPT ![w] = IF routes THEN [step |-> "FUSED", run |-> r] ELSE Idle]

finalize_position_advisory(w) ==
    /\ tx[w].step = "FUSED"
    /\ run' = [run EXCEPT ![tx[w].run].fusion = "ESCALATED"]
    /\ tx' = [tx EXCEPT ![w] = Idle]
    /\ UNCHANGED <<stage, calls, late, routed>>

-----------------------------------------------------------------------------
(***************************************************************************)
(* Admission and claims.                                                   *)
(***************************************************************************)

\* Run and stages are inserted together; a second request with the key finds them.
_create_run(r, purpose) ==
    /\ run[r].state = "ABSENT"
    /\ run' = [run EXCEPT ![r].state = "CREATED",
                          ![r].fusion = IF purpose = "TRADING_ADVISORY" THEN "PENDING" ELSE "NONE"]
    /\ UNCHANGED <<stage, tx, calls, late, routed>>

dependency_failed(r, x) == \E d \in STAGES[x] : StateOf(r, d) \in Broken
may_reduce_v4_result(x) == x \in {"EVIDENCE_CANDIDATE_AUDITOR", "CORE"}

\* Mutant: a stage that may work with less is started at the first failure.
Ready_early(r, x) ==
    IF dependency_failed(r, x)
    THEN may_reduce_v4_result(x)
    ELSE \A d \in STAGES[x] : StateOf(r, d) \in DEPENDENCY_OK

Ready(r, x) ==
    IF dependency_failed(r, x)
    THEN may_reduce_v4_result(x) /\ \A d \in STAGES[x] : StateOf(r, d) \in TERMINAL
    ELSE \A d \in STAGES[x] : StateOf(r, d) \in DEPENDENCY_OK

Claimable(w, r, x) ==
    /\ tx[w] = Idle
    /\ run[r].state \in {"CREATED", "RUNNING"}
    /\ StateOf(r, x) = "PENDING"

\* A stage whose dependency failed, or whose run is no longer valid, ends here;
\* when the validity of a run ends is left open.
claim_ends(w, r, x) ==
    /\ Claimable(w, r, x)
    /\ \E state \in Broken :
           /\ \/ state = "FAILED" /\ dependency_failed(r, x) /\ ~may_reduce_v4_result(x)
              \/ state = "TIMED_OUT" /\ Ready(r, x)
           /\ stage' = [stage EXCEPT ![r][x].state = state]
           /\ _finalize_run(w, r, [StatesOf(r) EXCEPT ![x] = state], run[r])
    /\ UNCHANGED <<calls, late>>

\* Rows come in the order of their creation, but rows that another claim has
\* locked are skipped: any stage that is ready may be the one.
claim_next_stage(w, r, x) ==
    /\ Claimable(w, r, x)
    /\ Ready(r, x)
    /\ stage' = [stage EXCEPT ![r][x] =
           [state |-> "RUNNING", owner |-> w, attempts |-> @.attempts + 1]]
    /\ run' = [run EXCEPT ![r].state = "RUNNING"]
    /\ tx' = [tx EXCEPT ![w] =
           [step |-> "CLAIMED", run |-> r, role |-> x, token |-> stage[r][x].attempts + 1]]
    /\ UNCHANGED <<calls, late, routed>>

-----------------------------------------------------------------------------
(***************************************************************************)
(* Execution.                                                              *)
(***************************************************************************)

Holds(w) ==
    LET row == stage[tx[w].run][tx[w].role] IN
        row.state = "RUNNING" /\ row.owner = w /\ row.attempts = tx[w].token

execute_claimed_stage(w) ==
    /\ tx[w].step = "CLAIMED"
    /\ ~Locked(tx[w].run, tx[w].role)
    /\ tx' = [tx EXCEPT ![w] =
           IF Holds(w)
           THEN [step |-> "EXECUTING", run |-> tx[w].run, role |-> tx[w].role, invoked |-> 0]
           ELSE Idle]
    /\ UNCHANGED <<run, stage, calls, late, routed>>

\* The primary model, and after it the fallback model if the route has one.
_invoke_model(w) == tx[w].invoked < IF tx[w].role \in Failover THEN 2 ELSE 1

\* What CORE works with: the audit has an output, and every scout has an
\* assessment that counts.  NOT_APPLICABLE counts, as only ENTRY runs have it.
AuditDone(r) == StateOf(r, "EVIDENCE_CANDIDATE_AUDITOR") = "SUCCEEDED"
ScoutsComplete(r) == \A x \in Scouts : StateOf(r, x) \in {"SUCCEEDED", "NOT_APPLICABLE"}

_invoke_once(w) ==
    /\ tx[w].step = "EXECUTING"
    /\ LET r == tx[w].run
           x == tx[w].role
       IN  /\ x \in Routed /\ run[r].bundle # "ABSENT"
           /\ x = "CORE" => AuditDone(r) /\ ScoutsComplete(r)
           /\ calls' = [calls EXCEPT ![r][x] = @ + 1]
    /\ _invoke_model(w)
    /\ tx' = [tx EXCEPT ![w].invoked = @ + 1]
    /\ UNCHANGED <<run, stage, late, routed>>

\* Each source that is configured may fail.
IntelCollector == {"SUCCEEDED", "FAILED"}

\* A second bundle of a run is refused by its unique key, and the exception
\* leaves the row as it is.
EvidenceVerifier(r) == IF run[r].bundle = "ABSENT" THEN {"SUCCEEDED", "FAILED"} ELSE {}

\* What the server itself assesses.  The position is not applicable to a run
\* without one, and an advisory run has one.
_assessment_v2(r, x) ==
    {"SUCCEEDED", "INSUFFICIENT_DATA"} \cup
    (IF x = "POSITION_RISK_SCOUT" /\ run[r].fusion = "NONE" THEN {"NOT_APPLICABLE"} ELSE {})

\* Input that is missing, stale or conflicted, and a position that is not
\* applicable, end the stage without a call; success needs one.
ServerAssessed(r, x) == _assessment_v2(r, x) \ {"SUCCEEDED"}

\* What a validated output of the model says; an output that is refused is none.
ModelAssessed == {"SUCCEEDED", "INSUFFICIENT_DATA"}

\* The route may have changed, or its daily limit be reached, before any call.
Scout(r, x, invoked) ==
    {"FAILED"} \cup
    IF run[r].bundle = "ABSENT" THEN {}
    ELSE IF invoked = 0 THEN ServerAssessed(r, x) ELSE ModelAssessed

EvidenceCandidateAuditor(r) == IF run[r].bundle = "ABSENT" THEN {"FAILED"} ELSE {"SUCCEEDED"}

\* Without a bundle, or with a scout that is incomplete, CORE succeeds with
\* UNKNOWN and calls no model; without the audit it fails.
Core(r, invoked) ==
    IF run[r].bundle = "ABSENT" THEN {"SUCCEEDED"}
    ELSE {"FAILED"} \cup
         IF AuditDone(r) /\ (ScoutsComplete(r) => invoked > 0) THEN {"SUCCEEDED"} ELSE {}

\* Before the first call the timeout of the stage may have passed.
Outcomes(r, x, invoked) ==
    (IF invoked = 0 THEN {"TIMED_OUT"} ELSE {}) \cup
    CASE x = "INTEL_COLLECTOR" -> IntelCollector
      [] x = "EVIDENCE_VERIFIER" -> EvidenceVerifier(r)
      [] x = "EVIDENCE_CANDIDATE_AUDITOR" -> EvidenceCandidateAuditor(r)
      [] x = "CORE" -> Core(r, invoked)
      [] OTHER -> Scout(r, x, invoked)

Bundles(r, x, outcome) ==
    IF x = "EVIDENCE_VERIFIER" /\ outcome = "SUCCEEDED" THEN {"PARTIAL", "VERIFIED"} ELSE {run[r].bundle}

_execute_stage(w) ==
    /\ tx[w].step = "EXECUTING"
    /\ LET r == tx[w].run
           x == tx[w].role
       IN  \E outcome \in Outcomes(r, x, tx[w].invoked) : \E bundle \in Bundles(r, x, outcome) :
               /\ stage' = [stage EXCEPT ![r][x].state = outcome, ![r][x].owner = NoWorker]
               /\ _finalize_run(w, r, [StatesOf(r) EXCEPT ![x] = outcome], [run[r] EXCEPT !.bundle = bundle])
    /\ UNCHANGED <<calls, late>>

\* A crash, or an exception that leaves the session unusable.
Crash(w) ==
    /\ tx[w] # Idle
    /\ tx' = [tx EXCEPT ![w] = Idle]
    /\ UNCHANGED <<run, stage, calls, late, routed>>

-----------------------------------------------------------------------------
(***************************************************************************)
(* Recovery.  Stages of several runs are recovered in one transaction;     *)
(* they share no row, so each run is recovered by itself here.             *)
(***************************************************************************)

\* Mutant: one attempt more than the route allows.
Recovered_one_more(x, attempts) == IF attempts <= max_attempts[x] THEN "PENDING" ELSE "TIMED_OUT"

\* Mutant: a stage without attempts left stays as it is.
Recovered_not_ended(x, attempts) == IF attempts < max_attempts[x] THEN "PENDING" ELSE "RUNNING"

\* No invocation is ever committed while its stage is running, so attempts decide.
Recovered(x, attempts) == IF attempts < max_attempts[x] THEN "PENDING" ELSE "TIMED_OUT"

\* Nothing renews the lease of a stage: any stage that is running may be expired.
recover_reads(w, r) ==
    /\ tx[w] = Idle
    /\ \E Expired \in (SUBSET {x \in Roles : StateOf(r, x) = "RUNNING"}) \ {{}} :
           tx' = [tx EXCEPT ![w] =
               [step |-> "RECOVERING", run |-> r, fusion |-> run[r].fusion,
                expired |-> [x \in Roles |-> IF x \in Expired THEN stage[r][x].attempts ELSE 0],
                seen |-> [x \in Roles |->
                    IF x \in Expired THEN Recovered(x, stage[r][x].attempts) ELSE StateOf(r, x)]]]
    /\ UNCHANGED <<run, stage, calls, late, routed>>

\* The UPDATE waits for an execution that holds the row, and then overwrites
\* what it wrote: the row has no version column.
recover_expired_stages(w) ==
    /\ tx[w].step = "RECOVERING"
    /\ LET r == tx[w].run
           expired == {x \in Roles : tx[w].expired[x] > 0}
       IN  /\ \A x \in expired : ~Locked(r, x)
           /\ stage' = [stage EXCEPT ![r] = [x \in Roles |->
                  IF x \in expired
                  THEN [@[x] EXCEPT !.state = tx[w].seen[x], !.owner = NoWorker]
                  ELSE @[x]]]
           /\ late' = IF \A x \in expired :
                            StateOf(r, x) = "RUNNING" /\ stage[r][x].attempts = tx[w].expired[x]
                      THEN late ELSE late \cup {r}
           /\ _finalize_run(w, r, tx[w].seen, [run[r] EXCEPT !.fusion = tx[w].fusion])
    /\ UNCHANGED calls

-----------------------------------------------------------------------------
Init ==
    /\ run = [r \in Runs |-> [state |-> "ABSENT", bundle |-> "ABSENT", fusion |-> "NONE"]]
    /\ stage = [r \in Runs |-> [x \in Roles |->
           [state |-> "PENDING", owner |-> NoWorker, attempts |-> 0]]]
    /\ tx = [w \in Workers |-> Idle]
    /\ calls = [r \in Runs |-> [x \in Roles |-> 0]]
    /\ late = {} /\ routed = {}

WorkerStep(w) ==
    \/ \E r \in Runs, x \in Roles : claim_next_stage(w, r, x) \/ claim_ends(w, r, x)
    \/ execute_claimed_stage(w)
    \/ _invoke_once(w)
    \/ _execute_stage(w)
    \/ finalize_position_advisory(w)
    \/ \E r \in Runs : recover_reads(w, r)
    \/ recover_expired_stages(w)

Next ==
    \/ \E r \in Runs, purpose \in {"DIAGNOSTIC", "TRADING_ADVISORY"} : _create_run(r, purpose)
    \/ \E w \in Workers : WorkerStep(w) \/ Crash(w)

\* A worker that runs keeps taking steps, leases expire, and not every recovery
\* crashes before it commits.
Fairness ==
    /\ \A w \in Workers : WF_vars(WorkerStep(w)) /\ SF_vars(recover_expired_stages(w))

Spec == Init /\ [][Next]_vars
FairSpec == Spec /\ Fairness

-----------------------------------------------------------------------------
\* A stage calls its model at most once, and its fallback model at most once:
\* whatever crashes, leases that expire and recoveries come in between, nothing
\* is sent again (MAO-103, MAO-110).
NoResend ==
    \A r \in Runs, x \in Roles : calls[r][x] <= IF x \in Failover THEN 2 ELSE IF x \in Routed THEN 1 ELSE 0

\* A fused decision is routed only from a run all of whose scouts and whose
\* CORE have succeeded at the moment it is committed, CORE on the answer of a
\* model, unless a recovery came late (MAO-112).
FusedFromComplete ==
    [][\A r \in routed' \ (routed \cup late') :
           calls[r]["CORE"] > 0 /\ \A x \in Routed : stage'[r][x].state = "SUCCEEDED"]_vars

\* A run has ended if and only if all its stages have, and it is reported as
\* what they amount to, unless a recovery came late.
RunAgreesWithStages ==
    \A r \in Runs \ late :
        /\ run[r].state \in Ended <=> Settled(StatesOf(r))
        /\ run[r].state \in Ended => run[r].state = RunResult(StatesOf(r), run[r].bundle)

\* Every run that is admitted ends, whatever fails in it, unless a recovery
\* came late.
RunEnds == \A r \in Runs : run[r].state = "CREATED" ~> run[r].state \in Ended \/ r \in late

=============================================================================
