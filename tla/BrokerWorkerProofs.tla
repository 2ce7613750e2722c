------------------------ MODULE BrokerWorkerProofs ------------------------
(***************************************************************************)
(* Proofs about the fenced rows and the broker worker for any number of    *)
(* processes: fencing tokens identify lease periods, the worker implements *)
(* LeaseSpec, its state is well typed, and a worker that may send has      *)
(* earned it.                                                              *)
(***************************************************************************)
EXTENDS BrokerWorker, TLAPS

\* Every step on the rows keeps their types.
LEMMA LeaseTypeStep ==
    ASSUME LeaseTypeOK, [LeaseNext]_leaseVars
    PROVE  LeaseTypeOK'
<1>1. ASSUME NEW w \in Workers, acquire_lease(w)
      PROVE  LeaseTypeOK'
  BY <1>1 DEF acquire_lease, LeaseTypeOK
<1>2. ASSUME NEW w \in Workers, FencedWrite(w)
      PROVE  LeaseTypeOK'
  BY <1>2 DEF FencedWrite, WriteWorkerState, LeaseTypeOK
<1>3. ASSUME NEW w \in Workers, release_lease(w)
      PROVE  LeaseTypeOK'
  <2>1. CASE ~OwnsLeaseRow(w)
    BY <1>3, <2>1 DEF release_lease, LeaseTypeOK, leaseVars
  <2>2. CASE OwnsLeaseRow(w)
    <3>1. workerState' \in {workerState,
                            [workerState EXCEPT !.state = "STOPPED", !.connected = FALSE]}
      BY <1>3, <2>2 DEF release_lease
    <3>2. workerState' \in [state : WorkerStateNames, token : Nat, connected : BOOLEAN]
      BY <3>1 DEF LeaseTypeOK, WorkerStateNames
    <3>3. QED
      BY <1>3, <2>2, <3>2 DEF release_lease, LeaseTypeOK
  <2>3. QED
    BY <2>1, <2>2
<1>4. CASE ExpireLease
  BY <1>4 DEF ExpireLease, LeaseTypeOK
<1>5. CASE CloseGate
  BY <1>5 DEF CloseGate, LeaseTypeOK
<1>6. CASE UNCHANGED leaseVars
  BY <1>6 DEF leaseVars, LeaseTypeOK
<1>7. QED
  BY <1>1, <1>2, <1>3, <1>4, <1>5, <1>6 DEF LeaseNext

\* The lease, worker-state and gate rows and the identities the processes hold
\* stay well typed under everything worker_state.py does to them.
THEOREM LeaseTypeCorrect == LeaseSpec => []LeaseTypeOK
<1>1. LeaseInit => LeaseTypeOK
  BY DEF LeaseInit, LeaseTypeOK, WorkerStateNames, GateStatuses
<1>2. LeaseTypeOK /\ [LeaseNext]_leaseVars => LeaseTypeOK'
  BY LeaseTypeStep
<1>3. QED
  BY <1>1, <1>2, PTL DEF LeaseSpec

\* Every step on the rows keeps the tokens fencing.  A takeover issues a token
\* above all others, which is what keeps the identities apart.
LEMMA TokensFenceStep ==
    ASSUME LeaseTypeOK, TokensFence, [LeaseNext]_leaseVars
    PROVE  TokensFence'
<1> USE NoWorkerAssumption DEF LeaseTypeOK, TokensFence
<1>1. ASSUME NEW w \in Workers, acquire_lease(w)
      PROVE  TokensFence'
  BY <1>1 DEF acquire_lease
<1>2. ASSUME NEW w \in Workers, FencedWrite(w)
      PROVE  TokensFence'
  BY <1>2 DEF FencedWrite, WriteWorkerState
<1>3. ASSUME NEW w \in Workers, release_lease(w)
      PROVE  TokensFence'
  BY <1>3 DEF release_lease, leaseVars
<1>4. CASE ExpireLease
  BY <1>4 DEF ExpireLease
<1>5. CASE CloseGate
  BY <1>5 DEF CloseGate
<1>6. CASE UNCHANGED leaseVars
  BY <1>6 DEF leaseVars
<1>7. QED
  BY <1>1, <1>2, <1>3, <1>4, <1>5, <1>6 DEF LeaseNext

\* Fencing tokens identify lease periods, for every number of processes and
\* every history of takeovers, expiries and releases.
THEOREM TokensAlwaysFence == LeaseSpec => []TokensFence
<1>1. LeaseInit => TokensFence
  BY NoWorkerAssumption DEF LeaseInit, TokensFence
<1>2. LeaseTypeOK /\ TokensFence /\ [LeaseNext]_leaseVars => TokensFence'
  BY TokensFenceStep
<1>3. QED
  BY <1>1, <1>2, LeaseTypeCorrect, PTL DEF LeaseSpec

-----------------------------------------------------------------------------

\* A refused or accepted write of require_state, and a write whose result is
\* ignored, are steps of LeaseSpec.
LEMMA RequireStateRefines ==
    ASSUME NEW w \in Workers, NEW stateName \in WorkerStateNames, NEW connected \in BOOLEAN,
           NEW newGate \in GateStatuses, NEW newLocals,
           require_state(w, stateName, connected, newGate, newLocals)
    PROVE  [LeaseNext]_leaseVars
BY DEF require_state, LeaseNext, FencedWrite

LEMMA UpdateStateRefines ==
    ASSUME NEW w \in Workers, NEW stateName \in WorkerStateNames, NEW connected \in BOOLEAN,
           NEW newGate \in GateStatuses, update_worker_state(w, stateName, connected, newGate)
    PROVE  [LeaseNext]_leaseVars
BY DEF update_worker_state, LeaseNext, FencedWrite

\* Every step of the processes is a step of LeaseSpec or leaves its rows alone.
LEMMA StepRefines ==
    ASSUME LeaseTypeOK, [Next]_vars
    PROVE  [LeaseNext]_leaseVars
<1> USE DEF WorkerStateNames, GateStatuses
<1>1. ASSUME NEW w \in Workers, WorkerStep(w)
      PROVE  [LeaseNext]_leaseVars
  <2>1. CASE Acquire(w)
    BY <2>1 DEF Acquire, LeaseNext
  <2>2. CASE Starting(w)
    BY <2>2, UpdateStateRefines DEF Starting
  <2>3. CASE Heartbeat(w)
    BY <2>3 DEF Heartbeat, renew_lease
  <2>4. CASE Authenticate(w)
    BY <2>4, RequireStateRefines DEF Authenticate
  <2>5. CASE Connect(w)
    BY <2>5, RequireStateRefines DEF Connect
  <2>6. CASE Subscribe(w)
    BY <2>6, RequireStateRefines DEF Subscribe
  <2>7. CASE NetworkFailure(w)
    BY <2>7 DEF NetworkFailure
  <2>8. CASE Reconnect(w)
    BY <2>8, UpdateStateRefines DEF Reconnect
  <2>9. CASE StartupReconcile(w)
    BY <2>9, RequireStateRefines DEF StartupReconcile, reconcile
  <2>10. CASE ReconcileStart(w)
    BY <2>10 DEF ReconcileStart, LeaseNext, CloseGate
  <2>11. CASE ApplyResult(w)
    BY <2>11, RequireStateRefines DEF ApplyResult, LeaseTypeOK
  <2>12. ASSUME NEW result \in Verdicts, ReconcileFinish(w, result)
         PROVE  [LeaseNext]_leaseVars
    BY <2>12 DEF ReconcileFinish, GateAfter, Verdicts, LeaseNext, CloseGate
  <2>13. CASE AccountEvent(w)
    BY <2>13, RequireStateRefines DEF AccountEvent
  <2>14. CASE EventReconcile(w)
    BY <2>14, RequireStateRefines DEF EventReconcile, reconcile
  <2>15. CASE PeriodicReconcile(w)
    BY <2>15, RequireStateRefines DEF PeriodicReconcile, reconcile
  <2>16. CASE RotateToken(w)
    BY <2>16, UpdateStateRefines DEF RotateToken
  <2>17. CASE Dispatch(w)
    BY <2>17 DEF Dispatch
  <2>18. CASE CannotDispatch(w)
    BY <2>18 DEF CannotDispatch
  <2>19. CASE DispatchFinish(w)
    BY <2>19 DEF DispatchFinish, LeaseNext, CloseGate, leaseVars
  <2>20. CASE UnknownReconcile(w)
    BY <2>20, RequireStateRefines DEF UnknownReconcile, reconcile
  <2>21. CASE LeaseLostExit(w)
    BY <2>21 DEF LeaseLostExit
  <2>22. CASE WriteStopped(w)
    BY <2>22, UpdateStateRefines DEF WriteStopped
  <2>23. CASE Release(w)
    BY <2>23 DEF Release, LeaseNext
  <2>24. QED
    BY <1>1, <2>1, <2>2, <2>3, <2>4, <2>5, <2>6, <2>7, <2>8, <2>9, <2>10, <2>11, <2>12,
       <2>13, <2>14, <2>15, <2>16, <2>17, <2>18, <2>19, <2>20, <2>21, <2>22, <2>23
       DEF WorkerStep
<1>2. ASSUME NEW w \in Workers, Stop(w) \/ Abort(w) \/ Crash(w)
      PROVE  [LeaseNext]_leaseVars
  BY <1>2 DEF Stop, Abort, Crash
<1>3. ASSUME NEW c \in Clis, CliStart(c)
      PROVE  [LeaseNext]_leaseVars
  BY <1>3 DEF CliStart, LeaseNext, CloseGate
<1>4. ASSUME NEW c \in Clis, NEW result \in Verdicts, CliFinish(c, result)
      PROVE  [LeaseNext]_leaseVars
  BY <1>4 DEF CliFinish, GateAfter, Verdicts, LeaseNext, CloseGate
<1>5. CASE Expire
  BY <1>5 DEF Expire, LeaseNext
<1>6. CASE UNCHANGED vars
  BY <1>6 DEF vars
<1>7. QED
  BY <1>1, <1>2, <1>3, <1>4, <1>5, <1>6 DEF Next

\* The worker processes and the CLI treat the lease, state and gate rows as
\* LeaseSpec allows: no step writes the worker row or opens the gate without a
\* current lease.
THEOREM WorkerImplementsLease == Spec => LeaseSpec
<1>1. Init => LeaseInit
  BY DEF Init
<1>2. LeaseInit => LeaseTypeOK
  BY DEF LeaseInit, LeaseTypeOK, WorkerStateNames, GateStatuses
<1>3. LeaseTypeOK /\ [Next]_vars => [LeaseNext]_leaseVars
  BY StepRefines
<1>4. LeaseTypeOK /\ [LeaseNext]_leaseVars => LeaseTypeOK'
  BY LeaseTypeStep
<1>5. QED
  BY <1>1, <1>2, <1>3, <1>4, PTL DEF Spec, LeaseSpec

\* Fencing tokens identify the lease periods of the worker processes.
THEOREM WorkerTokensFence == Spec => []TokensFence
BY WorkerImplementsLease, TokensAlwaysFence, PTL

-----------------------------------------------------------------------------
\* The locals that the steps build are records of the right type.
LEMMA BareType ==
    ASSUME NEW place \in Places
    PROVE  Bare(place) \in Process
BY BackoffAssumption DEF Bare, Process, Triggers

LEMMA UnwoundType ==
    ASSUME NEW w \in Workers, NEW place \in Places, proc[w] \in Process
    PROVE  Unwound(w, place) \in Process
BY BackoffAssumption DEF Unwound, Bare, Process, Triggers

LEMMA CountType ==
    ASSUME NEW w \in Workers, proc[w] \in Process
    PROVE  CountFailure(w) \in 0..BackoffSteps
BY BackoffAssumption DEF CountFailure, Process

LEMMA ResumeType ==
    ASSUME NEW w \in Workers, proc[w] \in Process
    PROVE  ResumeReceive(w) \in Process
<1> DEFINE startup == proc[w].trigger = "STARTUP"
           dispatch == startup \/ proc[w].clean
           eventDue == IF startup \/ proc[w].trigger = "BROKER_EVENT" THEN FALSE
                       ELSE proc[w].eventDue
           failures == IF startup THEN 0 ELSE proc[w].failures
<1>1. dispatch \in BOOLEAN /\ eventDue \in BOOLEAN
  BY DEF Process
<1>2. failures \in 0..BackoffSteps
  BY BackoffAssumption DEF Process
<1>3. ResumeReceive(w) = [proc[w] EXCEPT !.at = "receive", !.trigger = "STARTUP",
                            !.failures = failures, !.dispatch = dispatch, !.eventDue = eventDue]
  BY DEF ResumeReceive, Process
<1> HIDE DEF dispatch, eventDue, failures
<1>4. QED
  BY <1>1, <1>2, <1>3 DEF Process, Places, Triggers

\* require_state leaves the process with its new locals or at its exit.
LEMMA RequireStateType ==
    ASSUME NEW w \in Workers, proc \in [Workers -> Process], NEW stateName, NEW connected,
           NEW newGate, NEW newLocals \in Process,
           require_state(w, stateName, connected, newGate, newLocals)
    PROVE  proc' \in [Workers -> Process]
BY BareType DEF require_state, End, Places

\* Every step keeps the type of the processes.
LEMMA ProcTypeStep ==
    ASSUME TypeOK, [Next]_vars
    PROVE  proc' \in [Workers -> Process]
<1> USE DEF TypeOK
<1>1. ASSUME NEW w \in Workers, NEW place \in Places
      PROVE  /\ [proc[w] EXCEPT !.at = place] \in Process
             /\ Goto(w, place) => proc' \in [Workers -> Process]
             /\ End(w, place) => proc' \in [Workers -> Process]
  BY <1>1, BareType DEF Goto, End, Process
<1>2. ASSUME NEW w \in Workers, WorkerStep(w)
      PROVE  proc' \in [Workers -> Process]
  <2> DEFINE r == proc[w]
  <2>0. r \in Process
    OBVIOUS
  <2>1. CASE Acquire(w) \/ Starting(w) \/ Dispatch(w) \/ WriteStopped(w) \/ Release(w)
    BY <2>1, <1>1 DEF Acquire, Starting, Dispatch, WriteStopped, Release, Places
  <2>2. CASE Heartbeat(w)
    <3>1. [r EXCEPT !.lost = TRUE] \in Process
      BY <2>0 DEF Process
    <3>2. proc' = proc \/ proc' = [proc EXCEPT ![w] = [r EXCEPT !.lost = TRUE]]
      BY <2>2 DEF Heartbeat
    <3>3. QED
      BY <3>1, <3>2
  <2>3. CASE Authenticate(w)
    BY <2>3, <1>1, RequireStateType DEF Authenticate, Places
  <2>4. CASE Connect(w)
    BY <2>4, <1>1, RequireStateType DEF Connect, Places
  <2>5. CASE Subscribe(w)
    BY <2>5, <1>1, RequireStateType DEF Subscribe, Places
  <2>6. CASE NetworkFailure(w) \/ RotateToken(w) \/ CannotDispatch(w)
    BY <2>6, UnwoundType DEF NetworkFailure, RotateToken, CannotDispatch, Places
  <2>7. CASE Reconnect(w)
    <3>1. [r EXCEPT !.at = "connect", !.failures = CountFailure(w)] \in Process
      BY <2>0, CountType DEF Process, Places
    <3>2. \/ End(w, "exit")
          \/ proc' = [proc EXCEPT ![w] = [r EXCEPT !.at = "connect", !.failures = CountFailure(w)]]
      BY <2>7 DEF Reconnect
    <3>3. QED
      BY <1>1, <3>1, <3>2 DEF Places
  <2>8. ASSUME NEW why \in Triggers, reconcile(w, why)
        PROVE  proc' \in [Workers -> Process]
    <3>1. [r EXCEPT !.at = "recStart", !.trigger = why] \in Process
      BY <2>0 DEF Process, Places
    <3>2. QED
      BY <2>8, <3>1, RequireStateType DEF reconcile
  <2>9. CASE StartupReconcile(w) \/ EventReconcile(w) \/ PeriodicReconcile(w) \/ UnknownReconcile(w)
    BY <2>9, <2>8
       DEF StartupReconcile, EventReconcile, PeriodicReconcile, UnknownReconcile, Triggers
  <2>10. CASE ReconcileStart(w)
    <3>1. [r EXCEPT !.at = "recRead", !.dirty = FALSE] \in Process
      BY <2>0 DEF Process, Places
    <3>2. proc' = [proc EXCEPT ![w] = [r EXCEPT !.at = "recRead", !.dirty = FALSE]]
      BY <2>10 DEF ReconcileStart
    <3>3. QED
      BY <3>1, <3>2
  <2>11. CASE ApplyResult(w)
    BY <2>11, ResumeType, RequireStateType DEF ApplyResult
  <2>12. ASSUME NEW result \in Verdicts, ReconcileFinish(w, result)
         PROVE  proc' \in [Workers -> Process]
    <3> DEFINE clean == result = "clean"
               done == [r EXCEPT !.at = "recDone", !.clean = clean]
    <3>1. clean \in BOOLEAN
      OBVIOUS
    <3>2. proc' = [proc EXCEPT ![w] = IF result = "failed" THEN Unwound(w, "recFailed") ELSE done]
      BY <2>12 DEF ReconcileFinish
    <3> HIDE DEF clean
    <3>3. done \in Process
      BY <2>0, <3>1 DEF Process, Places
    <3> HIDE DEF done
    <3>4. Unwound(w, "recFailed") \in Process
      BY UnwoundType DEF Places
    <3>5. QED
      BY <3>2, <3>3, <3>4
  <2>13. CASE AccountEvent(w)
    <3>1. [r EXCEPT !.dispatch = FALSE, !.eventDue = TRUE, !.dirty = TRUE] \in Process
      BY <2>0 DEF Process
    <3>2. [r EXCEPT !.dirty = TRUE] \in Process
      BY <2>0 DEF Process
    <3>3. QED
      BY <2>13, <3>1, <3>2, RequireStateType DEF AccountEvent
  <2>14. CASE DispatchFinish(w)
    BY <2>14, <1>1, UnwoundType DEF DispatchFinish, Places
  <2>15. CASE LeaseLostExit(w)
    BY <2>15, <1>1 DEF LeaseLostExit, Places
  <2>16. QED
    BY <1>2, <2>1, <2>2, <2>3, <2>4, <2>5, <2>6, <2>7, <2>9, <2>10, <2>11, <2>12,
       <2>13, <2>14, <2>15 DEF WorkerStep
<1>3. ASSUME NEW w \in Workers, Stop(w) \/ Abort(w) \/ Crash(w)
      PROVE  proc' \in [Workers -> Process]
  BY <1>3, <1>1 DEF Stop, Abort, Crash, Places
<1>4. CASE Expire
  BY <1>4 DEF Expire
<1>5. ASSUME NEW c \in Clis, CliStart(c) \/ \E result \in Verdicts : CliFinish(c, result)
      PROVE  proc' \in [Workers -> Process]
  BY <1>5 DEF CliStart, CliFinish
<1>6. CASE UNCHANGED vars
  BY <1>6 DEF vars
<1>7. QED
  BY <1>2, <1>3, <1>4, <1>5, <1>6 DEF Next

\* The set of running CLI processes stays a set of CLI processes.
LEMMA CliTypeStep ==
    ASSUME TypeOK, [Next]_vars
    PROVE  cli' \in SUBSET Clis
<1>1. ASSUME NEW w \in Workers, WorkerStep(w) \/ Stop(w) \/ Abort(w) \/ Crash(w)
      PROVE  cli' = cli
  BY <1>1 DEF WorkerStep, Stop, Abort, Crash, Acquire, Starting, Heartbeat, Authenticate, Connect,
     Subscribe, NetworkFailure, Reconnect, StartupReconcile, ReconcileStart, ApplyResult,
     ReconcileFinish, AccountEvent, EventReconcile, PeriodicReconcile, RotateToken, Dispatch,
     CannotDispatch, DispatchFinish, UnknownReconcile, LeaseLostExit, WriteStopped, Release
<1>2. CASE Expire \/ UNCHANGED vars
  BY <1>2 DEF Expire, vars, TypeOK
<1>3. ASSUME NEW c \in Clis, CliStart(c) \/ \E result \in Verdicts : CliFinish(c, result)
      PROVE  cli' \in SUBSET Clis
  BY <1>3 DEF CliStart, CliFinish, TypeOK
<1>4. QED
  BY <1>1, <1>2, <1>3 DEF Next, TypeOK

\* The rows, the processes and the CLI keep their types: in particular the
\* failure count never leaves the reconnect backoff table.
THEOREM WorkerTypeCorrect == Spec => []TypeOK
<1>1. Init => TypeOK
  <2>1. ASSUME Init PROVE TypeOK
    BY <2>1, BareType
       DEF Init, LeaseInit, TypeOK, LeaseTypeOK, WorkerStateNames, GateStatuses, Places
  <2>2. QED
    BY <2>1
<1>2. TypeOK /\ [Next]_vars => TypeOK'
  <2>1. ASSUME TypeOK, [Next]_vars PROVE TypeOK'
    BY <2>1, ProcTypeStep, CliTypeStep, StepRefines, LeaseTypeStep DEF TypeOK
  <2>2. QED
    BY <2>1
<1>3. QED
  BY <1>1, <1>2, PTL DEF Spec

-----------------------------------------------------------------------------
(***************************************************************************)
(* Readiness is earned.  ReadyIsEarned is not inductive: a step of another *)
(* process may make the rows look ready for a worker that is not.  The     *)
(* strengthening says what the locals mean during a reconciliation, and    *)
(* that a READY row with the token of w was written by w on a clean        *)
(* verdict that it still holds.                                            *)
(***************************************************************************)
LocalsAreHonest(r) ==
    /\ r.at \in {"recRead", "recDone"} => ~r.dirty
    /\ r.dirty => r.eventDue

ReadyRowIsClean(w) ==
    /\ workerState.state = "READY"
    /\ workerState.token = identity[w]
    /\ identity[w] # 0
    /\ proc[w].at \in {"receive", "sending", "unknown"}
    => proc[w].clean

EarnedInv == \A w \in Workers : LocalsAreHonest(proc[w]) /\ ReadyRowIsClean(w)

\* The locals stay honest: no account event is received between the start of a
\* reconciliation and the use of its verdict, and an event is only forgotten
\* by a reconciliation that starts after it.
LEMMA HonestStep ==
    ASSUME TypeOK, EarnedInv, [Next]_vars, NEW v \in Workers
    PROVE  LocalsAreHonest(proc'[v])
<1> USE DEF TypeOK, EarnedInv
<1>0. proc[v] \in Process /\ LocalsAreHonest(proc[v])
  OBVIOUS
<1>1. CASE proc' = proc
  BY <1>0, <1>1
<1>2. ASSUME NEW w \in Workers, NEW place \in Places \ {"recRead", "recDone"},
             Goto(w, place) \/ End(w, place) \/ proc' = [proc EXCEPT ![w] = Unwound(w, place)]
      PROVE  LocalsAreHonest(proc'[v])
  <2>1. LocalsAreHonest([proc[w] EXCEPT !.at = place])
    BY <1>2 DEF LocalsAreHonest, Process
  <2>2. LocalsAreHonest(Bare(place)) /\ LocalsAreHonest(Unwound(w, place))
    BY DEF Unwound, Bare, LocalsAreHonest
  <2>3. PICK r : LocalsAreHonest(r) /\ proc' = [proc EXCEPT ![w] = r]
    BY <1>2, <2>1, <2>2 DEF Goto, End
  <2>4. QED
    BY <1>0, <2>3
<1>3. ASSUME NEW w \in Workers, NEW s, NEW c, NEW g, NEW r, require_state(w, s, c, g, r),
             LocalsAreHonest(r)
      PROVE  LocalsAreHonest(proc'[v])
  BY <1>0, <1>3, <1>2 DEF require_state, Places
<1>4. ASSUME NEW w \in Workers, WorkerStep(w)
      PROVE  LocalsAreHonest(proc'[v])
  <2> DEFINE r == proc[w]
  <2>0. r \in Process /\ LocalsAreHonest(r)
    OBVIOUS
  <2>1. CASE Acquire(w) \/ Starting(w) \/ Dispatch(w) \/ WriteStopped(w) \/ Release(w)
             \/ LeaseLostExit(w) \/ NetworkFailure(w) \/ RotateToken(w) \/ CannotDispatch(w)
             \/ DispatchFinish(w)
    BY <2>1, <1>2 DEF Acquire, Starting, Dispatch, WriteStopped, Release, LeaseLostExit,
       NetworkFailure, RotateToken, CannotDispatch, DispatchFinish, Places
  <2>2. CASE Heartbeat(w)
    BY <2>2, <1>0 DEF Heartbeat, LocalsAreHonest, Process
  <2>3. ASSUME NEW place \in Places \ {"recRead", "recDone"}, NEW why \in Triggers
        PROVE  /\ LocalsAreHonest([r EXCEPT !.at = place])
               /\ LocalsAreHonest([r EXCEPT !.at = place, !.trigger = why])
    BY <2>0 DEF LocalsAreHonest, Process
  <2>4. CASE Authenticate(w) \/ Connect(w) \/ Subscribe(w)
    BY <2>4, <2>3, <1>3 DEF Authenticate, Connect, Subscribe, Places, Triggers
  <2>5. CASE StartupReconcile(w) \/ EventReconcile(w) \/ PeriodicReconcile(w) \/ UnknownReconcile(w)
    BY <2>5, <2>3, <1>3 DEF StartupReconcile, EventReconcile, PeriodicReconcile,
       UnknownReconcile, reconcile, Places, Triggers
  <2>6. CASE Reconnect(w)
    <3>1. \/ End(w, "exit")
          \/ proc' = [proc EXCEPT ![w] = [r EXCEPT !.at = "connect", !.failures = CountFailure(w)]]
      BY <2>6 DEF Reconnect
    <3>2. LocalsAreHonest([r EXCEPT !.at = "connect", !.failures = CountFailure(w)])
      BY <2>0 DEF LocalsAreHonest, Process
    <3>3. QED
      BY <1>0, <1>2, <3>1, <3>2 DEF Places
  <2>7. CASE ReconcileStart(w)
    BY <2>7, <1>0, <2>0 DEF ReconcileStart, LocalsAreHonest, Process
  <2>8. CASE ApplyResult(w)
    <3>1. ~r.dirty
      BY <2>8, <2>0 DEF ApplyResult, At, LocalsAreHonest
    <3>2. ResumeReceive(w).dirty = r.dirty /\ ResumeReceive(w).at = "receive"
      BY <2>0 DEF ResumeReceive, Process
    <3>3. LocalsAreHonest(ResumeReceive(w))
      BY <3>1, <3>2 DEF LocalsAreHonest
    <3>4. QED
      BY <2>8, <1>3, <3>3 DEF ApplyResult
  <2>9. ASSUME NEW result \in Verdicts, ReconcileFinish(w, result)
        PROVE  LocalsAreHonest(proc'[v])
    <3> DEFINE done == [r EXCEPT !.at = "recDone", !.clean = result = "clean"]
    <3>1. ~r.dirty
      BY <2>9, <2>0 DEF ReconcileFinish, At, LocalsAreHonest
    <3>2. proc' = [proc EXCEPT ![w] = IF result = "failed" THEN Unwound(w, "recFailed") ELSE done]
      BY <2>9 DEF ReconcileFinish
    <3>3. done.dirty = r.dirty /\ done.eventDue = r.eventDue
      BY <2>0 DEF Process
    <3>4. LocalsAreHonest(done)
      BY <3>1, <3>3 DEF LocalsAreHonest
    <3> HIDE DEF done
    <3>5. LocalsAreHonest(Unwound(w, "recFailed"))
      BY DEF Unwound, Bare, LocalsAreHonest
    <3>6. QED
      BY <1>0, <3>2, <3>4, <3>5
  <2>10. CASE AccountEvent(w)
    <3>1. LocalsAreHonest([r EXCEPT !.dispatch = FALSE, !.eventDue = TRUE, !.dirty = TRUE])
      BY <2>0, <2>10 DEF AccountEvent, Receiving, At, LocalsAreHonest, Process
    <3>2. r.eventDue => LocalsAreHonest([r EXCEPT !.dirty = TRUE])
      BY <2>0, <2>10 DEF AccountEvent, Receiving, At, LocalsAreHonest, Process
    <3>3. CASE r.eventDue /\ proc' = [proc EXCEPT ![w] = [r EXCEPT !.dirty = TRUE]]
      BY <1>0, <3>2, <3>3
    <3>4. QED
      BY <2>10, <3>1, <3>3, <1>3 DEF AccountEvent
  <2>11. QED
    BY <1>4, <2>1, <2>2, <2>4, <2>5, <2>6, <2>7, <2>8, <2>9, <2>10 DEF WorkerStep
<1>5. ASSUME NEW w \in Workers, Stop(w) \/ Abort(w) \/ Crash(w)
      PROVE  LocalsAreHonest(proc'[v])
  BY <1>5, <1>2 DEF Stop, Abort, Crash, Places
<1>6. CASE Expire \/ UNCHANGED vars
  BY <1>6, <1>1 DEF Expire, vars
<1>7. ASSUME NEW c \in Clis, CliStart(c) \/ \E result \in Verdicts : CliFinish(c, result)
      PROVE  LocalsAreHonest(proc'[v])
  BY <1>7, <1>1 DEF CliStart, CliFinish
<1>8. QED
  BY <1>4, <1>5, <1>6, <1>7 DEF Next

\* A READY row with the token of a worker in its receive loop was written by
\* that worker with the verdict it still holds: others write another token.
LEMMA ReadyRowStep ==
    ASSUME TypeOK, TokensFence, EarnedInv, [Next]_vars, NEW v \in Workers
    PROVE  ReadyRowIsClean(v)'
<1> DEFINE Inside == {"receive", "sending", "unknown"}
           SameV == proc'[v].at \in Inside => proc[v].at \in Inside /\ proc'[v].clean = proc[v].clean
           SameRow == identity'[v] = identity[v] /\
                      (workerState'.state = "READY" /\ workerState'.token = identity[v] =>
                          workerState.state = "READY" /\ workerState.token = identity[v])
<1> USE DEF TypeOK, LeaseTypeOK, EarnedInv
<1>0. proc[v] \in Process /\ ReadyRowIsClean(v)
  OBVIOUS
<1>1. SameV /\ SameRow => ReadyRowIsClean(v)'
  BY <1>0 DEF ReadyRowIsClean
<1>2. proc'[v].at \notin Inside => ReadyRowIsClean(v)'
  BY DEF ReadyRowIsClean
<1>3. UNCHANGED <<workerState, identity>> => SameRow
  OBVIOUS
\* A write of w that is not READY, or that is of another worker.
<1>4. ASSUME NEW w \in Workers, NEW s \in WorkerStateNames, NEW c, NEW g, lease_is_current(w),
             WriteWorkerState(w, s, c, g), s # "READY" \/ v # w
      PROVE  SameRow
  <2>1. v # w => identity[v] # identity[w]
    BY <1>4 DEF TokensFence, lease_is_current, OwnsLeaseRow
  <2>2. QED
    BY <1>4, <2>1 DEF WriteWorkerState
<1>5. ASSUME NEW w \in Workers, NEW s \in WorkerStateNames \ {"READY"}, NEW c, NEW g,
             update_worker_state(w, s, c, g)
      PROVE  SameRow
  BY <1>4, <1>5 DEF update_worker_state, leaseVars
\* require_state with a name other than READY and locals that keep v honest.
<1>6. ASSUME NEW w \in Workers, NEW s \in WorkerStateNames \ {"READY"}, NEW c, NEW g, NEW r,
             require_state(w, s, c, g, r),
             r.at \in Inside => proc[w].at \in Inside /\ r.clean = proc[w].clean
      PROVE  ReadyRowIsClean(v)'
  <2>1. CASE lease_is_current(w)
    <3>1. SameRow
      BY <1>4, <1>6, <2>1 DEF require_state
    <3>2. proc' = [proc EXCEPT ![w] = r]
      BY <1>6, <2>1 DEF require_state
    <3>3. SameV
      BY <1>6, <3>2
    <3>4. QED
      BY <1>1, <3>1, <3>3
  <2>2. CASE ~lease_is_current(w)
    <3>1. SameRow /\ proc' = [proc EXCEPT ![w] = Bare("exit")]
      BY <1>6, <2>2 DEF require_state, leaseVars, End
    <3>2. SameV
      BY <3>1 DEF Bare
    <3>3. QED
      BY <1>1, <3>1, <3>2
  <2>3. QED
    BY <2>1, <2>2
\* A step that moves w out of the loop or keeps its verdict.
<1>7. ASSUME NEW w \in Workers, NEW place \in Places,
             \/ End(w, place) /\ place \notin Inside
             \/ proc' = [proc EXCEPT ![w] = Unwound(w, place)] /\ place \notin Inside
             \/ Goto(w, place) /\ (place \in Inside => At(w) \in Inside)
             \/ proc' = proc
      PROVE  SameV
  <2>1. Bare(place).at = place /\ Unwound(w, place).at = place
    BY DEF Unwound, Bare
  <2>2. [proc[w] EXCEPT !.at = place].at = place /\ [proc[w] EXCEPT !.at = place].clean = proc[w].clean
    BY DEF Process
  <2>3. QED
    BY <1>7, <2>1, <2>2 DEF Goto, End, At
<1>8. ASSUME NEW w \in Workers, WorkerStep(w)
      PROVE  ReadyRowIsClean(v)'
  <2> DEFINE r == proc[w]
  <2>0. r \in Process
    OBVIOUS
  <2>1. CASE Acquire(w)
    <3>1. SameV
      BY <2>1, <1>7 DEF Acquire, Places
    <3>2. CASE v = w
      <4>1. proc' = [proc EXCEPT ![w].at = "acquired"]
        BY <2>1 DEF Acquire, Goto
      <4>2. proc'[v].at = "acquired"
        BY <3>2, <4>1 DEF Process
      <4>3. QED
        BY <4>2, <1>2
    <3>3. CASE v # w
      <4>1. SameRow
        BY <2>1, <3>3 DEF Acquire, acquire_lease
      <4>2. QED
        BY <1>1, <3>1, <4>1
    <3>4. QED
      BY <3>2, <3>3
  <2>2. CASE Starting(w) \/ WriteStopped(w) \/ RotateToken(w)
    <3>1. SameV
      BY <2>2, <1>7 DEF Starting, WriteStopped, RotateToken, Places
    <3>2. SameRow
      BY <2>2, <1>5 DEF Starting, WriteStopped, RotateToken, WorkerStateNames
    <3>3. QED
      BY <1>1, <3>1, <3>2
  <2>3. CASE Heartbeat(w)
    <3>1. SameRow
      BY <2>3 DEF Heartbeat, renew_lease, leaseVars
    <3>2. SameV
      BY <2>3, <2>0 DEF Heartbeat, Process
    <3>3. QED
      BY <1>1, <3>1, <3>2
  <2>4. CASE Authenticate(w) \/ Connect(w) \/ Subscribe(w)
    <3>1. \A place \in Places : [r EXCEPT !.at = place].at = place
      BY <2>0 DEF Process
    <3>2. QED
      BY <2>4, <3>1, <1>6 DEF Authenticate, Connect, Subscribe, WorkerStateNames, Places
  <2>5. CASE NetworkFailure(w) \/ CannotDispatch(w) \/ LeaseLostExit(w) \/ Dispatch(w)
             \/ DispatchFinish(w)
    <3>1. SameV
      BY <2>5, <1>7 DEF NetworkFailure, CannotDispatch, LeaseLostExit, Dispatch, Receiving,
         DispatchFinish, Places
    <3>2. SameRow
      BY <2>5 DEF NetworkFailure, CannotDispatch, LeaseLostExit, Dispatch, DispatchFinish, leaseVars
    <3>3. QED
      BY <1>1, <3>1, <3>2
  <2>6. CASE Reconnect(w)
    <3>1. \/ End(w, "exit")
          \/ proc' = [proc EXCEPT ![w] = [r EXCEPT !.at = "connect", !.failures = CountFailure(w)]]
      BY <2>6 DEF Reconnect
    <3>2. [r EXCEPT !.at = "connect", !.failures = CountFailure(w)].at = "connect"
      BY <2>0 DEF Process
    <3>3. SameV
      BY <3>1, <3>2, <1>7 DEF Places
    <3>4. SameRow
      BY <2>6, <1>5 DEF Reconnect, WorkerStateNames, leaseVars
    <3>5. QED
      BY <1>1, <3>3, <3>4
  <2>7. CASE StartupReconcile(w) \/ EventReconcile(w) \/ PeriodicReconcile(w) \/ UnknownReconcile(w)
    <3>1. \A why \in Triggers : [r EXCEPT !.at = "recStart", !.trigger = why].at = "recStart"
      BY <2>0 DEF Process
    <3>2. QED
      BY <2>7, <3>1, <1>6 DEF StartupReconcile, EventReconcile, PeriodicReconcile,
         UnknownReconcile, reconcile, WorkerStateNames, Triggers
  <2>8. CASE ReconcileStart(w)
    <3>1. SameV
      BY <2>8, <2>0 DEF ReconcileStart, Process
    <3>2. QED
      BY <2>8, <1>1, <1>3, <3>1 DEF ReconcileStart
  <2>9. ASSUME NEW result \in Verdicts, ReconcileFinish(w, result)
        PROVE  ReadyRowIsClean(v)'
    <3> DEFINE done == [r EXCEPT !.at = "recDone", !.clean = result = "clean"]
    <3>1. proc' = [proc EXCEPT ![w] = IF result = "failed" THEN Unwound(w, "recFailed") ELSE done]
      BY <2>9 DEF ReconcileFinish
    <3>2. done.at = "recDone"
      BY <2>0 DEF Process
    <3>3. Unwound(w, "recFailed").at = "recFailed"
      BY DEF Unwound, Bare
    <3> HIDE DEF done
    <3>4. SameV
      BY <3>1, <3>2, <3>3
    <3>5. QED
      BY <2>9, <1>1, <1>3, <3>4 DEF ReconcileFinish
  <2>10. CASE ApplyResult(w)
    <3>1. ResumeReceive(w).clean = r.clean /\ ResumeReceive(w).at = "receive"
      BY <2>0 DEF ResumeReceive, Process
    <3>2. CASE ~lease_is_current(w)
      <4>1. SameRow /\ proc' = [proc EXCEPT ![w] = Bare("exit")]
        BY <2>10, <3>2 DEF ApplyResult, require_state, leaseVars, End
      <4>2. SameV
        BY <4>1 DEF Bare
      <4>3. QED
        BY <1>1, <4>1, <4>2
    <3>3. CASE lease_is_current(w)
      <4>1. proc' = [proc EXCEPT ![w] = ResumeReceive(w)]
        BY <2>10, <3>3 DEF ApplyResult, require_state
      <4>2. CASE v # w
        <5>1. SameV
          BY <4>1, <4>2
        <5>2. SameRow
          BY <2>10, <3>3, <4>2, <1>4 DEF ApplyResult, require_state, WorkerStateNames
        <5>3. QED
          BY <1>1, <5>1, <5>2
      <4>3. CASE v = w /\ r.clean
        <5>1. proc'[v].clean
          BY <4>1, <4>3, <3>1
        <5>2. QED
          BY <5>1 DEF ReadyRowIsClean
      <4>4. CASE v = w /\ ~r.clean
        <5>1. workerState'.state = "DEGRADED"
          BY <2>10, <3>3, <4>4 DEF ApplyResult, require_state, WriteWorkerState
        <5>2. QED
          BY <5>1 DEF ReadyRowIsClean
      <4>5. QED
        BY <4>2, <4>3, <4>4
    <3>4. QED
      BY <3>2, <3>3
  <2>11. CASE AccountEvent(w)
    <3> DEFINE noted == [r EXCEPT !.dispatch = FALSE, !.eventDue = TRUE, !.dirty = TRUE]
    <3>1. noted.at = r.at /\ noted.clean = r.clean
      BY <2>0 DEF Process
    <3>2. CASE proc' = [proc EXCEPT ![w].dirty = TRUE] /\ UNCHANGED leaseVars
      <4>1. SameV
        BY <3>2, <2>0 DEF Process
      <4>2. QED
        BY <3>2, <4>1, <1>1, <1>3 DEF leaseVars
    <3>3. CASE require_state(w, "RECONCILING", TRUE, "RECONCILING", noted)
      <4> HIDE DEF noted
      <4>1. QED
        BY <3>1, <3>3, <1>6, <2>11 DEF WorkerStateNames, AccountEvent, Receiving, At
    <3>4. QED
      BY <2>11, <3>2, <3>3 DEF AccountEvent
  <2>12. CASE Release(w)
    <3>1. SameV
      BY <2>12, <1>7 DEF Release, Places
    <3>2. SameRow
      BY <2>12 DEF Release, release_lease, leaseVars
    <3>3. QED
      BY <1>1, <3>1, <3>2
  <2>13. QED
    BY <1>8, <2>1, <2>2, <2>3, <2>4, <2>5, <2>6, <2>7, <2>8, <2>9, <2>10, <2>11, <2>12 DEF WorkerStep
<1>9. ASSUME NEW w \in Workers, Stop(w) \/ Abort(w) \/ Crash(w)
      PROVE  ReadyRowIsClean(v)'
  <2>1. SameV
    BY <1>9, <1>7 DEF Stop, Abort, Crash, Places
  <2>2. QED
    BY <1>9, <2>1, <1>1, <1>3 DEF Stop, Abort, Crash, leaseVars
<1>10. ASSUME proc' = proc, UNCHANGED <<workerState, identity>>
       PROVE  ReadyRowIsClean(v)'
  BY <1>10, <1>1, <1>3
<1>11. CASE Expire \/ UNCHANGED vars
  BY <1>11, <1>10 DEF Expire, ExpireLease, vars, leaseVars
<1>12. ASSUME NEW c \in Clis, CliStart(c) \/ \E result \in Verdicts : CliFinish(c, result)
       PROVE  ReadyRowIsClean(v)'
  BY <1>12, <1>10 DEF CliStart, CliFinish
<1>13. QED
  BY <1>8, <1>9, <1>11, <1>12 DEF Next

\* A worker that the order sender considers ready, in its receive loop or in a
\* send, has a last reconciliation without critical mismatch and has scheduled
\* another one for every account event since: for any number of processes.
THEOREM WorkerReadyIsEarned == Spec => []ReadyIsEarned
<1>1. Init => EarnedInv
  <2>1. ASSUME Init, NEW w \in Workers
        PROVE  proc[w] = Bare("idle") /\ identity[w] = 0
    BY <2>1 DEF Init, LeaseInit
  <2>2. ~Bare("idle").dirty
    BY DEF Bare
  <2>3. Bare("idle").at = "idle"
    BY DEF Bare
  <2>4. ASSUME Init, NEW w \in Workers
        PROVE  LocalsAreHonest(proc[w]) /\ ReadyRowIsClean(w)
    BY <2>1, <2>2, <2>3, <2>4 DEF LocalsAreHonest, ReadyRowIsClean
  <2>5. QED
    BY <2>4 DEF EarnedInv
<1>2. TypeOK /\ TokensFence /\ EarnedInv /\ [Next]_vars => EarnedInv'
  <2>1. ASSUME TypeOK, TokensFence, EarnedInv, [Next]_vars, NEW v \in Workers
        PROVE  LocalsAreHonest(proc'[v]) /\ ReadyRowIsClean(v)'
    BY <2>1, HonestStep, ReadyRowStep
  <2>2. QED
    BY <2>1 DEF EarnedInv, LocalsAreHonest, ReadyRowIsClean
<1>3. EarnedInv => ReadyIsEarned
  BY DEF EarnedInv, LocalsAreHonest, ReadyRowIsClean, ReadyIsEarned, WorkerReady,
     lease_is_current, OwnsLeaseRow, At
<1>4. QED
  BY <1>1, <1>2, <1>3, WorkerTypeCorrect, WorkerTokensFence, PTL DEF Spec

-----------------------------------------------------------------------------
\* A write of the worker row under LeaseSpec carries the newest token.
LEMMA RowTokenStep ==
    ASSUME [LeaseNext]_leaseVars, workerState' # workerState
    PROVE  workerState'.token = lease.token
<1>1. CASE \E w \in Workers : FencedWrite(w)
  BY <1>1 DEF FencedWrite, WriteWorkerState, lease_is_current, OwnsLeaseRow
<1>2. ASSUME NEW w \in Workers, release_lease(w)
      PROVE  workerState'.token = lease.token
  <2>1. workerState.token = identity[w] /\ identity[w] = lease.token
    BY <1>2 DEF release_lease, OwnsLeaseRow, leaseVars
  <2>2. workerState' = [workerState EXCEPT !.state = "STOPPED", !.connected = FALSE]
    BY <1>2 DEF release_lease, leaseVars
  <2>3. QED
    BY <2>1, <2>2
<1>3. QED
  BY <1>1, <1>2 DEF LeaseNext, acquire_lease, ExpireLease, CloseGate, leaseVars

\* Only a clean verdict applied under a current lease opens the gate.
LEMMA GateOpens ==
    ASSUME [Next]_vars, gate' = "READY", gate # "READY"
    PROVE  \E w \in Workers : lease_is_current(w) /\ At(w) = "recDone" /\ proc[w].clean
<1>1. ASSUME NEW w \in Workers, WorkerStep(w)
      PROVE  lease_is_current(w) /\ At(w) = "recDone" /\ proc[w].clean
  <2>1. CASE Acquire(w) \/ Heartbeat(w) \/ NetworkFailure(w) \/ Dispatch(w) \/ CannotDispatch(w)
             \/ LeaseLostExit(w) \/ Release(w)
    BY <2>1 DEF Acquire, acquire_lease, Heartbeat, renew_lease, NetworkFailure, Dispatch,
       CannotDispatch, LeaseLostExit, Release, release_lease, leaseVars
  <2>2. CASE Starting(w) \/ RotateToken(w) \/ WriteStopped(w) \/ Reconnect(w)
    BY <2>2 DEF Starting, RotateToken, WriteStopped, Reconnect, update_worker_state,
       WriteWorkerState, leaseVars
  <2>3. CASE Authenticate(w) \/ Connect(w) \/ Subscribe(w)
    BY <2>3 DEF Authenticate, Connect, Subscribe, require_state, WriteWorkerState, leaseVars
  <2>4. CASE StartupReconcile(w) \/ EventReconcile(w) \/ PeriodicReconcile(w) \/ UnknownReconcile(w)
    BY <2>4 DEF StartupReconcile, EventReconcile, PeriodicReconcile, UnknownReconcile, reconcile,
       require_state, WriteWorkerState, leaseVars
  <2>5. CASE AccountEvent(w)
    BY <2>5 DEF AccountEvent, require_state, WriteWorkerState, leaseVars
  <2>6. CASE ReconcileStart(w) \/ DispatchFinish(w)
    BY <2>6 DEF ReconcileStart, DispatchFinish
  <2>7. ASSUME NEW result \in Verdicts, ReconcileFinish(w, result)
        PROVE  FALSE
    BY <2>7 DEF ReconcileFinish, GateAfter, Verdicts
  <2>8. CASE ApplyResult(w)
    BY <2>8 DEF ApplyResult, require_state, WriteWorkerState, leaseVars
  <2>9. QED
    BY <1>1, <2>1, <2>2, <2>3, <2>4, <2>5, <2>6, <2>7, <2>8 DEF WorkerStep
<1>2. ASSUME NEW w \in Workers, Stop(w) \/ Abort(w) \/ Crash(w)
      PROVE  FALSE
  BY <1>2 DEF Stop, Abort, Crash, leaseVars
<1>3. ASSUME NEW c \in Clis, CliStart(c) \/ \E result \in Verdicts : CliFinish(c, result)
      PROVE  FALSE
  BY <1>3 DEF CliStart, CliFinish, GateAfter, Verdicts
<1>4. ~Expire /\ ~UNCHANGED vars
  BY DEF Expire, ExpireLease, vars, leaseVars
<1>5. QED
  BY <1>1, <1>2, <1>3, <1>4 DEF Next

\* A superseded worker changes nothing and only an earned verdict under a
\* current lease opens the gate, whatever the number of workers, command-line
\* runs and takeovers.
THEOREM WorkerWritesAreFenced == Spec => FencedWrites
<1> DEFINE Fenced ==
        /\ workerState' # workerState => workerState'.token = lease.token
        /\ gate' = "READY" /\ gate # "READY" =>
               \E w \in Workers : lease_is_current(w) /\ At(w) = "recDone" /\ proc[w].clean
<1>1. LeaseTypeOK /\ [Next]_vars => Fenced
  BY StepRefines, RowTokenStep, GateOpens
<1>2. TypeOK => LeaseTypeOK
  BY DEF TypeOK
<1>3. QED
  BY <1>1, <1>2, WorkerTypeCorrect, PTL DEF Spec, FencedWrites

=============================================================================
