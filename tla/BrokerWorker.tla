---------------------------- MODULE BrokerWorker ----------------------------
(***************************************************************************)
(* The Kiwoom broker worker process (backend/app/worker.py): acquiring the *)
(* account lease, the connection loop with its reconnect handler, the      *)
(* receive loop, the heartbeat task, and the reconciliation runs that      *)
(* write the trading gate, including the lease-less run of the             *)
(* kiwoom-reconcile-check command (backend/app/cli.py).                    *)
(*                                                                         *)
(* What a reconciliation compares is abstracted to its verdict here; the   *)
(* module OrderDispatch models the orders, the snapshot and the            *)
(* projection.  Network calls may succeed or fail at any time.             *)
(***************************************************************************)
EXTENDS BrokerLease

CONSTANTS
    Clis,          \* processes that run kiwoom-reconcile-check
    BackoffSteps   \* len(RECONNECT_BACKOFF)

ASSUME BackoffAssumption == BackoffSteps \in Nat \ {0}

VARIABLES
    proc,  \* the process of each worker: its place in the code and its locals
    cli    \* the kiwoom-reconcile-check processes that are reconciling

vars == <<leaseVars, proc, cli>>

Places == {"idle", "acquired", "connect", "authenticating", "connecting", "subscribed",
           "recStart", "recRead", "recDone", "receive", "sending", "unknown",
           "failed", "recFailed", "exit", "releasing", "stopped", "crashed"}

\* Places at which the heartbeat task does not exist.
Ended == {"stopped", "crashed"}
NoHeartbeat == Ended \cup {"idle", "acquired", "exit", "releasing"}

Triggers == {"STARTUP", "BROKER_EVENT", "PERIODIC", "ORDER_OUTCOME_UNKNOWN"}

\* at        place in run(), _connection_loop or _receive_loop
\* lost      the lease_lost event
\* failures  consecutive failures, counted up to BackoffSteps
\* trigger   trigger of the reconciliation in progress
\* clean     no critical mismatch in the last reconciliation
\* dispatch  order_dispatch_enabled of _receive_loop
\* eventDue  event_due of _receive_loop is not None
\* dirty     history: an account event that no reconciliation has read past
Process ==
    [at : Places, lost : BOOLEAN, failures : 0..BackoffSteps, trigger : Triggers,
     clean : BOOLEAN, dispatch : BOOLEAN, eventDue : BOOLEAN, dirty : BOOLEAN]

\* A process with no loop on its stack.
Bare(place) ==
    [at |-> place, lost |-> FALSE, failures |-> 0, trigger |-> "STARTUP",
     clean |-> FALSE, dispatch |-> FALSE, eventDue |-> FALSE, dirty |-> FALSE]

TypeOK ==
    /\ LeaseTypeOK
    /\ proc \in [Workers -> Process]
    /\ cli \in SUBSET Clis

Init ==
    /\ LeaseInit
    /\ proc = [w \in Workers |-> Bare("idle")]
    /\ cli = {}

At(w) == proc[w].at

Goto(w, place) == proc' = [proc EXCEPT ![w].at = place]

\* The finally block, or the end of the process.
End(w, place) == proc' = [proc EXCEPT ![w] = Bare(place)]

\* Back to the connection loop: the locals of _receive_loop are gone.
Unwound(w, place) ==
    [Bare(place) EXCEPT !.lost = proc[w].lost, !.failures = proc[w].failures]

\* Mutant of require_state: the result of the fenced write is ignored.
require_state_ignored(w, stateName, connected, newGate, newLocals) ==
    /\ update_worker_state(w, stateName, connected, newGate)
    /\ proc' = [proc EXCEPT ![w] = newLocals]

\* _require_state: a refused write sets lease_lost and raises
\* WORKER_LEASE_LOST, which the connection loop turns into the end of the
\* process.  newLocals is the process after a write that was accepted.
require_state(w, stateName, connected, newGate, newLocals) ==
    \/ /\ lease_is_current(w)
       /\ WriteWorkerState(w, stateName, connected, newGate)
       /\ proc' = [proc EXCEPT ![w] = newLocals]
    \/ /\ ~lease_is_current(w)
       /\ End(w, "exit")
       /\ UNCHANGED leaseVars

-----------------------------------------------------------------------------
\* run(): acquire the lease, then write STARTING and ignore the result.
Acquire(w) ==
    /\ At(w) = "idle"
    /\ acquire_lease(w)
    /\ Goto(w, "acquired")
    /\ UNCHANGED cli

Starting(w) ==
    /\ At(w) = "acquired"
    /\ update_worker_state(w, "STARTING", FALSE, "RECONCILING")
    /\ Goto(w, "connect")
    /\ UNCHANGED cli

\* The heartbeat task: renew, or set lease_lost and end the task.
Heartbeat(w) ==
    /\ At(w) \notin NoHeartbeat
    /\ ~proc[w].lost
    /\ \/ renew_lease(w) /\ UNCHANGED proc
       \/ /\ ~lease_is_current(w)
          /\ proc' = [proc EXCEPT ![w].lost = TRUE]
          /\ UNCHANGED leaseVars
    /\ UNCHANGED cli

\* Top of the connection loop.
Authenticate(w) ==
    /\ At(w) = "connect"
    /\ ~proc[w].lost
    /\ require_state(w, "AUTHENTICATING", FALSE, "RECONCILING",
                     [proc[w] EXCEPT !.at = "authenticating"])
    /\ UNCHANGED cli

Connect(w) ==
    /\ At(w) = "authenticating"
    /\ require_state(w, "CONNECTING", FALSE, "RECONCILING",
                     [proc[w] EXCEPT !.at = "connecting"])
    /\ UNCHANGED cli

Subscribe(w) ==
    /\ At(w) = "connecting"
    /\ require_state(w, "SUBSCRIBING", TRUE, "RECONCILING",
                     [proc[w] EXCEPT !.at = "subscribed"])
    /\ UNCHANGED cli

\* An error of the adapter or of the socket inside the try block.
NetworkFailure(w) ==
    /\ At(w) \in {"authenticating", "connecting", "receive"}
    /\ proc' = [proc EXCEPT ![w] = Unwound(w, "failed")]
    /\ UNCHANGED <<leaseVars, cli>>

\* failures += 1, counted up to the length of RECONNECT_BACKOFF: the code only
\* compares it with that length.
CountFailure(w) ==
    IF proc[w].failures < BackoffSteps THEN proc[w].failures + 1 ELSE BackoffSteps

\* The except clause of the connection loop, backoff included.
Reconnect(w) ==
    /\ At(w) \in {"failed", "recFailed"}
    /\ \/ proc[w].lost /\ End(w, "exit") /\ UNCHANGED leaseVars
       \/ LET count == CountFailure(w)
              name == IF At(w) = "recFailed" \/ count = BackoffSteps
                      THEN "DEGRADED" ELSE "RECONCILING"
          IN /\ ~proc[w].lost
             /\ update_worker_state(w, name, FALSE, name)
             /\ proc' = [proc EXCEPT ![w].at = "connect", ![w].failures = count]
    /\ UNCHANGED cli

-----------------------------------------------------------------------------
\* _reconcile: a fenced RECONCILING write, then run_kiwoom_reconciliation,
\* whose own transactions do not look at the lease.
reconcile(w, why) ==
    require_state(w, "RECONCILING", TRUE, "RECONCILING",
                  [proc[w] EXCEPT !.at = "recStart", !.trigger = why])

StartupReconcile(w) ==
    /\ At(w) = "subscribed"
    /\ reconcile(w, "STARTUP")
    /\ UNCHANGED cli

\* First transaction of run_kiwoom_reconciliation.
ReconcileStart(w) ==
    /\ At(w) = "recStart"
    /\ gate' = "RECONCILING"
    /\ proc' = [proc EXCEPT ![w].at = "recRead", ![w].dirty = FALSE]
    /\ UNCHANGED <<lease, workerState, identity, cli>>

Verdicts == {"clean", "critical", "failed"}

\* Mutant of GateAfter: _mark_failed writes the state of the run to the gate.
GateAfter_run_state(result) ==
    CASE result = "clean"    -> "RECONCILING"
      [] result = "critical" -> "HALTED"
      [] result = "failed"   -> "FAILED"

\* The gate committed with the outcome of a reconciliation run.
GateAfter(result) ==
    CASE result = "clean"    -> "RECONCILING"
      [] result = "critical" -> "HALTED"
      [] result = "failed"   -> "DEGRADED"

\* Snapshot, projection and comparison, committed with the gate; a failure is
\* committed by _mark_failed and raised.
ReconcileFinish(w, result) ==
    /\ At(w) = "recRead"
    /\ gate' = GateAfter(result)
    /\ proc' = [proc EXCEPT ![w] = IF result = "failed"
                                   THEN Unwound(w, "recFailed")
                                   ELSE [@ EXCEPT !.at = "recDone", !.clean = result = "clean"]]
    /\ UNCHANGED <<lease, workerState, identity, cli>>

\* The locals after a result has been applied.  On entry _receive_loop enables
\* dispatch whatever the verdict was, and failures restarts from 0.
ResumeReceive(w) ==
    LET startup == proc[w].trigger = "STARTUP"
    IN  [proc[w] EXCEPT
            !.at = "receive",
            !.trigger = "STARTUP",
            !.failures = IF startup THEN 0 ELSE @,
            !.dispatch = startup \/ proc[w].clean,
            !.eventDue = IF startup \/ proc[w].trigger = "BROKER_EVENT" THEN FALSE ELSE @]

\* Mutant of ApplyResult: the worker becomes READY whatever the verdict.
ApplyResult_always_ready(w) ==
    /\ At(w) = "recDone"
    /\ require_state(w, "READY", TRUE, "READY", ResumeReceive(w))
    /\ UNCHANGED cli

\* _apply_reconciliation_result.
ApplyResult(w) ==
    /\ At(w) = "recDone"
    /\ IF proc[w].clean
       THEN require_state(w, "READY", TRUE, "READY", ResumeReceive(w))
       ELSE require_state(w, "DEGRADED", TRUE, gate, ResumeReceive(w))
    /\ UNCHANGED cli

-----------------------------------------------------------------------------
\* The receive loop.  Each branch of an iteration depends on a timer, on the
\* order table or on the socket, so the branches appear in any order.
Receiving(w) == At(w) = "receive" /\ ~proc[w].lost

\* Events that arrive while one is being debounced are merged into it.
AccountEvent(w) ==
    /\ Receiving(w)
    /\ \/ /\ proc[w].eventDue
          /\ proc' = [proc EXCEPT ![w].dirty = TRUE]
          /\ UNCHANGED leaseVars
       \/ /\ ~proc[w].eventDue
          /\ require_state(w, "RECONCILING", TRUE, "RECONCILING",
                [proc[w] EXCEPT !.dispatch = FALSE, !.eventDue = TRUE, !.dirty = TRUE])
    /\ UNCHANGED cli

EventReconcile(w) ==
    /\ Receiving(w)
    /\ proc[w].eventDue
    /\ reconcile(w, "BROKER_EVENT")
    /\ UNCHANGED cli

PeriodicReconcile(w) ==
    /\ Receiving(w)
    /\ reconcile(w, "PERIODIC")
    /\ UNCHANGED cli

\* The rotated token is noticed: the write's result is ignored, the socket is
\* closed and _receive_loop returns.
RotateToken(w) ==
    /\ Receiving(w)
    /\ update_worker_state(w, "RECONCILING", TRUE, "RECONCILING")
    /\ proc' = [proc EXCEPT ![w] = Unwound(w, "connect")]
    /\ UNCHANGED cli

\* An order is waiting: _require_worker_ready passes and a request is sent ...
Dispatch(w) ==
    /\ Receiving(w)
    /\ proc[w].dispatch
    /\ WorkerReady(w)
    /\ Goto(w, "sending")
    /\ UNCHANGED <<leaseVars, cli>>

\* ... or it raises, which ends the receive loop.
CannotDispatch(w) ==
    /\ Receiving(w)
    /\ proc[w].dispatch
    /\ ~WorkerReady(w)
    /\ proc' = [proc EXCEPT ![w] = Unwound(w, "failed")]
    /\ UNCHANGED <<leaseVars, cli>>

\* _finish_send and _finish_cancel: nothing is written without a current
\* lease; an unknown outcome closes the gate and forces a reconciliation.
DispatchFinish(w) ==
    /\ At(w) = "sending"
    /\ \/ /\ ~lease_is_current(w)
          /\ proc' = [proc EXCEPT ![w] = Unwound(w, "failed")]
          /\ UNCHANGED gate
       \/ /\ lease_is_current(w)
          /\ Goto(w, "receive")
          /\ UNCHANGED gate
       \/ /\ lease_is_current(w)
          /\ gate' = "RECONCILING"
          /\ Goto(w, "unknown")
    /\ UNCHANGED <<lease, workerState, identity, cli>>

UnknownReconcile(w) ==
    /\ At(w) = "unknown"
    /\ reconcile(w, "ORDER_OUTCOME_UNKNOWN")
    /\ UNCHANGED cli

-----------------------------------------------------------------------------
\* lease_lost seen at a loop test.
LeaseLostExit(w) ==
    /\ At(w) \in {"connect", "receive"}
    /\ proc[w].lost
    /\ End(w, "exit")
    /\ UNCHANGED <<leaseVars, cli>>

\* SIGTERM, seen at a loop test or while waiting.
Stop(w) ==
    /\ \/ At(w) \in {"connect", "receive"} /\ End(w, "exit")
       \/ At(w) = "idle" /\ End(w, "stopped")
    /\ UNCHANGED <<leaseVars, cli>>

\* An exception the connection loop does not handle, such as an error of the
\* database, leaves run() through its finally block.
Abort(w) ==
    /\ At(w) \notin Ended \cup {"idle", "acquired", "exit", "releasing"}
    /\ End(w, "exit")
    /\ UNCHANGED <<leaseVars, cli>>

\* finally: a fenced STOPPED write, then the release of the lease.
WriteStopped(w) ==
    /\ At(w) = "exit"
    /\ update_worker_state(w, "STOPPED", FALSE, "DEGRADED")
    /\ Goto(w, "releasing")
    /\ UNCHANGED cli

Release(w) ==
    /\ At(w) = "releasing"
    /\ release_lease(w)
    /\ Goto(w, "stopped")
    /\ UNCHANGED cli

\* The process dies between two transactions.
Crash(w) ==
    /\ At(w) \notin Ended \cup {"idle"}
    /\ End(w, "crashed")
    /\ UNCHANGED <<leaseVars, cli>>

\* cresta-admin kiwoom-reconcile-check: the same reconciliation from another
\* process, without a lease.
CliStart(c) ==
    /\ c \notin cli
    /\ cli' = cli \cup {c}
    /\ gate' = "RECONCILING"
    /\ UNCHANGED <<lease, workerState, identity, proc>>

CliFinish(c, result) ==
    /\ c \in cli
    /\ cli' = cli \ {c}
    /\ gate' = GateAfter(result)
    /\ UNCHANGED <<lease, workerState, identity, proc>>

Expire == ExpireLease /\ UNCHANGED <<proc, cli>>

\* Steps the process takes by itself, whatever its environment does.
WorkerStep(w) ==
    \/ Acquire(w) \/ Starting(w) \/ Heartbeat(w)
    \/ Authenticate(w) \/ Connect(w) \/ Subscribe(w) \/ NetworkFailure(w) \/ Reconnect(w)
    \/ StartupReconcile(w) \/ ReconcileStart(w) \/ ApplyResult(w)
    \/ \E result \in Verdicts : ReconcileFinish(w, result)
    \/ AccountEvent(w) \/ EventReconcile(w) \/ PeriodicReconcile(w) \/ RotateToken(w)
    \/ Dispatch(w) \/ CannotDispatch(w) \/ DispatchFinish(w) \/ UnknownReconcile(w)
    \/ LeaseLostExit(w) \/ WriteStopped(w) \/ Release(w)

Next ==
    \/ \E w \in Workers : WorkerStep(w) \/ Stop(w) \/ Abort(w) \/ Crash(w)
    \/ \E c \in Clis : CliStart(c) \/ \E result \in Verdicts : CliFinish(c, result)
    \/ Expire

Spec == Init /\ [][Next]_vars

-----------------------------------------------------------------------------
(***************************************************************************)
(* Safety                                                                  *)
(***************************************************************************)

\* A worker that the sender considers ready, in its receive loop or in a send,
\* has a last reconciliation without critical mismatch (REC-003), and every
\* account event it received since is scheduled for another one: no
\* interleaving with the heartbeat, a takeover, a reconnect or another
\* reconciliation makes it ready otherwise, and no event is forgotten.  The
\* gate may be open while the event waits; EventsCloseGate is what the
\* documents ask for, and it does not hold.
ReadyIsEarned ==
    \A w \in Workers :
        WorkerReady(w) /\ At(w) \in {"receive", "sending"} =>
            proc[w].clean /\ (proc[w].dirty => proc[w].eventDue)

\* REC-082 and KIW-136: an account event closes the gate at once, and sending
\* is resumed only after a reconciliation that began after the event.  The
\* receive loop closes the gate only for the event that begins a debounce; a
\* periodic reconciliation may have opened it again when the next event
\* arrives, which is then merged into the debounce.
EventsCloseGate ==
    \A w \in Workers :
        WorkerReady(w) /\ At(w) \in {"receive", "sending"} => ~proc[w].dirty

\* A gate that a reconciliation halted does not become READY before another
\* one has begun, which first writes RECONCILING: HALTED means a critical
\* mismatch that is not resolved.  _apply_reconciliation_result does not look
\* at the gate, so a verdict reached before the mismatch was found opens it.
HaltIsKept == [][gate = "HALTED" => gate' # "READY"]_vars

\* A process that another one has superseded changes neither the worker row
\* nor opens the gate: the row is only written under the newest token, and the
\* gate only becomes READY in a step of the current lease owner that holds a
\* clean verdict (DB-029, KIW-119).
FencedWrites ==
    [][/\ workerState' # workerState => workerState'.token = lease.token
       /\ gate' = "READY" /\ gate # "READY" =>
              \E w \in Workers : lease_is_current(w) /\ At(w) = "recDone" /\ proc[w].clean
      ]_vars

-----------------------------------------------------------------------------
(***************************************************************************)
(* Liveness.  Every process that has not crashed keeps taking steps: the   *)
(* event loop runs, and every network call has a timeout.  The clock       *)
(* passes the expiry of a lease whose owner no longer renews it.           *)
(***************************************************************************)
OwnerEnded == lease.owner \in Workers /\ At(lease.owner) \in Ended

Fairness ==
    /\ \A w \in Workers : WF_vars(WorkerStep(w))
    /\ WF_vars(Expire /\ OwnerEnded)

FairSpec == Spec /\ Fairness

\* A process whose lease was taken over comes to its end by itself, whatever
\* it was doing (KIW-042).
SupersededWorkerEnds ==
    \A w \in Workers :
        identity[w] # 0 /\ identity[w] < lease.token ~> At(w) \in Ended

\* A standby process obtains the lease of an owner that stopped or crashed,
\* unless another standby does or it is stopped itself.
StandbyTakesOver ==
    \A w \in Workers :
        At(w) = "idle" /\ OwnerEnded ~> At(w) # "idle" \/ ~OwnerEnded

=============================================================================
