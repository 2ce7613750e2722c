---------------------------- MODULE BrokerLease ----------------------------
(***************************************************************************)
(* The account rows that decide who may talk to the broker:                *)
(* broker_leases, broker_worker_states and trading_gates of the one        *)
(* account KIWOOM_MOCK_PRIMARY, and the fenced transactions on them        *)
(* (backend/app/broker/worker_state.py).                                   *)
(*                                                                         *)
(* A worker is one process incarnation: owner_id is a fresh uuid7 for      *)
(* every process, so a restarted process is another element of Workers.    *)
(* Time is abstracted to the one question the code asks of it, whether     *)
(* expires_at lies in the future: lease.live.  A lease may expire at any   *)
(* moment (ExpireLease); lease_seconds is not modelled.                    *)
(***************************************************************************)
EXTENDS Naturals

CONSTANTS
    Workers,    \* process incarnations of the broker worker
    NoWorker    \* the owner of a lease row that does not exist yet

ASSUME NoWorkerAssumption == NoWorker \notin Workers

VARIABLES
    lease,        \* broker_leases row: owner, fencing token, not yet expired
    workerState,  \* broker_worker_states row: state, fencing token, connected
    gate,         \* trading_gates.status, "ABSENT" before the first write
    identity      \* LeaseIdentity.fencing_token held by a process, 0 for None

leaseVars == <<lease, workerState, gate, identity>>

WorkerStateNames ==
    {"NOT_STARTED", "STARTING", "AUTHENTICATING", "CONNECTING", "SUBSCRIBING",
     "RECONCILING", "READY", "DEGRADED", "STOPPED"}

GateStatuses == {"ABSENT", "RECONCILING", "READY", "HALTED", "DEGRADED"}

LeaseTypeOK ==
    /\ lease \in [owner : Workers \cup {NoWorker}, token : Nat, live : BOOLEAN]
    /\ workerState \in [state : WorkerStateNames, token : Nat, connected : BOOLEAN]
    /\ gate \in GateStatuses
    /\ identity \in [Workers -> Nat]

\* No row of the account exists; token 0 stands for an absent lease row.
LeaseInit ==
    /\ lease = [owner |-> NoWorker, token |-> 0, live |-> FALSE]
    /\ workerState = [state |-> "NOT_STARTED", token |-> 0, connected |-> FALSE]
    /\ gate = "ABSENT"
    /\ identity = [w \in Workers |-> 0]

-----------------------------------------------------------------------------
\* The identity of w is the one in the row, whatever its expiry.
OwnsLeaseRow(w) ==
    /\ identity[w] # 0
    /\ lease.owner = w
    /\ lease.token = identity[w]

\* Mutant of lease_is_current: the fencing token is not compared.
lease_is_current_no_token(w) == identity[w] # 0 /\ lease.live

lease_is_current(w) == OwnsLeaseRow(w) /\ lease.live

\* Mutant of CanAcquire: a lease that has expired is not given away.
CanAcquire_ignores_expiry(w) == lease.owner \in {w, NoWorker}

\* acquire_lease returns None while another owner's lease has not expired.
CanAcquire(w) == ~lease.live \/ lease.owner = w

\* Mutant of acquire_lease: the fencing token is not incremented on takeover.
acquire_lease_same_token(w) ==
    /\ CanAcquire(w)
    /\ LET token == IF lease.token = 0 THEN 1 ELSE lease.token
       IN  /\ lease' = [owner |-> w, token |-> token, live |-> TRUE]
           /\ identity' = [identity EXCEPT ![w] = token]
    /\ UNCHANGED <<workerState, gate>>

acquire_lease(w) ==
    /\ CanAcquire(w)
    /\ lease' = [owner |-> w, token |-> lease.token + 1, live |-> TRUE]
    /\ identity' = [identity EXCEPT ![w] = lease.token + 1]
    /\ UNCHANGED <<workerState, gate>>

\* A renewal moves expires_at forward; last_heartbeat_at is not modelled, so
\* the rows, as far as they are modelled, keep their values.
renew_lease(w) ==
    /\ lease_is_current(w)
    /\ UNCHANGED leaseVars

\* update_worker_state after its lease check.  The code always sets
\* websocket_connected and subscriptions_ready together: one flag.
\* newGate = gate stands for gate_status=None.
WriteWorkerState(w, stateName, connected, newGate) ==
    /\ workerState' = [state |-> stateName, token |-> identity[w], connected |-> connected]
    /\ gate' = newGate
    /\ UNCHANGED <<lease, identity>>

\* Mutant of update_worker_state: the lease is not checked.
update_worker_state_unfenced(w, stateName, connected, newGate) ==
    WriteWorkerState(w, stateName, connected, newGate)

\* _update_state with its Boolean result ignored: a fenced write is dropped.
update_worker_state(w, stateName, connected, newGate) ==
    \/ lease_is_current(w) /\ WriteWorkerState(w, stateName, connected, newGate)
    \/ ~lease_is_current(w) /\ UNCHANGED leaseVars

\* release_lease compares owner and token but not the expiry.
release_lease(w) ==
    \/ /\ OwnsLeaseRow(w)
       /\ lease' = [lease EXCEPT !.live = FALSE]
       /\ workerState' = IF workerState.token = identity[w]
                         THEN [workerState EXCEPT !.state = "STOPPED", !.connected = FALSE]
                         ELSE workerState
       /\ UNCHANGED <<gate, identity>>
    \/ ~OwnsLeaseRow(w) /\ UNCHANGED leaseVars

\* The passage of time past expires_at.
ExpireLease ==
    /\ lease.live
    /\ lease' = [lease EXCEPT !.live = FALSE]
    /\ UNCHANGED <<workerState, gate, identity>>

\* _require_worker_ready of the order sender: what must hold, at the moment of
\* the check, before a request is sent to the broker.
WorkerReady(w) ==
    /\ lease_is_current(w)
    /\ workerState.state = "READY"
    /\ workerState.token = identity[w]
    /\ workerState.connected
    /\ gate = "READY"

\* _set_gate and _mark_gate_reconciling: any process may close the gate.
CloseGate ==
    /\ gate' \in GateStatuses \ {"READY"}
    /\ UNCHANGED <<lease, workerState, identity>>

-----------------------------------------------------------------------------
(***************************************************************************)
(* What the processes may do to these rows, whatever else they do.  It is  *)
(* the abstract specification that BrokerWorker and OrderDispatch          *)
(* implement.                                                              *)
(***************************************************************************)
FencedWrite(w) ==
    \E stateName \in WorkerStateNames, connected \in BOOLEAN, newGate \in GateStatuses :
        lease_is_current(w) /\ WriteWorkerState(w, stateName, connected, newGate)

LeaseNext ==
    \/ \E w \in Workers : acquire_lease(w) \/ FencedWrite(w) \/ release_lease(w)
    \/ ExpireLease
    \/ CloseGate

\* Every process changes the rows only by taking over an expired lease, by a
\* write under its current lease or by giving the lease up; without a lease it
\* can only close the gate (DB-029, KIW-112, KIW-119).
LeaseSpec == LeaseInit /\ [][LeaseNext]_leaseVars

\* Fencing tokens identify lease periods: two processes never hold the same
\* one, the row's owner holds the newest one, and the state row never carries
\* a token that was not issued (acquire_lease increments the token in the
\* transaction that replaces the owner).
TokensFence ==
    /\ \A w \in Workers : identity[w] <= lease.token
    /\ \A v, w \in Workers : v # w /\ identity[v] = identity[w] => identity[v] = 0
    /\ lease.owner \in Workers => identity[lease.owner] = lease.token
    /\ workerState.token <= lease.token

=============================================================================
