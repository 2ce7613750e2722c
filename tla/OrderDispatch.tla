--------------------------- MODULE OrderDispatch ---------------------------
(***************************************************************************)
(* Orders between the database and the broker: the sender                  *)
(* (backend/app/broker/order_sender.py), the reconciliation run            *)
(* (backend/app/reconciliation.py) and the projection of an account        *)
(* snapshot onto the order rows (backend/app/account_projection.py), under *)
(* process crashes, lease takeovers and lost or late broker answers.       *)
(*                                                                         *)
(* The loop around them is the one of module BrokerWorker with everything  *)
(* taken out that the order rows do not depend on: a connection is one     *)
(* step, any event or timer may start a reconciliation, and every gate     *)
(* value that forbids sending is as good as another.  A process that is    *)
(* not a worker (the kiwoom-reconcile-check command) only reconciles.      *)
(*                                                                         *)
(* The broker names an order that it accepted by the order that was sent,  *)
(* so a broker order id is an element of Orders.  Every order asks for     *)
(* Quantity shares.                                                        *)
(***************************************************************************)
EXTENDS BrokerLease, FiniteSets

CONSTANTS
    Clis,       \* processes that reconcile without a lease
    MaxOrders,  \* orders created in a behaviour
    Quantity,   \* requested_quantity of every order
    Expiring    \* the orders with unfilled_policy CANCEL (entry BUY)

ASSUME DispatchAssumption ==
    /\ Clis \cap Workers = {}
    /\ NoWorker \notin Clis
    /\ MaxOrders \in Nat
    /\ Quantity \in Nat \ {0}

VARIABLES
    row,         \* orders rows of Cresta's own orders
    imported,    \* orders rows with action BROKER_IMPORTED, by broker id
    at,          \* place of each process
    hand,        \* the order a worker is sending or cancelling, and the answer
    snap,        \* the account snapshot a process is reading
    broker,      \* orders at the broker
    wire,        \* fate of the new-order request
    cancelWire,  \* fate of the cancel request
    sends,       \* history: new-order requests transmitted
    cancels,     \* history: cancel requests transmitted
    intruded     \* history: a process without a current lease wrote a row

rowVars == <<row, imported>>
brokerVars == <<broker, wire, cancelWire, sends, cancels>>
vars == <<leaseVars, rowVars, at, hand, snap, brokerVars, intruded>>

Orders == 1..MaxOrders
Procs == Workers \cup Clis

Statuses ==
    {"ABSENT", "CREATED", "SUBMITTING", "ACKNOWLEDGED", "OPEN", "PARTIALLY_FILLED", "FILLED",
     "CANCEL_PENDING", "CANCELLED", "REJECTED", "UNKNOWN", "RECONCILING"}

\* BROKER_VISIBLE_ORDER_STATES; REPLACE_PENDING is only used by the paper broker.
Visible ==
    {"SUBMITTING", "ACKNOWLEDGED", "OPEN", "PARTIALLY_FILLED", "CANCEL_PENDING", "UNKNOWN",
     "RECONCILING"}

\* Statuses of a row whose remainder an expiry may cancel.
Cancellable == {"ACKNOWLEDGED", "OPEN", "PARTIALLY_FILLED"}

\* hasId: broker_order_id is not null.  armed: next_action_at is not null.
Row == [status : Statuses, filled : 0..Quantity, cancelled : 0..Quantity,
        remaining : 0..Quantity, hasId : BOOLEAN, armed : BOOLEAN]

NoRow == [status |-> "ABSENT", filled |-> 0, cancelled |-> 0, remaining |-> 0,
          hasId |-> FALSE, armed |-> FALSE]

Places ==
    {"idle", "connect", "recBegin", "recOpen", "recFills", "recProject", "recClean",
     "recCritical", "receive", "failed", "uncertain", "ended",
     "claimed", "sending", "awaiting", "finishing",
     "cancelClaimed", "cancelSending", "cancelAwaiting", "cancelFinishing"}

\* garbled: the broker accepts, and its answer is an object without the integer
\* return_code 0.
Fates == {"accepted", "garbled", "refused", "lost"}
Accepting == {"accepted", "garbled"}
Answers == {"none", "ack", "rejected", "unknown"}

Empty == [order |-> 0, answer |-> "none"]

\* listed and filledAtOpen come from the first REST read, fills from the second.
Snapshot == [listed : SUBSET Orders, filledAtOpen : [Orders -> 0..Quantity],
             fills : [Orders -> 0..Quantity]]

NoSnapshot == [listed |-> {}, filledAtOpen |-> [o \in Orders |-> 0],
               fills |-> [o \in Orders |-> 0]]

TypeOK ==
    /\ LeaseTypeOK
    /\ row \in [Orders -> Row]
    /\ imported \in [Orders -> Row]
    /\ at \in [Procs -> Places]
    /\ hand \in [Workers -> [order : Orders \cup {0}, answer : Answers]]
    /\ snap \in [Procs -> Snapshot]
    /\ broker \in [Orders -> [state : {"none", "open", "filled", "cancelled"}, filled : 0..Quantity]]
    /\ wire \in [Orders -> Fates \cup {"none", "pending"}]
    /\ cancelWire \in [Orders -> Fates \cup {"none", "pending"}]
    /\ sends \in [Orders -> Nat]
    /\ cancels \in [Orders -> Nat]
    /\ intruded \in BOOLEAN

Init ==
    /\ LeaseInit
    /\ row = [o \in Orders |-> NoRow]
    /\ imported = [o \in Orders |-> NoRow]
    /\ at = [p \in Procs |-> "idle"]
    /\ hand = [w \in Workers |-> Empty]
    /\ snap = [p \in Procs |-> NoSnapshot]
    /\ broker = [o \in Orders |-> [state |-> "none", filled |-> 0]]
    /\ wire = [o \in Orders |-> "none"]
    /\ cancelWire = [o \in Orders |-> "none"]
    /\ sends = [o \in Orders |-> 0]
    /\ cancels = [o \in Orders |-> 0]
    /\ intruded = FALSE

-----------------------------------------------------------------------------
Goto(p, place) == at' = [at EXCEPT ![p] = place]

\* A write of p that the lease does not cover: the process is not a worker, or
\* its lease has expired or was taken over.
Trespass(p) == intruded' = (intruded \/ p \in Clis \/ (p \in Workers /\ ~lease_is_current(p)))

\* FOR UPDATE row locks are held from the SELECT to the commit.
Locked(o) ==
    \E w \in Workers : at[w] \in {"claimed", "cancelClaimed"} /\ hand[w].order = o

\* create_order: a row in CREATED that no process has touched.  Ids and
\* creation times increase, so orders appear in their own order.
create_order(o) ==
    /\ row[o].status = "ABSENT"
    /\ \A p \in Orders : p < o => row[p].status # "ABSENT"
    /\ row' = [row EXCEPT ![o] = [NoRow EXCEPT !.status = "CREATED", !.remaining = Quantity]]
    /\ UNCHANGED <<leaseVars, imported, at, hand, snap, brokerVars, intruded>>

-----------------------------------------------------------------------------
(***************************************************************************)
(* The worker loop, reduced                                                *)
(***************************************************************************)
Acquire(w) ==
    /\ at[w] = "idle"
    /\ acquire_lease(w)
    /\ Goto(w, "connect")
    /\ UNCHANGED <<rowVars, hand, snap, brokerVars, intruded>>

\* Connected and subscribed, or an event, a timer or an uncertain outcome in
\* the receive loop: a fenced write, then the reconciliation run.  A refused
\* write ends the process.
StartReconcile(w) ==
    /\ at[w] \in {"connect", "receive", "uncertain"}
    /\ \/ /\ lease_is_current(w)
          /\ WriteWorkerState(w, "RECONCILING", TRUE, "RECONCILING")
          /\ Goto(w, "recBegin")
       \/ /\ ~lease_is_current(w)
          /\ Goto(w, "ended")
          /\ UNCHANGED leaseVars
    /\ UNCHANGED <<rowVars, hand, snap, brokerVars, intruded>>

\* The except clause of the connection loop, from a socket error or from an
\* exception that left the receive loop.
Reconnect(w) ==
    /\ at[w] \in {"receive", "failed"}
    /\ update_worker_state(w, "RECONCILING", FALSE, "RECONCILING")
    /\ Goto(w, "connect")
    /\ UNCHANGED <<rowVars, hand, snap, brokerVars, intruded>>

\* _apply_reconciliation_result.
ApplyResult(w) ==
    /\ at[w] \in {"recClean", "recCritical"}
    /\ \/ /\ lease_is_current(w)
          /\ IF at[w] = "recClean"
             THEN WriteWorkerState(w, "READY", TRUE, "READY")
             ELSE WriteWorkerState(w, "DEGRADED", TRUE, gate)
          /\ Goto(w, "receive")
       \/ /\ ~lease_is_current(w)
          /\ Goto(w, "ended")
          /\ UNCHANGED leaseVars
    /\ UNCHANGED <<rowVars, hand, snap, brokerVars, intruded>>

\* The process dies between two transactions; a row lock dies with it.
Crash(w) ==
    /\ at[w] \notin {"idle", "ended"}
    /\ Goto(w, "ended")
    /\ hand' = [hand EXCEPT ![w] = Empty]
    /\ snap' = [snap EXCEPT ![w] = NoSnapshot]
    /\ UNCHANGED <<leaseVars, rowVars, brokerVars, intruded>>

Expire ==
    /\ ExpireLease
    /\ UNCHANGED <<rowVars, at, hand, snap, brokerVars, intruded>>

-----------------------------------------------------------------------------
(***************************************************************************)
(* A new order: send_next_created_order                                    *)
(***************************************************************************)
\* Mutant of NextCreated: an order left in SUBMITTING is picked up again.
NextCreated_resubmits(o) ==
    /\ row[o].status \in {"CREATED", "SUBMITTING"} /\ ~Locked(o)
    /\ \A p \in Orders : p < o /\ row[p].status = "CREATED" => Locked(p)

\* The FIFO statement with SKIP LOCKED.
NextCreated(o) ==
    /\ row[o].status = "CREATED" /\ ~Locked(o)
    /\ \A p \in Orders : p < o /\ row[p].status = "CREATED" => Locked(p)

\* The expired entry BUY the cancel statement may select.
NextExpired(o) ==
    /\ row[o].status \in Cancellable
    /\ row[o].remaining > 0
    /\ row[o].armed
    /\ ~Locked(o)

\* Lock the row, then _require_worker_ready, both before the commit.  The
\* check reads the lease, state and gate rows without locking them.
Claim(w, o) ==
    /\ at[w] = "receive"
    /\ NextCreated(o)
    /\ WorkerReady(w)
    /\ Goto(w, "claimed")
    /\ hand' = [hand EXCEPT ![w] = [order |-> o, answer |-> "none"]]
    /\ UNCHANGED <<leaseVars, rowVars, snap, brokerVars, intruded>>

\* _require_worker_ready raises: rollback, and the receive loop ends.
NotReady(w) ==
    /\ at[w] = "receive"
    /\ \E o \in Orders : NextCreated(o) \/ NextExpired(o)
    /\ ~WorkerReady(w)
    /\ Goto(w, "failed")
    /\ UNCHANGED <<leaseVars, rowVars, hand, snap, brokerVars, intruded>>

\* Mutant of CommitSubmitting: the commit stops at VALIDATING.
CommitSubmitting_validating(w) ==
    /\ at[w] = "claimed"
    /\ row' = [row EXCEPT ![hand[w].order].status = "VALIDATING"]
    /\ Goto(w, "sending")
    /\ Trespass(w)
    /\ UNCHANGED <<leaseVars, imported, hand, snap, brokerVars>>

\* VALIDATING and SUBMITTING in one commit, before the request is sent.
CommitSubmitting(w) ==
    /\ at[w] = "claimed"
    /\ row' = [row EXCEPT ![hand[w].order].status = "SUBMITTING"]
    /\ Goto(w, "sending")
    /\ Trespass(w)
    /\ UNCHANGED <<leaseVars, imported, hand, snap, brokerVars>>

\* place_order: one HTTP request, never repeated.
Transmit(w) ==
    /\ at[w] = "sending"
    /\ wire' = [wire EXCEPT ![hand[w].order] = "pending"]
    /\ sends' = [sends EXCEPT ![hand[w].order] = @ + 1]
    /\ Goto(w, "awaiting")
    /\ UNCHANGED <<leaseVars, rowVars, hand, snap, broker, cancelWire, cancels, intruded>>

\* Mutant of AnswersTo: a timeout is taken for a rejection.
AnswersTo_timeout_rejects(fate) ==
    CASE fate = "accepted" -> {"ack", "rejected"}
      [] fate = "refused"  -> {"rejected"}
      [] OTHER             -> {"rejected"}

\* What the adapter makes of a request: a timeout, an HTTP error or a body that
\* is not an object is unknown; every object whose return_code is not the
\* integer 0 is a rejection, one that has none or has it as text included.
AnswersTo(fate) ==
    CASE fate = "accepted" -> {"ack", "unknown"}
      [] fate = "garbled"  -> {"rejected", "unknown"}
      [] fate = "refused"  -> {"rejected", "unknown"}
      [] OTHER             -> {"unknown"}

\* The answer, or an error of the adapter before anything was transmitted, and
\* the lease check that follows it: without a lease nothing is recorded.
ReceiveAnswer(w, before, after, fate) ==
    \E answer \in Answers :
        /\ \/ at[w] = before[1] /\ answer = "rejected"
           \/ at[w] = before[2] /\ answer \in AnswersTo(fate)
        /\ \/ /\ lease_is_current(w)
              /\ Goto(w, after)
              /\ hand' = [hand EXCEPT ![w].answer = answer]
           \/ /\ ~lease_is_current(w)
              /\ Goto(w, "failed")
              /\ hand' = [hand EXCEPT ![w] = Empty]
        /\ UNCHANGED <<leaseVars, rowVars, snap, brokerVars, intruded>>

SendAnswer(w) ==
    /\ at[w] \in {"sending", "awaiting"}
    /\ ReceiveAnswer(w, <<"sending", "awaiting">>, "finishing", wire[hand[w].order])

\* The row after the answer of the broker.
Answered(o, answer) ==
    CASE answer = "ack"      -> [row[o] EXCEPT !.status = "ACKNOWLEDGED", !.hasId = TRUE,
                                               !.armed = o \in Expiring]
      [] answer = "rejected" -> [row[o] EXCEPT !.status = "REJECTED"]
      [] answer = "unknown"  -> [row[o] EXCEPT !.status = "UNKNOWN"]

\* The finally block of run(): a fenced STOPPED write.  The release that
\* follows it is an expiry of the lease.
GiveUp(w) == update_worker_state(w, "STOPPED", FALSE, "DEGRADED")

\* _finish_send.  The unique index on the broker order id refuses the commit
\* when a reconciliation has imported the order meanwhile; the exception is
\* not one the connection loop handles, and the finally block of run() gives
\* the account up.
FinishSend(w) ==
    LET o == hand[w].order
        answer == hand[w].answer
    IN  /\ at[w] = "finishing"
        /\ row[o].status = "SUBMITTING"
        /\ hand' = [hand EXCEPT ![w] = Empty]
        /\ \/ /\ answer = "ack" /\ imported[o].hasId
              /\ Goto(w, "ended")
              /\ GiveUp(w)
              /\ UNCHANGED <<row, intruded>>
           \/ /\ ~(answer = "ack" /\ imported[o].hasId)
              /\ row' = [row EXCEPT ![o] = Answered(o, answer)]
              /\ gate' = IF answer = "unknown" THEN "RECONCILING" ELSE gate
              /\ Goto(w, IF answer = "unknown" THEN "uncertain" ELSE "receive")
              /\ Trespass(w)
              /\ UNCHANGED <<lease, workerState, identity>>
        /\ UNCHANGED <<imported, snap, brokerVars>>

-----------------------------------------------------------------------------
(***************************************************************************)
(* The remainder of an expired entry BUY: cancel_next_expired_buy_once     *)
(***************************************************************************)
\* A cancellable row always has a broker order id (RowsAreConsistent), so the
\* branch of the code for a missing one is not taken.
ClaimCancel(w, o) ==
    /\ at[w] = "receive"
    /\ NextExpired(o)
    /\ WorkerReady(w)
    /\ Goto(w, "cancelClaimed")
    /\ hand' = [hand EXCEPT ![w] = [order |-> o, answer |-> "none"]]
    /\ UNCHANGED <<leaseVars, rowVars, snap, brokerVars, intruded>>

\* Mutant of CommitCancel: next_action_at is kept.
CommitCancel_keeps_action(w) ==
    /\ at[w] = "cancelClaimed"
    /\ row' = [row EXCEPT ![hand[w].order].status = "CANCEL_PENDING"]
    /\ Goto(w, "cancelSending")
    /\ Trespass(w)
    /\ UNCHANGED <<leaseVars, imported, hand, snap, brokerVars>>

CommitCancel(w) ==
    /\ at[w] = "cancelClaimed"
    /\ row' = [row EXCEPT ![hand[w].order].status = "CANCEL_PENDING",
                          ![hand[w].order].armed = FALSE]
    /\ Goto(w, "cancelSending")
    /\ Trespass(w)
    /\ UNCHANGED <<leaseVars, imported, hand, snap, brokerVars>>

TransmitCancel(w) ==
    /\ at[w] = "cancelSending"
    /\ cancelWire' = [cancelWire EXCEPT ![hand[w].order] = "pending"]
    /\ cancels' = [cancels EXCEPT ![hand[w].order] = @ + 1]
    /\ Goto(w, "cancelAwaiting")
    /\ UNCHANGED <<leaseVars, rowVars, hand, snap, broker, wire, sends, intruded>>

CancelAnswer(w) ==
    /\ at[w] \in {"cancelSending", "cancelAwaiting"}
    /\ ReceiveAnswer(w, <<"cancelSending", "cancelAwaiting">>, "cancelFinishing",
                     cancelWire[hand[w].order])

\* _finish_cancel.  The session still holds the row as it was committed with
\* CANCEL_PENDING, so the FOR UPDATE select does not show what a projection of
\* another process wrote meanwhile.  An acknowledged cancel writes no row, and
\* the refresh that follows it shows the current status.  Any other answer
\* writes the row: its version number refuses the commit if the row has moved
\* on, and the exception leaves run() through its finally block.
FinishCancel(w) ==
    LET o == hand[w].order
        answer == hand[w].answer
        moved == row[o].status # "CANCEL_PENDING"
        status == IF answer = "ack" THEN row[o].status
                  ELSE IF answer = "rejected" THEN "RECONCILING" ELSE "UNKNOWN"
    IN  /\ at[w] = "cancelFinishing"
        /\ hand' = [hand EXCEPT ![w] = Empty]
        /\ \/ /\ answer # "ack" /\ moved
              /\ Goto(w, "ended")
              /\ GiveUp(w)
              /\ UNCHANGED <<row, intruded>>
           \/ /\ answer = "ack" \/ ~moved
              /\ row' = [row EXCEPT ![o].status = status]
              /\ gate' = IF answer = "ack" THEN gate ELSE "RECONCILING"
              /\ Goto(w, IF status \in {"UNKNOWN", "RECONCILING"} THEN "uncertain" ELSE "receive")
              /\ Trespass(w)
              /\ UNCHANGED <<lease, workerState, identity>>
        /\ UNCHANGED <<imported, snap, brokerVars>>

-----------------------------------------------------------------------------
(***************************************************************************)
(* The broker.  A request in flight is accepted, with a readable answer or *)
(* without, refused or lost; it may be decided after the sender has given  *)
(* up on it.  A cancel that was accepted takes effect later, and the owner *)
(* of the account or the exchange may close an order at any time.          *)
(***************************************************************************)
BrokerDecides(o, fate) ==
    /\ wire[o] = "pending"
    /\ wire' = [wire EXCEPT ![o] = fate]
    /\ broker' = IF fate \in Accepting THEN [broker EXCEPT ![o].state = "open"] ELSE broker
    /\ UNCHANGED <<leaseVars, rowVars, at, hand, snap, cancelWire, sends, cancels, intruded>>

BrokerDecidesCancel(o, fate) ==
    /\ cancelWire[o] = "pending"
    /\ fate \in Accepting => broker[o].state = "open"
    /\ cancelWire' = [cancelWire EXCEPT ![o] = fate]
    /\ UNCHANGED <<leaseVars, rowVars, at, hand, snap, broker, wire, sends, cancels, intruded>>

BrokerFills(o) ==
    /\ broker[o].state = "open"
    /\ LET filled == broker[o].filled + 1
       IN  broker' = [broker EXCEPT ![o] = [state |-> IF filled = Quantity THEN "filled" ELSE "open",
                                            filled |-> filled]]
    /\ UNCHANGED <<leaseVars, rowVars, at, hand, snap, wire, cancelWire, sends, cancels, intruded>>

BrokerCloses(o) ==
    /\ broker[o].state = "open"
    /\ broker' = [broker EXCEPT ![o].state = "cancelled"]
    /\ UNCHANGED <<leaseVars, rowVars, at, hand, snap, wire, cancelWire, sends, cancels, intruded>>

-----------------------------------------------------------------------------
(***************************************************************************)
(* Reconciliation: run_kiwoom_reconciliation                               *)
(***************************************************************************)
\* The first transaction closes the gate.  A CLI process starts here.
ReconcileBegin(p) ==
    /\ at[p] = IF p \in Clis THEN "idle" ELSE "recBegin"
    /\ gate' = "RECONCILING"
    /\ Goto(p, "recOpen")
    /\ Trespass(p)
    /\ UNCHANGED <<lease, workerState, identity, rowVars, hand, snap, brokerVars>>

OpenAtBroker == {o \in Orders : broker[o].state = "open"}

\* get_account_snapshot: open orders are read first, fills second.
ReadOpenOrders(p) ==
    /\ at[p] = "recOpen"
    /\ snap' = [snap EXCEPT ![p].listed = OpenAtBroker,
                            ![p].filledAtOpen = [o \in Orders |->
                                IF o \in OpenAtBroker THEN broker[o].filled ELSE 0]]
    /\ Goto(p, "recFills")
    /\ UNCHANGED <<leaseVars, rowVars, hand, brokerVars, intruded>>

ReadFills(p) ==
    /\ at[p] = "recFills"
    /\ snap' = [snap EXCEPT ![p].fills = [o \in Orders |-> broker[o].filled]]
    /\ Goto(p, "recProject")
    /\ UNCHANGED <<leaseVars, rowVars, hand, brokerVars, intruded>>

\* _apply_open_order and _import_open_order.  next_action_at is left alone.
OpenStatus(filled) == IF filled = 0 THEN "OPEN" ELSE "PARTIALLY_FILLED"
OpenProjected(r, filled) ==
    [r EXCEPT !.status = OpenStatus(filled), !.filled = filled, !.cancelled = 0,
              !.remaining = Quantity - filled, !.hasId = TRUE]

\* The loop over fill totals, for an order that is not listed.
FillProjected(r, total) ==
    IF total = Quantity
    THEN [r EXCEPT !.status = "FILLED", !.filled = total, !.cancelled = 0, !.remaining = 0,
                   !.armed = FALSE]
    ELSE [r EXCEPT !.status = "RECONCILING", !.filled = total, !.cancelled = 0,
                   !.remaining = Quantity - total]

\* Mutant of CancelProjected: a full fill during the cancel is not recognised.
CancelProjected_never_filled(r, total) ==
    [r EXCEPT !.status = "CANCELLED", !.filled = total, !.cancelled = Quantity - total,
              !.remaining = 0, !.armed = FALSE]

\* The loop over CANCEL_PENDING orders that are not listed.
ClosedStatus(total) == IF total = Quantity THEN "FILLED" ELSE "CANCELLED"
CancelProjected(r, total) ==
    [r EXCEPT !.status = ClosedStatus(total), !.filled = total, !.cancelled = Quantity - total,
              !.remaining = 0, !.armed = FALSE]

\* Mutant of Projected: an order that is not listed is taken as cancelled
\* before its fills are looked at.
Projected_ignores_fills(r, o, s) ==
    IF o \in s.listed THEN OpenProjected(r, s.filledAtOpen[o])
    ELSE IF r.status = "CANCEL_PENDING" THEN CancelProjected(r, r.filled)
    ELSE IF s.fills[o] > 0 THEN FillProjected(r, s.fills[o])
    ELSE r

\* apply_broker_account_projection for the row r that carries broker id o.  An
\* order without fills has no entry in fill_totals.
Projected(r, o, s) ==
    IF o \in s.listed THEN OpenProjected(r, s.filledAtOpen[o])
    ELSE IF r.status = "CANCEL_PENDING"
         THEN CancelProjected(r, IF s.fills[o] > 0 THEN s.fills[o] ELSE r.filled)
    ELSE IF s.fills[o] > 0 THEN FillProjected(r, s.fills[o])
    ELSE r

\* The rows after the projection: one row carries a broker id, Cresta's own if
\* it has learnt the id, otherwise an imported one, created when listed.
RowsAfter(s) ==
    [o \in Orders |-> IF row[o].hasId THEN Projected(row[o], o, s) ELSE row[o]]

ImportsAfter(s) ==
    [o \in Orders |-> IF ~row[o].hasId /\ (imported[o].hasId \/ o \in s.listed)
                      THEN Projected(imported[o], o, s) ELSE imported[o]]

\* Mutant of Mismatch: orders that never got an id are not compared.
Mismatch_skips_unidentified(o, r, s) ==
    \/ r.status \in Visible /\ r.hasId /\ o \notin s.listed
    \/ r.hasId /\ s.fills[o] > 0 /\ r.filled # s.fills[o]

\* compare_snapshot for one row, after the projection: a visible order that the
\* broker does not list, or fills that add up to another quantity.  A listed
\* order always equals its row, the projection has just written it.
Mismatch(o, r, s) ==
    \/ r.status \in Visible /\ (~r.hasId \/ o \notin s.listed)
    \/ r.hasId /\ s.fills[o] > 0 /\ r.filled # s.fills[o]

\* Projection and comparison are one transaction, which waits for row locks.
ReconcileCommit(p) ==
    LET s == snap[p]
        critical == \E o \in Orders :
                        \/ Mismatch(o, RowsAfter(s)[o], s)
                        \/ Mismatch(o, ImportsAfter(s)[o], s)
    IN  /\ at[p] = "recProject"
        /\ \A o \in Orders : Locked(o) => RowsAfter(s)[o] = row[o]
        /\ row' = RowsAfter(s)
        /\ imported' = ImportsAfter(s)
        /\ gate' = IF critical THEN "HALTED" ELSE "RECONCILING"
        /\ snap' = [snap EXCEPT ![p] = NoSnapshot]
        /\ Goto(p, IF p \in Clis THEN "idle" ELSE IF critical THEN "recCritical" ELSE "recClean")
        /\ Trespass(p)
        /\ UNCHANGED <<lease, workerState, identity, hand, brokerVars>>

\* A read or the projection fails: rollback and _mark_failed.
ReconcileFails(p) ==
    /\ at[p] \in {"recOpen", "recFills", "recProject"}
    /\ gate' = "DEGRADED"
    /\ snap' = [snap EXCEPT ![p] = NoSnapshot]
    /\ Goto(p, IF p \in Clis THEN "idle" ELSE "failed")
    /\ Trespass(p)
    /\ UNCHANGED <<lease, workerState, identity, rowVars, hand, brokerVars>>

-----------------------------------------------------------------------------
WorkerStep(w) ==
    \/ Acquire(w) \/ StartReconcile(w) \/ ApplyResult(w) \/ Reconnect(w) \/ NotReady(w)
    \/ \E o \in Orders : Claim(w, o) \/ ClaimCancel(w, o)
    \/ CommitSubmitting(w) \/ Transmit(w) \/ SendAnswer(w) \/ FinishSend(w)
    \/ CommitCancel(w) \/ TransmitCancel(w) \/ CancelAnswer(w) \/ FinishCancel(w)

ReconcileStep(p) ==
    \/ ReconcileBegin(p) \/ ReadOpenOrders(p) \/ ReadFills(p)
    \/ ReconcileCommit(p) \/ ReconcileFails(p)

BrokerStep(o) ==
    \/ \E fate \in Fates : BrokerDecides(o, fate) \/ BrokerDecidesCancel(o, fate)
    \/ BrokerFills(o) \/ BrokerCloses(o)

Next ==
    \/ \E w \in Workers : WorkerStep(w) \/ Crash(w)
    \/ \E p \in Procs : ReconcileStep(p)
    \/ \E o \in Orders : create_order(o) \/ BrokerStep(o)
    \/ Expire

Spec == Init /\ [][Next]_vars

-----------------------------------------------------------------------------
(***************************************************************************)
(* Safety                                                                  *)
(***************************************************************************)

\* A new-order request leaves the machine at most once per order, whatever
\* crashes, takeovers, late commits of superseded workers and reconciliations
\* happen (STM-005, STM-021, STM-025, KIW-131): SUBMITTING is committed under a
\* row lock before the request and no path leads back to CREATED.
SentAtMostOnce == \A o \in Orders : sends[o] <= 1

\* A cancel request leaves the machine at most once per order (STM-027,
\* STM-029), although a projection may put the order back to OPEN after it.
CancelledAtMostOnce == \A o \in Orders : cancels[o] <= 1

\* An order that is shown as REJECTED was not transmitted, or the broker
\* refused it, or it accepted it with an answer whose return_code is unclear:
\* never is it an order whose request timed out, is still on its way or was
\* lost, so no acceptance comes late (STM-020, STM-023).
RejectedStaysOut ==
    \A o \in Orders : row[o].status = "REJECTED" => wire[o] \in {"none", "refused", "garbled"}

\* STM-023 and ORD-035 allow REJECTED only after an explicit refusal, so that
\* the broker has no such order.  The adapter takes a missing or unclear
\* return_code for a refusal as well.
RejectedIsRefused ==
    \A o \in Orders : row[o].status = "REJECTED" => broker[o].state = "none"

\* The quantities of a row add up and fit its status (STM-030 to STM-033, the
\* CHECK constraint of the orders table), a row that may be cancelled knows its
\* broker order, and no broker order is carried by two rows.
ConsistentRow(r) ==
    /\ r.status # "ABSENT" => r.filled + r.cancelled + r.remaining = Quantity
    /\ r.status = "OPEN" => r.filled = 0 /\ r.remaining > 0
    /\ r.status = "PARTIALLY_FILLED" => r.filled > 0 /\ r.remaining > 0
    /\ r.status = "FILLED" => r.filled = Quantity
    /\ r.status = "CANCELLED" => r.cancelled > 0 /\ r.remaining = 0
    /\ r.status \in Cancellable \cup {"CANCEL_PENDING", "FILLED", "CANCELLED"} => r.hasId

RowsAreConsistent ==
    \A o \in Orders :
        /\ ConsistentRow(row[o]) /\ ConsistentRow(imported[o])
        /\ ~(row[o].hasId /\ imported[o].hasId)

\* FILLED is only shown of an order that the broker filled.  As long as no
\* process wrote without a lease, CANCELLED is only shown of an order that the
\* broker closed, with the quantity the broker filled, although the open
\* orders and the fills are read one after the other (STM-010, STM-011).
ClosedRowsMatchBroker ==
    \A o \in Orders :
        /\ "FILLED" \in {row[o].status, imported[o].status} => broker[o].state = "filled"
        /\ row[o].status = "CANCELLED" /\ ~intruded =>
               broker[o] = [state |-> "cancelled", filled |-> row[o].filled]

\* As long as no process wrote without a lease, a worker that may send its next
\* order has no order of uncertain outcome (STM-022, KIW-133): every
\* way into UNKNOWN, RECONCILING or an abandoned SUBMITTING closes the gate
\* until a reconciliation has settled it.
CertainWhenReady ==
    ~intruded =>
        \A w \in Workers, o \in Orders :
            at[w] = "receive" /\ WorkerReady(w) =>
                /\ row[o].status \notin {"SUBMITTING", "UNKNOWN", "RECONCILING"}
                /\ imported[o].status # "RECONCILING"
=============================================================================
