------------------------ MODULE OrderDispatchProofs ------------------------
(***************************************************************************)
(* Proofs about the order sender for any number of workers, command-line   *)
(* runs and orders and any quantity.                                       *)
(***************************************************************************)
EXTENDS OrderDispatch, TLAPS

\* Every step on the rows keeps their types.
LEMMA LeaseTypeStep ==
    ASSUME LeaseTypeOK, [LeaseNext]_leaseVars
    PROVE  LeaseTypeOK'
<1>1. ASSUME NEW w \in Workers, acquire_lease(w)
      PROVE  LeaseTypeOK'
  BY <1>1 DEF acquire_lease, LeaseTypeOK
<1>2. ASSUME NEW w \in Workers, FencedWrite(w)
      PROVE  LeaseTypeOK'
  BY <1>2 DEF FencedWrite, WriteWorkerState, LeaseTypeOK
<1>3. ASSUME NEW w \in Workers, release_lease(w)
      PROVE  LeaseTypeOK'
  <2>1. CASE ~OwnsLeaseRow(w)
    BY <1>3, <2>1 DEF release_lease, LeaseTypeOK, leaseVars
  <2>2. CASE OwnsLeaseRow(w)
    <3>1. workerState' \in {workerState,
                            [workerState EXCEPT !.state = "STOPPED", !.connected = FALSE]}
      BY <1>3, <2>2 DEF release_lease
    <3>2. workerState' \in [state : WorkerStateNames, token : Nat, connected : BOOLEAN]
      BY <3>1 DEF LeaseTypeOK, WorkerStateNames
    <3>3. QED
      BY <1>3, <2>2, <3>2 DEF release_lease, LeaseTypeOK
  <2>3. QED
    BY <2>1, <2>2
<1>4. CASE ExpireLease
  BY <1>4 DEF ExpireLease, LeaseTypeOK
<1>5. CASE CloseGate
  BY <1>5 DEF CloseGate, LeaseTypeOK
<1>6. CASE UNCHANGED leaseVars
  BY <1>6 DEF leaseVars, LeaseTypeOK
<1>7. QED
  BY <1>1, <1>2, <1>3, <1>4, <1>5, <1>6 DEF LeaseNext


\* Every step of the sender and of a reconciliation is a step of LeaseSpec or
\* leaves its rows alone.
LEMMA StepRefines ==
    ASSUME LeaseTypeOK, [Next]_vars
    PROVE  [LeaseNext]_leaseVars
<1> USE DEF WorkerStateNames, GateStatuses
<1>1. ASSUME NEW w \in Workers, NEW stateName \in WorkerStateNames, NEW connected \in BOOLEAN,
             NEW newGate \in GateStatuses,
             \/ lease_is_current(w) /\ WriteWorkerState(w, stateName, connected, newGate)
             \/ update_worker_state(w, stateName, connected, newGate)
      PROVE  [LeaseNext]_leaseVars
  BY <1>1 DEF update_worker_state, LeaseNext, FencedWrite
<1>2. ASSUME gate' \in GateStatuses \ {"READY"} \/ gate' = gate,
             UNCHANGED <<lease, workerState, identity>>
      PROVE  [LeaseNext]_leaseVars
  BY <1>2 DEF LeaseNext, CloseGate, leaseVars
<1>3. ASSUME NEW w \in Workers, WorkerStep(w)
      PROVE  [LeaseNext]_leaseVars
  <2>1. CASE Acquire(w)
    BY <2>1 DEF Acquire, LeaseNext
  <2>2. CASE StartReconcile(w)
    BY <2>2, <1>1 DEF StartReconcile
  <2>3. CASE ApplyResult(w)
    BY <2>3, <1>1 DEF ApplyResult, LeaseTypeOK
  <2>4. CASE Reconnect(w)
    BY <2>4, <1>1 DEF Reconnect
  <2>5. CASE NotReady(w) \/ CommitSubmitting(w) \/ Transmit(w) \/ CommitCancel(w)
             \/ TransmitCancel(w) \/ \E o \in Orders : Claim(w, o) \/ ClaimCancel(w, o)
    BY <2>5 DEF NotReady, CommitSubmitting, Transmit, CommitCancel, TransmitCancel, Claim,
       ClaimCancel
  <2>6. CASE SendAnswer(w) \/ CancelAnswer(w)
    BY <2>6 DEF SendAnswer, CancelAnswer, ReceiveAnswer
  <2>7. CASE FinishSend(w)
    BY <2>7, <1>1, <1>2 DEF FinishSend, GiveUp
  <2>8. CASE FinishCancel(w)
    BY <2>8, <1>1, <1>2 DEF FinishCancel, GiveUp
  <2>9. QED
    BY <1>3, <2>1, <2>2, <2>3, <2>4, <2>5, <2>6, <2>7, <2>8 DEF WorkerStep
<1>4. ASSUME NEW p \in Procs, ReconcileStep(p)
      PROVE  [LeaseNext]_leaseVars
  <2>1. CASE ReconcileBegin(p)
    BY <2>1, <1>2 DEF ReconcileBegin
  <2>2. CASE ReadOpenOrders(p) \/ ReadFills(p)
    BY <2>2 DEF ReadOpenOrders, ReadFills
  <2>3. CASE ReconcileCommit(p)
    BY <2>3, <1>2 DEF ReconcileCommit
  <2>4. CASE ReconcileFails(p)
    BY <2>4, <1>2 DEF ReconcileFails
  <2>5. QED
    BY <1>4, <2>1, <2>2, <2>3, <2>4 DEF ReconcileStep
<1>5. ASSUME NEW o \in Orders, create_order(o) \/ BrokerStep(o)
      PROVE  [LeaseNext]_leaseVars
  BY <1>5 DEF create_order, BrokerStep, BrokerDecides, BrokerDecidesCancel, BrokerFills,
     BrokerCloses
<1>6. ASSUME NEW w \in Workers, Crash(w)
      PROVE  [LeaseNext]_leaseVars
  BY <1>6 DEF Crash
<1>7. CASE Expire \/ UNCHANGED vars
  BY <1>7 DEF Expire, LeaseNext, vars
<1>8. QED
  BY <1>3, <1>4, <1>5, <1>6, <1>7 DEF Next

\* Sending, cancelling and reconciling treat the lease, state and gate rows as
\* LeaseSpec allows.
THEOREM DispatchImplementsLease == Spec => LeaseSpec
<1>1. Init => LeaseInit
  BY DEF Init
<1>2. LeaseInit => LeaseTypeOK
  BY DEF LeaseInit, LeaseTypeOK, WorkerStateNames, GateStatuses
<1>3. LeaseTypeOK /\ [Next]_vars => [LeaseNext]_leaseVars
  BY StepRefines
<1>4. LeaseTypeOK /\ [LeaseNext]_leaseVars => LeaseTypeOK'
  BY LeaseTypeStep
<1>5. QED
  BY <1>1, <1>2, <1>3, <1>4, PTL DEF Spec, LeaseSpec

-----------------------------------------------------------------------------
(***************************************************************************)
(* The inductive invariant of the sender.                                  *)
(***************************************************************************)
SendPlaces == {"sending", "awaiting", "finishing"}
CancelPlaces == {"cancelSending", "cancelAwaiting", "cancelFinishing"}
Unsent == {"ABSENT", "CREATED"}
Early == Unsent \cup {"SUBMITTING"}

\* An order before its SUBMITTING commit was never transmitted, an order that
\* was never answered carries no broker id, and the broker only knows what was
\* transmitted.
OrderOK(o) ==
    /\ sends[o] <= 1
    /\ row[o].status \in Unsent => sends[o] = 0
    /\ row[o].status \in Early => ~row[o].hasId
    /\ sends[o] = 0 => wire[o] = "none"
    /\ wire[o] \in {"none", "pending"} => broker[o] = [state |-> "none", filled |-> 0]
    /\ broker[o].state = "open" => broker[o].filled < Quantity

\* A worker in the middle of a send holds an order whose row still waits for
\* the worker's next commit, and has not transmitted before Transmit.
SenderOK(w) ==
    /\ at[w] = "claimed" => hand[w].order \in Orders /\ row[hand[w].order].status = "CREATED"
    /\ at[w] \in SendPlaces =>
           hand[w].order \in Orders /\ row[hand[w].order].status = "SUBMITTING"
    /\ at[w] = "sending" => sends[hand[w].order] = 0
    /\ at[w] = "finishing" => hand[w].answer # "none"

\* No two workers are in the middle of sending the same order.
SendersApart(v, w) ==
    {at[v], at[w]} \subseteq SendPlaces \cup {"claimed"} => hand[v].order # hand[w].order

SendInv ==
    /\ \A o \in Orders : OrderOK(o)
    /\ \A w \in Workers : SenderOK(w)
    /\ \A v, w \in Workers : v # w => SendersApart(v, w)

\* The same for a cancel: next_action_at is set when the order is acknowledged,
\* cleared with the CANCEL_PENDING commit, and never set again.
CancelOK(o) ==
    /\ cancels[o] <= 1
    /\ row[o].status \in Early => cancels[o] = 0
    /\ row[o].armed => cancels[o] = 0

CancellerOK(w) ==
    /\ at[w] \in CancelPlaces \cup {"cancelClaimed"} =>
           /\ hand[w].order \in Orders
           /\ row[hand[w].order].status \notin Early
    /\ at[w] = "cancelClaimed" => row[hand[w].order].armed
    /\ at[w] \in CancelPlaces => ~row[hand[w].order].armed
    /\ at[w] = "cancelSending" => cancels[hand[w].order] = 0
    /\ at[w] = "cancelFinishing" => hand[w].answer # "none"

CancellersApart(v, w) ==
    {at[v], at[w]} \subseteq CancelPlaces \cup {"cancelClaimed"} => hand[v].order # hand[w].order

CancelInv ==
    /\ \A o \in Orders : CancelOK(o)
    /\ \A w \in Workers : CancellerOK(w)
    /\ \A v, w \in Workers : v # w => CancellersApart(v, w)

\* A step that moves no worker into the middle of a send, and no row into or
\* out of the statuses before an answer, keeps the invariant of the sender.
LEMMA QuietSend ==
    ASSUME SendInv, UNCHANGED <<sends, wire, broker>>,
           \A o \in Orders : row'[o] = row[o] \/ {row[o].status, row'[o].status} \cap Early = {},
           \A w \in Workers : \/ at'[w] = at[w] /\ hand'[w] = hand[w]
                             \/ at'[w] \notin SendPlaces \cup {"claimed"}
    PROVE  SendInv'
<1>1. ASSUME NEW o \in Orders
      PROVE  OrderOK(o)'
  BY <1>1 DEF SendInv, OrderOK, Early, Unsent
<1>2. ASSUME NEW w \in Workers
      PROVE  SenderOK(w)'
  BY <1>2 DEF SendInv, SenderOK, SendPlaces, Early, Unsent
<1>3. ASSUME NEW v \in Workers, NEW w \in Workers, v # w
      PROVE  SendersApart(v, w)'
  BY <1>3 DEF SendInv, SendersApart
<1>4. QED
  BY <1>1, <1>2, <1>3 DEF SendInv

\* What the projection of a snapshot makes of a row.
LEMMA ProjectedRow ==
    ASSUME NEW r \in Row, NEW o \in Orders, NEW s \in Snapshot
    PROVE  /\ Projected(r, o, s) \in Row
           /\ Projected(r, o, s).status \in {r.status, "OPEN", "PARTIALLY_FILLED", "FILLED",
                                             "CANCELLED", "RECONCILING"}
           /\ Projected(r, o, s).armed => r.armed
<1>0. 0 \in 0..Quantity /\ r.filled \in 0..Quantity
  BY DispatchAssumption DEF Row
<1>1. ASSUME NEW filled \in 0..Quantity
      PROVE  /\ OpenProjected(r, filled) \in Row
             /\ OpenProjected(r, filled).status \in {"OPEN", "PARTIALLY_FILLED"}
             /\ OpenProjected(r, filled).armed = r.armed
  <2>1. OpenStatus(filled) \in Statuses /\ OpenStatus(filled) \in {"OPEN", "PARTIALLY_FILLED"}
    BY DEF OpenStatus, Statuses
  <2>2. Quantity - filled \in 0..Quantity
    BY DispatchAssumption
  <2>3. QED
    BY <1>0, <2>1, <2>2 DEF OpenProjected, Row
<1>2. ASSUME NEW total \in 0..Quantity
      PROVE  /\ FillProjected(r, total) \in Row
             /\ FillProjected(r, total).status \in {"FILLED", "RECONCILING"}
             /\ FillProjected(r, total).armed => r.armed
  <2>1. "FILLED" \in Statuses /\ "RECONCILING" \in Statuses
    BY DEF Statuses
  <2>2. Quantity - total \in 0..Quantity
    BY DispatchAssumption
  <2>3. QED
    BY <1>0, <2>1, <2>2 DEF FillProjected, Row
<1>3. ASSUME NEW total \in 0..Quantity
      PROVE  /\ CancelProjected(r, total) \in Row
             /\ CancelProjected(r, total).status \in {"FILLED", "CANCELLED"}
             /\ ~CancelProjected(r, total).armed
  <2>1. ClosedStatus(total) \in Statuses /\ ClosedStatus(total) \in {"FILLED", "CANCELLED"}
    BY DEF ClosedStatus, Statuses
  <2>2. Quantity - total \in 0..Quantity
    BY DispatchAssumption
  <2>3. QED
    BY <1>0, <2>1, <2>2 DEF CancelProjected, Row
<1>4. s.filledAtOpen[o] \in 0..Quantity /\ s.fills[o] \in 0..Quantity
  BY DEF Snapshot
<1>5. QED
  BY <1>0, <1>1, <1>2, <1>3, <1>4 DEF Projected

\* The rows of Cresta's own orders after a reconciliation.
LEMMA ReconciledRow ==
    ASSUME TypeOK, NEW o \in Orders, NEW s \in Snapshot
    PROVE  /\ RowsAfter(s)[o] \in Row
           /\ ~row[o].hasId => RowsAfter(s)[o] = row[o]
           /\ RowsAfter(s)[o].status \in {row[o].status, "OPEN", "PARTIALLY_FILLED", "FILLED",
                                          "CANCELLED", "RECONCILING"}
           /\ RowsAfter(s)[o].armed => row[o].armed
<1>1. row[o] \in Row
  BY DEF TypeOK
<1>2. RowsAfter(s)[o] = IF row[o].hasId THEN Projected(row[o], o, s) ELSE row[o]
  BY DEF RowsAfter
<1>3. QED
  BY <1>1, <1>2, ProjectedRow

\* Every step keeps the invariant of the sender.
LEMMA SendStep ==
    ASSUME TypeOK, SendInv, CancelInv, [Next]_vars
    PROVE  SendInv'
<1>0. /\ row \in [Orders -> Row]
      /\ hand \in [Workers -> [order : Orders \cup {0}, answer : Answers]]
      /\ sends \in [Orders -> Nat]
      /\ at \in [Procs -> Places]
      /\ Workers \subseteq Procs
  BY DEF TypeOK, Procs
<1>1. ASSUME NEW w \in Workers, WorkerStep(w) \/ Crash(w)
      PROVE  SendInv'
  <2>1. CASE Acquire(w) \/ StartReconcile(w) \/ ApplyResult(w) \/ Reconnect(w) \/ NotReady(w)
             \/ Crash(w)
    <3>1. \A v \in Workers : \/ at'[v] = at[v] /\ hand'[v] = hand[v]
                             \/ at'[v] \notin SendPlaces \cup {"claimed"}
      BY <1>0, <2>1 DEF Acquire, StartReconcile, ApplyResult, Reconnect, NotReady, Crash,
         Goto, SendPlaces
    <3>2. QED
      BY <2>1, <3>1, QuietSend DEF Acquire, StartReconcile, ApplyResult, Reconnect, NotReady, Crash,
         rowVars, brokerVars
  <2>2. ASSUME NEW o \in Orders, ClaimCancel(w, o)
        PROVE  SendInv'
    <3>1. \A v \in Workers : \/ at'[v] = at[v] /\ hand'[v] = hand[v]
                             \/ at'[v] \notin SendPlaces \cup {"claimed"}
      BY <1>0, <2>2 DEF ClaimCancel, Goto, SendPlaces
    <3>2. QED
      BY <2>2, <3>1, QuietSend DEF ClaimCancel, rowVars, brokerVars
  <2>3. CASE CommitCancel(w) \/ TransmitCancel(w) \/ CancelAnswer(w) \/ FinishCancel(w)
    <3>1. \A v \in Workers : \/ at'[v] = at[v] /\ hand'[v] = hand[v]
                             \/ at'[v] \notin SendPlaces \cup {"claimed"}
      <4>1. CASE CommitCancel(w) \/ TransmitCancel(w)
        BY <1>0, <4>1 DEF CommitCancel, TransmitCancel, Goto, SendPlaces
      <4>2. CASE CancelAnswer(w)
        BY <1>0, <4>2 DEF CancelAnswer, ReceiveAnswer, Goto, SendPlaces
      <4>3. CASE FinishCancel(w)
        <5>1. PICK place \in {"ended", "uncertain", "receive"} : at' = [at EXCEPT ![w] = place]
          BY <4>3 DEF FinishCancel, Goto
        <5>2. QED
          BY <1>0, <4>3, <5>1 DEF FinishCancel, SendPlaces
      <4>4. QED
        BY <2>3, <4>1, <4>2, <4>3
    <3>2. hand[w].order \in Orders /\ row[hand[w].order].status \notin Early
      BY <2>3 DEF CancelInv, CancellerOK, CancelPlaces, CommitCancel, TransmitCancel, CancelAnswer,
         FinishCancel
    <3>3. \A o \in Orders : row'[o] = row[o] \/ {row[o].status, row'[o].status} \cap Early = {}
      <4>1. CASE CommitCancel(w)
        BY <1>0, <3>2, <4>1 DEF CommitCancel, Early, Unsent, Row
      <4>2. CASE FinishCancel(w)
        BY <1>0, <3>2, <4>2 DEF FinishCancel, Early, Unsent, Row, CancelInv, CancellerOK, Answers
      <4>3. CASE TransmitCancel(w) \/ CancelAnswer(w)
        BY <4>3 DEF TransmitCancel, CancelAnswer, ReceiveAnswer, rowVars
      <4>4. QED
        BY <2>3, <4>1, <4>2, <4>3
    <3>4. UNCHANGED <<sends, wire, broker>>
      BY <2>3 DEF CommitCancel, TransmitCancel, CancelAnswer, ReceiveAnswer, FinishCancel, brokerVars
    <3>5. QED
      BY <3>1, <3>3, <3>4, QuietSend
  <2>4. ASSUME NEW o \in Orders, Claim(w, o)
        PROVE  SendInv'
    <3>1. /\ row[o].status = "CREATED" /\ ~Locked(o) /\ at[w] = "receive"
          /\ UNCHANGED <<row, sends, wire, broker>>
      BY <2>4 DEF Claim, NextCreated, rowVars, brokerVars
    <3>2. /\ \A v \in Workers : at'[v] = IF v = w THEN "claimed" ELSE at[v]
          /\ hand' = [hand EXCEPT ![w] = [order |-> o, answer |-> "none"]]
      BY <1>0, <2>4 DEF Claim, Goto
    <3>3. \A u \in Orders : OrderOK(u)'
      BY <3>1 DEF SendInv, OrderOK
    <3>4. \A v \in Workers : SenderOK(v)'
      BY <1>0, <3>1, <3>2 DEF SendInv, SenderOK, SendPlaces
    <3>5. \A v \in Workers : v # w /\ at[v] \in SendPlaces \cup {"claimed"} => hand[v].order # o
      BY <3>1 DEF SendInv, SenderOK, Locked, SendPlaces
    <3>6. \A u, v \in Workers : u # v => SendersApart(u, v)'
      BY <1>0, <3>2, <3>5 DEF SendInv, SendersApart
    <3>7. QED
      BY <3>3, <3>4, <3>6 DEF SendInv
  <2>5. CASE CommitSubmitting(w)
    <3>1. /\ at[w] = "claimed" /\ hand[w].order \in Orders
          /\ row[hand[w].order].status = "CREATED"
          /\ UNCHANGED <<hand, sends, wire, broker>>
          /\ \A v \in Workers : at'[v] = IF v = w THEN "sending" ELSE at[v]
      BY <1>0, <2>5 DEF CommitSubmitting, Goto, brokerVars, SendInv, SenderOK
    <3>2. \A o \in Orders : o # hand[w].order => row'[o] = row[o]
      BY <1>0, <2>5 DEF CommitSubmitting
    <3>3. row'[hand[w].order] = [row[hand[w].order] EXCEPT !.status = "SUBMITTING"]
      BY <1>0, <2>5, <3>1 DEF CommitSubmitting
    <3>4. /\ row'[hand[w].order].status = "SUBMITTING"
          /\ row'[hand[w].order].hasId = row[hand[w].order].hasId
      BY <1>0, <3>1, <3>3 DEF Row
    <3>5. sends[hand[w].order] = 0 /\ ~row[hand[w].order].hasId
      BY <3>1 DEF SendInv, OrderOK, Unsent, Early
    <3>6. \A o \in Orders : OrderOK(o)'
      BY <3>1, <3>2, <3>4, <3>5 DEF SendInv, OrderOK, Unsent, Early
    <3>7. \A v \in Workers : v # w /\ at[v] \in SendPlaces \cup {"claimed"} =>
              hand[v].order # hand[w].order
      BY <3>1 DEF SendInv, SendersApart, SendPlaces
    <3>8. \A v \in Workers : SenderOK(v)'
      BY <3>1, <3>2, <3>4, <3>5, <3>7 DEF SendInv, SenderOK, SendPlaces
    <3>9. \A u, v \in Workers : u # v => SendersApart(u, v)'
      BY <3>1 DEF SendInv, SendersApart, SendPlaces
    <3>10. QED
      BY <3>6, <3>8, <3>9 DEF SendInv
  <2>6. CASE Transmit(w)
    <3>1. /\ at[w] = "sending" /\ hand[w].order \in Orders
          /\ row[hand[w].order].status = "SUBMITTING" /\ sends[hand[w].order] = 0
          /\ UNCHANGED <<hand, row, broker>>
          /\ \A v \in Workers : at'[v] = IF v = w THEN "awaiting" ELSE at[v]
      BY <1>0, <2>6 DEF Transmit, Goto, rowVars, SendInv, SenderOK, SendPlaces
    <3>2. wire \in [Orders -> Fates \cup {"none", "pending"}]
      BY DEF TypeOK
    <3>3. /\ \A o \in Orders : o # hand[w].order => sends'[o] = sends[o] /\ wire'[o] = wire[o]
          /\ sends'[hand[w].order] = 1 /\ wire'[hand[w].order] = "pending"
      BY <1>0, <2>6, <3>1, <3>2 DEF Transmit
    <3>4. wire[hand[w].order] = "none"
      BY <3>1 DEF SendInv, OrderOK
    <3>5. \A o \in Orders : OrderOK(o)'
      BY <3>1, <3>3, <3>4 DEF SendInv, OrderOK, Unsent, Early
    <3>6. \A v \in Workers : v # w /\ at[v] \in SendPlaces \cup {"claimed"} =>
              hand[v].order # hand[w].order
      BY <3>1 DEF SendInv, SendersApart, SendPlaces
    <3>7. \A v \in Workers : SenderOK(v)'
      BY <3>1, <3>3, <3>6 DEF SendInv, SenderOK, SendPlaces
    <3>8. \A u, v \in Workers : u # v => SendersApart(u, v)'
      BY <3>1 DEF SendInv, SendersApart, SendPlaces
    <3>9. QED
      BY <3>5, <3>7, <3>8 DEF SendInv
  <2>7. CASE SendAnswer(w)
    <3>1. UNCHANGED <<row, sends, wire, broker>>
      BY <2>7 DEF SendAnswer, ReceiveAnswer, rowVars, brokerVars
    <3>2. CASE at'[w] # "finishing"
      <4>1. \A v \in Workers : \/ at'[v] = at[v] /\ hand'[v] = hand[v]
                               \/ at'[v] \notin SendPlaces \cup {"claimed"}
        BY <1>0, <2>7, <3>2 DEF SendAnswer, ReceiveAnswer, Goto, SendPlaces
      <4>2. QED
        BY <3>1, <4>1, QuietSend
    <3>3. CASE at'[w] = "finishing"
      <4>1. /\ at[w] \in SendPlaces
            /\ \A v \in Workers : v # w => at'[v] = at[v] /\ hand'[v] = hand[v]
        BY <1>0, <2>7 DEF SendAnswer, ReceiveAnswer, Goto, SendPlaces
      <4>2. hand'[w].order = hand[w].order /\ hand'[w].answer # "none"
        BY <1>0, <2>7, <3>3 DEF SendAnswer, ReceiveAnswer, Goto, AnswersTo
      <4>3. \A o \in Orders : OrderOK(o)'
        BY <3>1 DEF SendInv, OrderOK
      <4>4. \A v \in Workers : SenderOK(v)'
        BY <3>1, <3>3, <4>1, <4>2 DEF SendInv, SenderOK, SendPlaces
      <4>5. \A u, v \in Workers : u # v => SendersApart(u, v)'
        BY <3>3, <4>1, <4>2 DEF SendInv, SendersApart, SendPlaces
      <4>6. QED
        BY <4>3, <4>4, <4>5 DEF SendInv
    <3>4. QED
      BY <3>2, <3>3
  <2>8. CASE FinishSend(w)
    <3>1. /\ at[w] = "finishing" /\ hand[w].order \in Orders
          /\ row[hand[w].order].status = "SUBMITTING" /\ hand[w].answer \in {"ack", "rejected", "unknown"}
          /\ UNCHANGED <<sends, wire, broker>>
      BY <1>0, <2>8 DEF FinishSend, brokerVars, SendInv, SenderOK, SendPlaces, Answers
    <3>2. \A v \in Workers :
              /\ v # w => at'[v] = at[v] /\ hand'[v] = hand[v]
              /\ at'[w] \notin SendPlaces \cup {"claimed"}
      <4>1. PICK place \in {"ended", "uncertain", "receive"} : at' = [at EXCEPT ![w] = place]
        BY <2>8 DEF FinishSend, Goto
      <4>2. QED
        BY <1>0, <2>8, <4>1 DEF FinishSend, SendPlaces
    <3>3. \A o \in Orders : o # hand[w].order => row'[o] = row[o]
      BY <1>0, <2>8 DEF FinishSend
    <3>4. row'[hand[w].order] = row[hand[w].order] \/ row'[hand[w].order].status \notin Early
      <4>1. CASE row' = row
        BY <4>1
      <4>2. CASE row' # row
        <5>1. row' = [row EXCEPT ![hand[w].order] = Answered(hand[w].order, hand[w].answer)]
          BY <2>8, <4>2 DEF FinishSend
        <5>2. Answered(hand[w].order, hand[w].answer).status \notin Early
          BY <1>0, <3>1 DEF Answered, Early, Unsent, Row
        <5>3. QED
          BY <1>0, <3>1, <5>1, <5>2
      <4>3. QED
        BY <4>1, <4>2
    <3>5. \A o \in Orders : OrderOK(o)'
      BY <3>1, <3>3, <3>4 DEF SendInv, OrderOK, Unsent, Early
    <3>6. \A v \in Workers : v # w /\ at[v] \in SendPlaces \cup {"claimed"} =>
              hand[v].order # hand[w].order
      BY <3>1 DEF SendInv, SendersApart, SendPlaces
    <3>7. \A v \in Workers : SenderOK(v)'
      BY <3>1, <3>2, <3>3, <3>6 DEF SendInv, SenderOK, SendPlaces
    <3>8. \A u, v \in Workers : u # v => SendersApart(u, v)'
      BY <3>2 DEF SendInv, SendersApart
    <3>9. QED
      BY <3>5, <3>7, <3>8 DEF SendInv
  <2>9. QED
    BY <1>1, <2>1, <2>2, <2>3, <2>4, <2>5, <2>6, <2>7, <2>8 DEF WorkerStep
<1>2. ASSUME NEW p \in Procs, ReconcileStep(p)
      PROVE  SendInv'
  <2>1. \A v \in Workers : \/ at'[v] = at[v] /\ hand'[v] = hand[v]
                           \/ at'[v] \notin SendPlaces \cup {"claimed"}
    BY <1>0, <1>2 DEF ReconcileStep, ReconcileBegin, ReadOpenOrders, ReadFills, ReconcileCommit,
       ReconcileFails, Goto, SendPlaces
  <2>2. UNCHANGED <<sends, wire, broker>>
    BY <1>2 DEF ReconcileStep, ReconcileBegin, ReadOpenOrders, ReadFills, ReconcileCommit,
       ReconcileFails, brokerVars
  <2>3. \A o \in Orders : row'[o] = row[o] \/ {row[o].status, row'[o].status} \cap Early = {}
    <3>1. CASE ReconcileCommit(p)
      <4>1. snap[p] \in Snapshot /\ row' = RowsAfter(snap[p])
        BY <3>1 DEF ReconcileCommit, TypeOK
      <4>2. QED
        BY <4>1, ReconciledRow DEF SendInv, OrderOK, Early, Unsent
    <3>2. CASE ~ReconcileCommit(p)
      BY <1>2, <3>2 DEF ReconcileStep, ReconcileBegin, ReadOpenOrders, ReadFills, ReconcileFails,
         rowVars
    <3>3. QED
      BY <3>1, <3>2
  <2>4. QED
    BY <2>1, <2>2, <2>3, QuietSend
<1>3. ASSUME NEW o \in Orders, create_order(o)
      PROVE  SendInv'
  <2>1. /\ row[o].status = "ABSENT"
        /\ row'[o] = [NoRow EXCEPT !.status = "CREATED", !.remaining = Quantity]
        /\ \A u \in Orders : u # o => row'[u] = row[u]
        /\ UNCHANGED <<at, hand, sends, wire, broker>>
    BY <1>0, <1>3 DEF create_order, brokerVars
  <2>2. row'[o].status = "CREATED" /\ ~row'[o].hasId
    BY <2>1 DEF NoRow
  <2>3. \A u \in Orders : OrderOK(u)'
    BY <2>1, <2>2 DEF SendInv, OrderOK, Early, Unsent
  <2>4. \A v \in Workers : SenderOK(v)'
    BY <2>1 DEF SendInv, SenderOK, SendPlaces
  <2>5. QED
    BY <2>1, <2>3, <2>4 DEF SendInv, SendersApart
<1>4. ASSUME NEW o \in Orders, BrokerStep(o)
      PROVE  SendInv'
  <2>1. /\ UNCHANGED <<row, at, hand, sends>>
        /\ broker \in [Orders -> [state : {"none", "open", "filled", "cancelled"}, filled : 0..Quantity]]
        /\ wire \in [Orders -> Fates \cup {"none", "pending"}]
    BY <1>4 DEF BrokerStep, BrokerDecides, BrokerDecidesCancel, BrokerFills, BrokerCloses, rowVars,
       TypeOK
  <2>2. \A u \in Orders : u # o => wire'[u] = wire[u] /\ broker'[u] = broker[u]
    BY <1>4, <2>1 DEF BrokerStep, BrokerDecides, BrokerDecidesCancel, BrokerFills, BrokerCloses
  <2>3. /\ sends[o] = 0 => wire'[o] = "none"
        /\ wire'[o] \in {"none", "pending"} => broker'[o] = [state |-> "none", filled |-> 0]
        /\ broker'[o].state = "open" => broker'[o].filled < Quantity
    <3>0. OrderOK(o)
      BY DEF SendInv
    <3>1. ASSUME NEW fate \in Fates, BrokerDecides(o, fate)
          PROVE  <2>3!1 /\ <2>3!2 /\ <2>3!3
      BY <2>1, <3>0, <3>1, DispatchAssumption DEF BrokerDecides, OrderOK, Fates
    <3>2. ASSUME NEW fate \in Fates, BrokerDecidesCancel(o, fate)
          PROVE  <2>3!1 /\ <2>3!2 /\ <2>3!3
      BY <3>0, <3>2 DEF BrokerDecidesCancel, OrderOK
    <3>3. CASE BrokerFills(o)
      BY <2>1, <3>0, <3>3, DispatchAssumption DEF BrokerFills, OrderOK
    <3>4. CASE BrokerCloses(o)
      BY <2>1, <3>0, <3>4 DEF BrokerCloses, OrderOK
    <3>5. QED
      BY <1>4, <3>1, <3>2, <3>3, <3>4 DEF BrokerStep
  <2>4. \A u \in Orders : OrderOK(u)'
    BY <2>1, <2>2, <2>3 DEF SendInv, OrderOK
  <2>5. QED
    BY <2>1, <2>4 DEF SendInv, SenderOK, SendersApart
<1>5. CASE Expire \/ UNCHANGED vars
  BY <1>5, QuietSend DEF Expire, vars, rowVars, brokerVars
<1>6. QED
  BY <1>1, <1>2, <1>3, <1>4, <1>5 DEF Next

\* What a step may do to a row without touching a cancel in progress: nothing,
\* anything before the order is acknowledged, keep next_action_at, or clear it
\* while no worker has locked the row.
RowCalm(o) ==
    \/ row'[o] = row[o]
    \/ row[o].status \in Early
    \/ row'[o].status \notin Early /\ row'[o].armed = row[o].armed
    \/ row'[o].status \notin Early /\ ~row'[o].armed /\ ~Locked(o)

LEMMA QuietCancel ==
    ASSUME CancelInv, cancels' = cancels,
           \A o \in Orders : RowCalm(o),
           \A w \in Workers : \/ at'[w] = at[w] /\ hand'[w] = hand[w]
                             \/ at'[w] \notin CancelPlaces \cup {"cancelClaimed"}
    PROVE  CancelInv'
<1>1. ASSUME NEW o \in Orders
      PROVE  CancelOK(o)'
  BY <1>1 DEF CancelInv, CancelOK, RowCalm
<1>2. ASSUME NEW w \in Workers
      PROVE  CancellerOK(w)'
  <2>1. CASE at'[w] \notin CancelPlaces \cup {"cancelClaimed"}
    BY <2>1 DEF CancellerOK, CancelPlaces
  <2>2. CASE at'[w] = at[w] /\ hand'[w] = hand[w] /\ at[w] \in CancelPlaces \cup {"cancelClaimed"}
    <3>1. CancellerOK(w) /\ hand[w].order \in Orders
      BY <2>2 DEF CancelInv, CancellerOK
    <3>2. RowCalm(hand[w].order)
      BY <3>1
    <3>3. at[w] = "cancelClaimed" => Locked(hand[w].order)
      BY DEF Locked
    <3>4. QED
      BY <2>2, <3>1, <3>2, <3>3 DEF CancellerOK, RowCalm, CancelPlaces
  <2>3. QED
    BY <2>1, <2>2
<1>3. ASSUME NEW v \in Workers, NEW w \in Workers, v # w
      PROVE  CancellersApart(v, w)'
  BY <1>3 DEF CancelInv, CancellersApart
<1>4. QED
  BY <1>1, <1>2, <1>3 DEF CancelInv

\* Every step keeps the invariant of the cancel.
LEMMA CancelStep ==
    ASSUME TypeOK, SendInv, CancelInv, [Next]_vars
    PROVE  CancelInv'
<1>0. /\ row \in [Orders -> Row]
      /\ hand \in [Workers -> [order : Orders \cup {0}, answer : Answers]]
      /\ cancels \in [Orders -> Nat]
      /\ at \in [Procs -> Places]
      /\ Workers \subseteq Procs
  BY DEF TypeOK, Procs
<1>1. ASSUME NEW w \in Workers, WorkerStep(w) \/ Crash(w)
      PROVE  CancelInv'
  <2>1. CASE Acquire(w) \/ StartReconcile(w) \/ ApplyResult(w) \/ Reconnect(w) \/ NotReady(w)
             \/ Crash(w)
    <3>1. \A v \in Workers : \/ at'[v] = at[v] /\ hand'[v] = hand[v]
                             \/ at'[v] \notin CancelPlaces \cup {"cancelClaimed"}
      BY <1>0, <2>1 DEF Acquire, StartReconcile, ApplyResult, Reconnect, NotReady, Crash,
         Goto, CancelPlaces
    <3>2. row' = row /\ cancels' = cancels
      BY <2>1 DEF Acquire, StartReconcile, ApplyResult, Reconnect, NotReady, Crash,
         rowVars, brokerVars
    <3>3. QED
      BY <3>1, <3>2, QuietCancel DEF RowCalm
  <2>2. ASSUME NEW o \in Orders, Claim(w, o)
        PROVE  CancelInv'
    <3>1. \A v \in Workers : \/ at'[v] = at[v] /\ hand'[v] = hand[v]
                             \/ at'[v] \notin CancelPlaces \cup {"cancelClaimed"}
      BY <1>0, <2>2 DEF Claim, Goto, CancelPlaces
    <3>2. QED
      BY <2>2, <3>1, QuietCancel DEF Claim, rowVars, brokerVars, RowCalm
  <2>3. CASE CommitSubmitting(w) \/ Transmit(w) \/ SendAnswer(w) \/ FinishSend(w)
    <3>1. \A v \in Workers : \/ at'[v] = at[v] /\ hand'[v] = hand[v]
                             \/ at'[v] \notin CancelPlaces \cup {"cancelClaimed"}
      <4>1. CASE CommitSubmitting(w) \/ Transmit(w)
        BY <1>0, <4>1 DEF CommitSubmitting, Transmit, Goto, CancelPlaces
      <4>2. CASE SendAnswer(w)
        BY <1>0, <4>2 DEF SendAnswer, ReceiveAnswer, Goto, CancelPlaces
      <4>3. CASE FinishSend(w)
        <5>1. PICK place \in {"ended", "uncertain", "receive"} : at' = [at EXCEPT ![w] = place]
          BY <4>3 DEF FinishSend, Goto
        <5>2. QED
          BY <1>0, <4>3, <5>1 DEF FinishSend, CancelPlaces
      <4>4. QED
        BY <2>3, <4>1, <4>2, <4>3
    <3>2. hand[w].order \in Orders /\ row[hand[w].order].status \in Early
      BY <2>3 DEF SendInv, SenderOK, SendPlaces, Early, Unsent, CommitSubmitting, Transmit,
         SendAnswer, FinishSend
    <3>3. \A o \in Orders : RowCalm(o)
      BY <1>0, <2>3, <3>2 DEF CommitSubmitting, Transmit, SendAnswer, ReceiveAnswer, FinishSend,
         rowVars, RowCalm
    <3>4. cancels' = cancels
      BY <2>3 DEF CommitSubmitting, Transmit, SendAnswer, ReceiveAnswer, FinishSend, brokerVars
    <3>5. QED
      BY <3>1, <3>3, <3>4, QuietCancel
  <2>4. ASSUME NEW o \in Orders, ClaimCancel(w, o)
        PROVE  CancelInv'
    <3>1. /\ row[o].status \notin Early /\ row[o].armed /\ at[w] = "receive"
          /\ UNCHANGED <<row, cancels>>
      BY <2>4 DEF ClaimCancel, NextExpired, Cancellable, Early, Unsent, rowVars, brokerVars
    <3>2. ~Locked(o)
      BY <2>4 DEF ClaimCancel, NextExpired
    <3>3. /\ \A v \in Workers : at'[v] = IF v = w THEN "cancelClaimed" ELSE at[v]
          /\ hand' = [hand EXCEPT ![w] = [order |-> o, answer |-> "none"]]
      BY <1>0, <2>4 DEF ClaimCancel, Goto
    <3>4. \A u \in Orders : CancelOK(u)'
      BY <3>1 DEF CancelInv, CancelOK
    <3>5. \A v \in Workers : CancellerOK(v)'
      BY <1>0, <3>1, <3>3 DEF CancelInv, CancellerOK, CancelPlaces
    <3>6. \A v \in Workers : v # w /\ at[v] \in CancelPlaces \cup {"cancelClaimed"} =>
              hand[v].order # o
      BY <3>1, <3>2 DEF CancelInv, CancellerOK, Locked, CancelPlaces
    <3>7. \A u, v \in Workers : u # v => CancellersApart(u, v)'
      BY <1>0, <3>3, <3>6 DEF CancelInv, CancellersApart
    <3>8. QED
      BY <3>4, <3>5, <3>7 DEF CancelInv
  <2>5. CASE CommitCancel(w)
    <3>1. /\ at[w] = "cancelClaimed" /\ hand[w].order \in Orders
          /\ row[hand[w].order].armed
          /\ UNCHANGED <<hand, cancels>>
      BY <2>5 DEF CommitCancel, brokerVars, CancelInv, CancellerOK
    <3>2. \A v \in Workers : at'[v] = IF v = w THEN "cancelSending" ELSE at[v]
      BY <1>0, <2>5 DEF CommitCancel, Goto
    <3>3. \A o \in Orders : o # hand[w].order => row'[o] = row[o]
      BY <1>0, <2>5 DEF CommitCancel
    <3>4. row'[hand[w].order].status \notin Early /\ ~row'[hand[w].order].armed
      BY <1>0, <2>5, <3>1 DEF CommitCancel, Row, Early, Unsent
    <3>5. cancels[hand[w].order] = 0
      BY <3>1 DEF CancelInv, CancelOK
    <3>6. \A o \in Orders : CancelOK(o)'
      BY <3>1, <3>3, <3>4, <3>5 DEF CancelInv, CancelOK
    <3>7. \A v \in Workers : v # w /\ at[v] \in CancelPlaces \cup {"cancelClaimed"} =>
              hand[v].order # hand[w].order
      BY <3>1 DEF CancelInv, CancellersApart, CancelPlaces
    <3>8. \A v \in Workers : CancellerOK(v)'
      BY <3>1, <3>2, <3>3, <3>4, <3>5, <3>7 DEF CancelInv, CancellerOK, CancelPlaces
    <3>9. \A u, v \in Workers : u # v => CancellersApart(u, v)'
      BY <3>1, <3>2 DEF CancelInv, CancellersApart, CancelPlaces
    <3>10. QED
      BY <3>6, <3>8, <3>9 DEF CancelInv
  <2>6. CASE TransmitCancel(w)
    <3>1. /\ at[w] = "cancelSending" /\ hand[w].order \in Orders
          /\ row[hand[w].order].status \notin Early /\ ~row[hand[w].order].armed
          /\ cancels[hand[w].order] = 0
          /\ UNCHANGED <<hand, row>>
      BY <2>6 DEF TransmitCancel, rowVars, CancelInv, CancellerOK, CancelPlaces
    <3>2. \A v \in Workers : at'[v] = IF v = w THEN "cancelAwaiting" ELSE at[v]
      BY <1>0, <2>6 DEF TransmitCancel, Goto
    <3>3. /\ \A o \in Orders : o # hand[w].order => cancels'[o] = cancels[o]
          /\ cancels'[hand[w].order] = 1
      BY <1>0, <2>6, <3>1 DEF TransmitCancel
    <3>4. \A o \in Orders : CancelOK(o)'
      BY <3>1, <3>3 DEF CancelInv, CancelOK
    <3>5. \A v \in Workers : v # w /\ at[v] \in CancelPlaces \cup {"cancelClaimed"} =>
              hand[v].order # hand[w].order
      BY <3>1 DEF CancelInv, CancellersApart, CancelPlaces
    <3>6. \A v \in Workers : CancellerOK(v)'
      BY <3>1, <3>2, <3>3, <3>5 DEF CancelInv, CancellerOK, CancelPlaces
    <3>7. \A u, v \in Workers : u # v => CancellersApart(u, v)'
      BY <3>1, <3>2 DEF CancelInv, CancellersApart, CancelPlaces
    <3>8. QED
      BY <3>4, <3>6, <3>7 DEF CancelInv
  <2>7. CASE CancelAnswer(w)
    <3>1. UNCHANGED <<row, cancels>>
      BY <2>7 DEF CancelAnswer, ReceiveAnswer, rowVars, brokerVars
    <3>2. CASE at'[w] # "cancelFinishing"
      <4>1. \A v \in Workers : \/ at'[v] = at[v] /\ hand'[v] = hand[v]
                               \/ at'[v] \notin CancelPlaces \cup {"cancelClaimed"}
        BY <1>0, <2>7, <3>2 DEF CancelAnswer, ReceiveAnswer, Goto, CancelPlaces
      <4>2. QED
        BY <3>1, <4>1, QuietCancel DEF RowCalm
    <3>3. CASE at'[w] = "cancelFinishing"
      <4>1. /\ at[w] \in CancelPlaces
            /\ \A v \in Workers : v # w => at'[v] = at[v] /\ hand'[v] = hand[v]
        BY <1>0, <2>7 DEF CancelAnswer, ReceiveAnswer, Goto, CancelPlaces
      <4>2. hand'[w].order = hand[w].order /\ hand'[w].answer # "none"
        BY <1>0, <2>7, <3>3 DEF CancelAnswer, ReceiveAnswer, Goto, AnswersTo
      <4>3. \A o \in Orders : CancelOK(o)'
        BY <3>1 DEF CancelInv, CancelOK
      <4>4. \A v \in Workers : CancellerOK(v)'
        BY <3>1, <3>3, <4>1, <4>2 DEF CancelInv, CancellerOK, CancelPlaces
      <4>5. \A u, v \in Workers : u # v => CancellersApart(u, v)'
        BY <3>3, <4>1, <4>2 DEF CancelInv, CancellersApart, CancelPlaces
      <4>6. QED
        BY <4>3, <4>4, <4>5 DEF CancelInv
    <3>4. QED
      BY <3>2, <3>3
  <2>8. CASE FinishCancel(w)
    <3>1. /\ at[w] = "cancelFinishing" /\ hand[w].order \in Orders
          /\ row[hand[w].order].status \notin Early
          /\ hand[w].answer \in {"ack", "rejected", "unknown"}
          /\ cancels' = cancels
      BY <1>0, <2>8 DEF FinishCancel, brokerVars, CancelInv, CancellerOK, CancelPlaces, Answers
    <3>2. PICK place \in {"ended", "uncertain", "receive"} : at' = [at EXCEPT ![w] = place]
      BY <2>8 DEF FinishCancel, Goto
    <3>3. \A v \in Workers : \/ at'[v] = at[v] /\ hand'[v] = hand[v]
                             \/ at'[v] \notin CancelPlaces \cup {"cancelClaimed"}
      BY <1>0, <2>8, <3>2 DEF FinishCancel, CancelPlaces
    <3>4. \A o \in Orders : o # hand[w].order => row'[o] = row[o]
      BY <1>0, <2>8 DEF FinishCancel
    <3>5. \/ row' = row
          \/ \E status : /\ row' = [row EXCEPT ![hand[w].order].status = status]
                         /\ status \notin Early
      <4> DEFINE status == IF hand[w].answer = "ack" THEN row[hand[w].order].status
                           ELSE IF hand[w].answer = "rejected" THEN "RECONCILING" ELSE "UNKNOWN"
      <4>1. row' = row \/ row' = [row EXCEPT ![hand[w].order].status = status]
        BY <2>8 DEF FinishCancel
      <4>2. status \notin Early
        BY <3>1 DEF Early, Unsent
      <4> HIDE DEF status
      <4>3. QED
        BY <4>1, <4>2
    <3>6. /\ row'[hand[w].order].status \notin Early
          /\ row'[hand[w].order].armed = row[hand[w].order].armed
      <4>1. CASE row' = row
        BY <3>1, <4>1
      <4>2. CASE row' # row
        <5>1. PICK o \in Orders : o = hand[w].order
          BY <3>1
        <5>2. PICK status : row' = [row EXCEPT ![o].status = status] /\ status \notin Early
          BY <3>5, <4>2, <5>1
        <5>3. row \in [Orders -> Row]
          BY <1>0
        <5>4. row'[o] = [row[o] EXCEPT !.status = status] /\ row[o] \in Row
          BY <5>1, <5>2, <5>3
        <5>5. row'[o].status = status /\ row'[o].armed = row[o].armed
          BY <5>4 DEF Row
        <5>6. QED
          BY <5>1, <5>2, <5>5
      <4>3. QED
        BY <4>1, <4>2
    <3>7. QED
      BY <3>1, <3>3, <3>4, <3>6, QuietCancel DEF RowCalm
  <2>9. QED
    BY <1>1, <2>1, <2>2, <2>3, <2>4, <2>5, <2>6, <2>7, <2>8 DEF WorkerStep
<1>2. ASSUME NEW p \in Procs, ReconcileStep(p)
      PROVE  CancelInv'
  <2>1. \A v \in Workers : \/ at'[v] = at[v] /\ hand'[v] = hand[v]
                           \/ at'[v] \notin CancelPlaces \cup {"cancelClaimed"}
    BY <1>0, <1>2 DEF ReconcileStep, ReconcileBegin, ReadOpenOrders, ReadFills, ReconcileCommit,
       ReconcileFails, Goto, CancelPlaces
  <2>2. cancels' = cancels
    BY <1>2 DEF ReconcileStep, ReconcileBegin, ReadOpenOrders, ReadFills, ReconcileCommit,
       ReconcileFails, brokerVars
  <2>3. \A o \in Orders : RowCalm(o)
    <3>1. CASE ReconcileCommit(p)
      <4>1. /\ snap[p] \in Snapshot /\ row' = RowsAfter(snap[p])
            /\ \A o \in Orders : Locked(o) => row'[o] = row[o]
        BY <3>1 DEF ReconcileCommit, TypeOK
      <4>2. ASSUME NEW o \in Orders
            PROVE  RowCalm(o)
        <5>1. /\ row'[o].status \in {row[o].status, "OPEN", "PARTIALLY_FILLED", "FILLED",
                                     "CANCELLED", "RECONCILING"}
              /\ row'[o].armed => row[o].armed
              /\ row'[o].armed \in BOOLEAN /\ row[o].armed \in BOOLEAN
          BY <1>0, <4>1, ReconciledRow DEF Row
        <5>2. QED
          BY <4>1, <5>1 DEF RowCalm, Early, Unsent
      <4>3. QED
        BY <4>2
    <3>2. CASE ~ReconcileCommit(p)
      BY <1>2, <3>2 DEF ReconcileStep, ReconcileBegin, ReadOpenOrders, ReadFills, ReconcileFails,
         rowVars, RowCalm
    <3>3. QED
      BY <3>1, <3>2
  <2>4. QED
    BY <2>1, <2>2, <2>3, QuietCancel
<1>3. ASSUME NEW o \in Orders, create_order(o) \/ BrokerStep(o)
      PROVE  CancelInv'
  <2>1. UNCHANGED <<at, hand, cancels>>
    BY <1>3 DEF create_order, BrokerStep, BrokerDecides, BrokerDecidesCancel, BrokerFills,
       BrokerCloses, brokerVars
  <2>2. \A u \in Orders : RowCalm(u)
    BY <1>0, <1>3 DEF create_order, BrokerStep, BrokerDecides, BrokerDecidesCancel, BrokerFills,
       BrokerCloses, rowVars, RowCalm, Early, Unsent
  <2>3. QED
    BY <2>1, <2>2, QuietCancel
<1>4. CASE Expire \/ UNCHANGED vars
  BY <1>4, QuietCancel DEF Expire, vars, rowVars, brokerVars, RowCalm
<1>5. QED
  BY <1>1, <1>2, <1>3, <1>4 DEF Next

-----------------------------------------------------------------------------
\* The parts of TypeOK that a step of a process or of the broker may disturb.
ProcsOK ==
    /\ at \in [Procs -> Places]
    /\ hand \in [Workers -> [order : Orders \cup {0}, answer : Answers]]
    /\ snap \in [Procs -> Snapshot]
    /\ intruded \in BOOLEAN

RowsOK == row \in [Orders -> Row] /\ imported \in [Orders -> Row]

MarketOK ==
    /\ broker \in [Orders -> [state : {"none", "open", "filled", "cancelled"}, filled : 0..Quantity]]
    /\ wire \in [Orders -> Fates \cup {"none", "pending"}]
    /\ cancelWire \in [Orders -> Fates \cup {"none", "pending"}]
    /\ sends \in [Orders -> Nat]
    /\ cancels \in [Orders -> Nat]

LEMMA EmptyTypes ==
    /\ Empty \in [order : Orders \cup {0}, answer : Answers]
    /\ NoSnapshot \in Snapshot
    /\ NoRow \in Row
BY DispatchAssumption DEF Empty, Answers, NoSnapshot, Snapshot, NoRow, Row, Statuses

LEMMA ProcsStep ==
    ASSUME TypeOK, SendInv, CancelInv, [Next]_vars
    PROVE  ProcsOK'
<1> USE DEF ProcsOK
<1>0. ProcsOK /\ Workers \subseteq Procs
  BY DEF TypeOK, Procs
<1>1. ASSUME NEW p \in Procs, Trespass(p)
      PROVE  intruded' \in BOOLEAN
  BY <1>1 DEF Trespass
<1>2. ASSUME NEW p \in Procs, NEW place \in Places, Goto(p, place)
      PROVE  at' \in [Procs -> Places]
  BY <1>0, <1>2 DEF Goto
<1>3. ASSUME NEW w \in Workers, WorkerStep(w) \/ Crash(w)
      PROVE  ProcsOK'
  <2>1. CASE Acquire(w) \/ StartReconcile(w) \/ ApplyResult(w) \/ Reconnect(w) \/ NotReady(w)
    BY <1>0, <1>2, <2>1 DEF Acquire, StartReconcile, ApplyResult, Reconnect, NotReady, Places
  <2>2. ASSUME NEW o \in Orders, Claim(w, o) \/ ClaimCancel(w, o)
        PROVE  ProcsOK'
    BY <1>0, <1>2, <2>2 DEF Claim, ClaimCancel, Places, Answers
  <2>3. CASE CommitSubmitting(w) \/ CommitCancel(w)
    BY <1>0, <1>1, <1>2, <2>3 DEF CommitSubmitting, CommitCancel, Places
  <2>4. CASE Transmit(w) \/ TransmitCancel(w)
    BY <1>0, <1>2, <2>4 DEF Transmit, TransmitCancel, Places
  <2>5. CASE SendAnswer(w) \/ CancelAnswer(w)
    BY <1>0, <1>2, <2>5, EmptyTypes DEF SendAnswer, CancelAnswer, ReceiveAnswer, Places
  <2>6. CASE FinishSend(w)
    <3>1. PICK place \in {"ended", "uncertain", "receive"} : Goto(w, place)
      BY <2>6 DEF FinishSend
    <3>2. at' \in [Procs -> Places]
      BY <1>0, <1>2, <3>1 DEF Places
    <3>3. QED
      BY <1>0, <1>1, <2>6, <3>2, EmptyTypes DEF FinishSend
  <2>7. CASE FinishCancel(w)
    <3>1. PICK place \in {"ended", "uncertain", "receive"} : Goto(w, place)
      BY <2>7 DEF FinishCancel
    <3>2. at' \in [Procs -> Places]
      BY <1>0, <1>2, <3>1 DEF Places
    <3>3. QED
      BY <1>0, <1>1, <2>7, <3>2, EmptyTypes DEF FinishCancel
  <2>8. CASE Crash(w)
    BY <1>0, <1>2, <2>8, EmptyTypes DEF Crash, Places
  <2>9. QED
    BY <1>3, <2>1, <2>2, <2>3, <2>4, <2>5, <2>6, <2>7, <2>8 DEF WorkerStep
<1>4. ASSUME NEW p \in Procs, ReconcileStep(p)
      PROVE  ProcsOK'
  <2>1. CASE ReconcileBegin(p)
    BY <1>0, <1>1, <1>2, <2>1 DEF ReconcileBegin, Places
  <2>2. CASE ReadOpenOrders(p)
    <3> DEFINE filledAtOpen == [o \in Orders |-> IF o \in OpenAtBroker THEN broker[o].filled ELSE 0]
    <3>1. filledAtOpen \in [Orders -> 0..Quantity] /\ OpenAtBroker \subseteq Orders
      BY DispatchAssumption DEF OpenAtBroker, TypeOK
    <3>2. snap' = [snap EXCEPT ![p].listed = OpenAtBroker, ![p].filledAtOpen = filledAtOpen]
      BY <2>2 DEF ReadOpenOrders
    <3> HIDE DEF filledAtOpen
    <3>3. [snap[p] EXCEPT !.listed = OpenAtBroker, !.filledAtOpen = filledAtOpen] \in Snapshot
      BY <1>0, <3>1 DEF Snapshot
    <3>4. snap' \in [Procs -> Snapshot]
      BY <1>0, <3>2, <3>3
    <3>5. QED
      BY <1>0, <1>2, <2>2, <3>4 DEF ReadOpenOrders, Places
  <2>3. CASE ReadFills(p)
    <3> DEFINE fills == [o \in Orders |-> broker[o].filled]
    <3>1. fills \in [Orders -> 0..Quantity]
      BY DEF TypeOK
    <3>2. snap' = [snap EXCEPT ![p].fills = fills]
      BY <2>3 DEF ReadFills
    <3> HIDE DEF fills
    <3>3. [snap[p] EXCEPT !.fills = fills] \in Snapshot
      BY <1>0, <3>1 DEF Snapshot
    <3>4. snap' \in [Procs -> Snapshot]
      BY <1>0, <3>2, <3>3
    <3>5. QED
      BY <1>0, <1>2, <2>3, <3>4 DEF ReadFills, Places
  <2>4. CASE ReconcileCommit(p)
    <3>1. PICK place \in {"idle", "recCritical", "recClean"} : Goto(p, place)
      BY <2>4 DEF ReconcileCommit
    <3>2. at' \in [Procs -> Places]
      BY <1>2, <3>1 DEF Places
    <3>3. QED
      BY <1>0, <1>1, <2>4, <3>2, EmptyTypes DEF ReconcileCommit
  <2>5. CASE ReconcileFails(p)
    BY <1>0, <1>1, <1>2, <2>5, EmptyTypes DEF ReconcileFails, Places
  <2>6. QED
    BY <1>4, <2>1, <2>2, <2>3, <2>4, <2>5 DEF ReconcileStep
<1>5. ASSUME NEW o \in Orders, create_order(o) \/ BrokerStep(o)
      PROVE  ProcsOK'
  BY <1>0, <1>5 DEF create_order, BrokerStep, BrokerDecides, BrokerDecidesCancel, BrokerFills,
     BrokerCloses
<1>6. CASE Expire \/ UNCHANGED vars
  BY <1>0, <1>6 DEF Expire, vars
<1>7. QED
  BY <1>3, <1>4, <1>5, <1>6 DEF Next

LEMMA RowsStep ==
    ASSUME TypeOK, SendInv, CancelInv, [Next]_vars
    PROVE  RowsOK'
<1> USE DEF RowsOK
<1>0. RowsOK
  BY DEF TypeOK
<1>1. ASSUME NEW w \in Workers, WorkerStep(w) \/ Crash(w)
      PROVE  RowsOK'
  <2>1. ASSUME NEW o \in Orders, Claim(w, o) \/ ClaimCancel(w, o)
        PROVE  UNCHANGED rowVars
    BY <2>1 DEF Claim, ClaimCancel
  <2>2. CASE CommitSubmitting(w)
    <3>1. "SUBMITTING" \in Statuses
      BY DEF Statuses
    <3>2. QED
      BY <1>0, <2>2, <3>1 DEF CommitSubmitting, Row
  <2>3. CASE CommitCancel(w)
    <3>1. "CANCEL_PENDING" \in Statuses
      BY DEF Statuses
    <3>2. ASSUME NEW o \in Orders
          PROVE  [row[o] EXCEPT !.status = "CANCEL_PENDING", !.armed = FALSE] \in Row
      BY <1>0, <3>1, <3>2 DEF Row
    <3>3. /\ imported' = imported
          /\ row' = [row EXCEPT ![hand[w].order] =
                                  [row[hand[w].order] EXCEPT !.status = "CANCEL_PENDING",
                                                            !.armed = FALSE]]
      BY <2>3 DEF CommitCancel
    <3>4. QED
      BY <1>0, <3>2, <3>3
  <2>4. CASE FinishSend(w)
    <3> DEFINE o == hand[w].order
               answer == hand[w].answer
    <3>1. o \in Orders /\ answer \in {"ack", "rejected", "unknown"}
      BY <2>4 DEF FinishSend, SendInv, SenderOK, SendPlaces, TypeOK, Answers
    <3>2. /\ imported' = imported
          /\ row' = row \/ row' = [row EXCEPT ![o] = Answered(o, answer)]
      BY <2>4 DEF FinishSend
    <3>3. {"ACKNOWLEDGED", "REJECTED", "UNKNOWN"} \subseteq Statuses
      BY DEF Statuses
    <3>4. Answered(o, answer) \in Row
      <4>1. row[o] \in Row /\ (o \in Expiring) \in BOOLEAN
        BY <1>0, <3>1
      <4> HIDE DEF o
      <4>2. CASE answer = "ack"
        BY <3>3, <4>1, <4>2 DEF Answered, Row
      <4>3. CASE answer = "rejected"
        BY <3>3, <4>1, <4>3 DEF Answered, Row
      <4>4. CASE answer = "unknown"
        BY <3>3, <4>1, <4>4 DEF Answered, Row
      <4>5. QED
        BY <3>1, <4>2, <4>3, <4>4
    <3>5. QED
      BY <1>0, <3>2, <3>4
  <2>5. CASE FinishCancel(w)
    <3>1. hand[w].order \in Orders /\ hand[w].answer \in {"ack", "rejected", "unknown"}
      BY <2>5 DEF FinishCancel, CancelInv, CancellerOK, CancelPlaces, TypeOK, Answers
    <3>2. row[hand[w].order].status \in Statuses
      BY <1>0, <3>1 DEF Row
    <3>3. \/ row' = row
          \/ \E status \in Statuses : row' = [row EXCEPT ![hand[w].order].status = status]
      BY <2>5, <3>1, <3>2 DEF FinishCancel, Statuses
    <3>4. imported' = imported
      BY <2>5 DEF FinishCancel
    <3>5. CASE row' = row
      BY <1>0, <3>4, <3>5
    <3>6. ASSUME NEW status \in Statuses,
                 row' = [row EXCEPT ![hand[w].order].status = status]
          PROVE  row' \in [Orders -> Row]
      BY <1>0, <3>1, <3>6 DEF Row
    <3>7. QED
      BY <1>0, <3>3, <3>4, <3>5, <3>6
  <2>6. CASE UNCHANGED rowVars
    BY <1>0, <2>6 DEF rowVars
  <2>7. QED
    BY <1>1, <2>1, <2>2, <2>3, <2>4, <2>5, <2>6 DEF WorkerStep, Crash, Acquire, StartReconcile,
       ApplyResult, Reconnect, NotReady, Transmit, TransmitCancel, SendAnswer, CancelAnswer,
       ReceiveAnswer
<1>2. ASSUME NEW p \in Procs, ReconcileStep(p)
      PROVE  RowsOK'
  <2>1. CASE ReconcileCommit(p)
    <3> DEFINE s == snap[p]
    <3>1. s \in Snapshot /\ row' = RowsAfter(s) /\ imported' = ImportsAfter(s)
      BY <2>1 DEF ReconcileCommit, TypeOK
    <3>2. \A o \in Orders : Projected(row[o], o, s) \in Row /\ Projected(imported[o], o, s) \in Row
      BY <1>0, <3>1, ProjectedRow
    <3> HIDE DEF s
    <3>3. QED
      BY <1>0, <3>1, <3>2 DEF RowsAfter, ImportsAfter
  <2>2. CASE UNCHANGED rowVars
    BY <1>0, <2>2 DEF rowVars
  <2>3. QED
    BY <1>2, <2>1, <2>2 DEF ReconcileStep, ReconcileBegin, ReadOpenOrders, ReadFills, ReconcileFails
<1>3. ASSUME NEW o \in Orders, create_order(o)
      PROVE  RowsOK'
  <2>1. [NoRow EXCEPT !.status = "CREATED", !.remaining = Quantity] \in Row
    <3>1. "CREATED" \in Statuses /\ Quantity \in 0..Quantity
      BY DispatchAssumption DEF Statuses
    <3>2. QED
      BY <3>1, EmptyTypes DEF Row
  <2>2. QED
    BY <1>0, <1>3, <2>1 DEF create_order
<1>4. ASSUME NEW o \in Orders, BrokerStep(o)
      PROVE  RowsOK'
  BY <1>0, <1>4 DEF BrokerStep, BrokerDecides, BrokerDecidesCancel, BrokerFills, BrokerCloses, rowVars
<1>5. CASE Expire \/ UNCHANGED vars
  BY <1>0, <1>5 DEF Expire, vars, rowVars
<1>6. QED
  BY <1>1, <1>2, <1>3, <1>4, <1>5 DEF Next

LEMMA MarketStep ==
    ASSUME TypeOK, SendInv, CancelInv, [Next]_vars
    PROVE  MarketOK'
<1> USE DEF MarketOK
<1>0. MarketOK
  BY DEF TypeOK
<1>1. CASE UNCHANGED brokerVars
  BY <1>0, <1>1 DEF brokerVars
<1>2. ASSUME NEW w \in Workers, Transmit(w)
      PROVE  MarketOK'
  <2>1. hand[w].order \in Orders
    BY <1>2 DEF Transmit, SendInv, SenderOK, SendPlaces
  <2>2. QED
    BY <1>0, <1>2, <2>1 DEF Transmit
<1>3. ASSUME NEW w \in Workers, TransmitCancel(w)
      PROVE  MarketOK'
  <2>1. hand[w].order \in Orders
    BY <1>3 DEF TransmitCancel, CancelInv, CancellerOK, CancelPlaces
  <2>2. QED
    BY <1>0, <1>3, <2>1 DEF TransmitCancel
<1>4. ASSUME NEW o \in Orders, BrokerStep(o)
      PROVE  MarketOK'
  <2>1. ASSUME NEW fate \in Fates, BrokerDecides(o, fate) \/ BrokerDecidesCancel(o, fate)
        PROVE  MarketOK'
    <3>1. CASE BrokerDecides(o, fate)
      BY <1>0, <3>1, SMTT(40) DEF BrokerDecides
    <3>2. CASE BrokerDecidesCancel(o, fate)
      BY <1>0, <3>2, SMTT(40) DEF BrokerDecidesCancel
    <3>3. QED
      BY <2>1, <3>1, <3>2
  <2>2. CASE BrokerFills(o)
    <3>1. broker[o].filled < Quantity
      BY <2>2 DEF BrokerFills, SendInv, OrderOK
    <3>2. QED
      BY <1>0, <2>2, <3>1, DispatchAssumption DEF BrokerFills
  <2>3. CASE BrokerCloses(o)
    BY <1>0, <2>3 DEF BrokerCloses
  <2>4. QED
    BY <1>4, <2>1, <2>2, <2>3 DEF BrokerStep
<1>5. ASSUME NEW w \in Workers, WorkerStep(w) \/ Crash(w), ~Transmit(w), ~TransmitCancel(w)
      PROVE  UNCHANGED brokerVars
  BY <1>5 DEF WorkerStep, Crash, Acquire, StartReconcile, ApplyResult, Reconnect, NotReady, Claim,
     ClaimCancel, CommitSubmitting, SendAnswer, FinishSend, CommitCancel, CancelAnswer,
     FinishCancel, ReceiveAnswer
<1>6. ASSUME NEW p \in Procs, ReconcileStep(p)
      PROVE  UNCHANGED brokerVars
  BY <1>6 DEF ReconcileStep, ReconcileBegin, ReadOpenOrders, ReadFills, ReconcileCommit,
     ReconcileFails
<1>7. QED
  BY <1>1, <1>2, <1>3, <1>4, <1>5, <1>6 DEF Next, create_order, Expire, vars

\* The inductive invariant.
DispatchInv == TypeOK /\ SendInv /\ CancelInv

LEMMA DispatchInvStep ==
    ASSUME DispatchInv, [Next]_vars
    PROVE  DispatchInv'
<1>1. TypeOK /\ SendInv /\ CancelInv
  BY DEF DispatchInv
<1>2. LeaseTypeOK'
  BY <1>1, StepRefines, LeaseTypeStep DEF TypeOK
<1>3. TypeOK'
  BY <1>1, <1>2, ProcsStep, RowsStep, MarketStep DEF TypeOK, ProcsOK, RowsOK, MarketOK
<1>4. QED
  BY <1>1, <1>3, SendStep, CancelStep DEF DispatchInv

LEMMA DispatchInvariant == Spec => []DispatchInv
<1>1. Init => DispatchInv
  <2>1. Init => TypeOK
    <3>1. Init => LeaseTypeOK
      BY DEF Init, LeaseInit, LeaseTypeOK, WorkerStateNames, GateStatuses
    <3>2. Init => ProcsOK
      <4>1. "idle" \in Places
        BY DEF Places
      <4>2. Init => at \in [Procs -> Places] /\ snap \in [Procs -> Snapshot]
        BY <4>1, EmptyTypes DEF Init
      <4>3. Init => hand \in [Workers -> [order : Orders \cup {0}, answer : Answers]]
        BY EmptyTypes, ZenonT(60) DEF Init
      <4>4. Init => intruded \in BOOLEAN
        BY DEF Init
      <4>5. QED
        BY <4>2, <4>3, <4>4 DEF ProcsOK
    <3>3. Init => RowsOK
      BY EmptyTypes DEF Init, RowsOK
    <3>4. Init => MarketOK
      BY DispatchAssumption DEF Init, MarketOK
    <3>5. QED
      BY <3>1, <3>2, <3>3, <3>4 DEF TypeOK, ProcsOK, RowsOK, MarketOK
  <2>2. Init => SendInv
    BY DispatchAssumption DEF Init, SendInv, OrderOK, SenderOK, SendersApart, SendPlaces, NoRow,
       Unsent, Early, Procs
  <2>3. Init => CancelInv
    BY DispatchAssumption DEF Init, CancelInv, CancelOK, CancellerOK, CancellersApart, CancelPlaces,
       Procs
  <2>4. QED
    BY <2>1, <2>2, <2>3 DEF DispatchInv
<1>2. DispatchInv /\ [Next]_vars => DispatchInv'
  BY DispatchInvStep
<1>3. QED
  BY <1>1, <1>2, PTL DEF Spec

\* The rows, the processes' state and the broker's state stay well typed.
THEOREM DispatchTypeCorrect == Spec => []TypeOK
<1>1. DispatchInv => TypeOK
  BY DEF DispatchInv
<1>2. QED
  BY <1>1, DispatchInvariant, PTL

\* A new-order request is transmitted at most once per order: for any number of
\* workers, restarts, takeovers, command-line reconciliations and orders.
THEOREM DispatchSendsOnce == Spec => []SentAtMostOnce
<1>1. DispatchInv => SentAtMostOnce
  BY DEF DispatchInv, SendInv, OrderOK, SentAtMostOnce
<1>2. QED
  BY <1>1, DispatchInvariant, PTL

\* A cancel request is transmitted at most once per order, under the same
\* conditions, although projections may move the order out of CANCEL_PENDING.
THEOREM DispatchCancelsOnce == Spec => []CancelledAtMostOnce
<1>1. DispatchInv => CancelledAtMostOnce
  BY DEF DispatchInv, CancelInv, CancelOK, CancelledAtMostOnce
<1>2. QED
  BY <1>1, DispatchInvariant, PTL

-----------------------------------------------------------------------------
(***************************************************************************)
(* What rows say of the broker.                                            *)
(***************************************************************************)

\* An answer a worker is about to record is true of the request, and stays so.
AnswerOK(w) ==
    at[w] = "finishing" =>
        /\ hand[w].answer = "rejected" => wire[hand[w].order] \in {"none", "refused", "garbled"}
        /\ hand[w].answer = "ack" => wire[hand[w].order] = "accepted"

\* A row that may be cancelled is one with a broker id.
CancelHasId(w) == at[w] \in CancelPlaces \cup {"cancelClaimed"} => row[hand[w].order].hasId

\* What the broker has filled only grows, so no row is ahead of it.
BehindBroker(o) ==
    /\ wire[o] = "accepted" => broker[o].state # "none"
    /\ broker[o].filled = Quantity => broker[o].state = "filled"
    /\ broker[o].state = "filled" => broker[o].filled = Quantity
    /\ row[o].hasId => broker[o].state # "none"
    /\ row[o].filled <= broker[o].filled /\ imported[o].filled <= broker[o].filled

\* Nor is a snapshot, however old it is.
SnapBehindBroker(p, o) ==
    /\ snap[p].filledAtOpen[o] <= broker[o].filled
    /\ snap[p].fills[o] <= broker[o].filled
    /\ o \in snap[p].listed => snap[p].filledAtOpen[o] < Quantity

TruthInv ==
    /\ \A w \in Workers : AnswerOK(w) /\ CancelHasId(w)
    /\ \A o \in Orders : BehindBroker(o)
    /\ \A p \in Procs, o \in Orders : SnapBehindBroker(p, o)
    /\ RejectedStaysOut
    /\ RowsAreConsistent

\* As long as nobody wrote without a lease, the snapshot of a worker under its
\* lease still tells which of the orders with an id are closed, and how.
SnapIsFinal(w) ==
    lease_is_current(w) /\ at[w] \in {"recFills", "recProject"} =>
        \A o \in Orders : row[o].hasId /\ o \notin snap[w].listed =>
            /\ broker[o].state \in {"filled", "cancelled"}
            /\ at[w] = "recProject" => snap[w].fills[o] = broker[o].filled

Uncertain == {"SUBMITTING", "UNKNOWN", "RECONCILING"}
Certain(o) == row[o].status \notin Uncertain /\ imported[o].status # "RECONCILING"
InHand == SendPlaces \cup CancelPlaces \cup {"claimed", "cancelClaimed"}

\* And a worker under its lease that found the account clean, or is sending or
\* cancelling one order, leaves no other order uncertain.
OthersCertain(w) ==
    lease_is_current(w) =>
        /\ at[w] = "recClean" \/ (at[w] = "receive" /\ WorkerReady(w)) => \A o \in Orders : Certain(o)
        /\ at[w] \in InHand => \A o \in Orders : imported[o].status # "RECONCILING"
                                     /\ (o # hand[w].order => Certain(o))

CancelledIsTrue(o) ==
    row[o].status = "CANCELLED" => broker[o] = [state |-> "cancelled", filled |-> row[o].filled]

FenceInv ==
    ~intruded =>
        /\ \A w \in Workers : SnapIsFinal(w) /\ OthersCertain(w)
        /\ \A o \in Orders : CancelledIsTrue(o)

-----------------------------------------------------------------------------
(***************************************************************************)
(* The ways in which a row changes.                                        *)
(***************************************************************************)
SameQuantities(q, r) == q.filled = r.filled /\ q.cancelled = r.cancelled /\ q.remaining = r.remaining

\* create_order.
Creates(o) ==
    /\ row[o].status = "ABSENT"
    /\ row'[o].status = "CREATED" /\ ~row'[o].hasId
    /\ row'[o].filled = 0 /\ row'[o].cancelled = 0 /\ row'[o].remaining = Quantity

\* The commit of SUBMITTING.
Submits(w, o) ==
    /\ at[w] = "claimed" /\ row[o].status = "CREATED"
    /\ row'[o].status = "SUBMITTING" /\ row'[o].hasId = row[o].hasId

\* _finish_send: the answer becomes the status.
Records(w, o) ==
    /\ at[w] = "finishing" /\ row[o].status = "SUBMITTING"
    /\ \/ /\ hand[w].answer = "ack" /\ ~imported[o].hasId
          /\ row'[o].status = "ACKNOWLEDGED" /\ row'[o].hasId
       \/ /\ hand[w].answer = "rejected"
          /\ row'[o].status = "REJECTED" /\ row'[o].hasId = row[o].hasId
       \/ /\ hand[w].answer = "unknown" /\ at'[w] = "uncertain"
          /\ row'[o].status = "UNKNOWN" /\ row'[o].hasId = row[o].hasId

\* The commit of CANCEL_PENDING.
Cancels(w, o) ==
    /\ at[w] = "cancelClaimed"
    /\ row'[o].status = "CANCEL_PENDING" /\ row'[o].hasId = row[o].hasId

\* _finish_cancel without an acknowledgement.
Doubts(w, o) ==
    /\ at[w] = "cancelFinishing" /\ row[o].status = "CANCEL_PENDING" /\ at'[w] = "uncertain"
    /\ row'[o].status \in {"UNKNOWN", "RECONCILING"} /\ row'[o].hasId = row[o].hasId

\* A worker writes the row of the order in its hand.
Writes(w, o) ==
    /\ o = hand[w].order /\ Trespass(w) /\ UNCHANGED <<imported, brokerVars, snap, lease, identity>>
    /\ SameQuantities(row'[o], row[o])
    /\ \A u \in Orders : u # o => row'[u] = row[u]
    /\ \A v \in Workers : v # w => at'[v] = at[v] /\ hand'[v] = hand[v]
    /\ Submits(w, o) \/ Records(w, o) \/ Cancels(w, o) \/ Doubts(w, o)

RowsMove ==
    \/ UNCHANGED rowVars
    \/ \E o \in Orders : Creates(o) /\ create_order(o)
    \/ \E w \in Workers : \E o \in Orders : Writes(w, o)
    \/ \E p \in Procs : ReconcileCommit(p)

\* What the answer of the broker makes of a row.
LEMMA AnsweredRow ==
    ASSUME NEW o \in Orders, NEW answer \in {"ack", "rejected", "unknown"}, row[o] \in Row
    PROVE  /\ SameQuantities(Answered(o, answer), row[o])
           /\ answer = "ack" => Answered(o, answer).status = "ACKNOWLEDGED" /\ Answered(o, answer).hasId
           /\ answer = "rejected" => Answered(o, answer).status = "REJECTED"
                                     /\ Answered(o, answer).hasId = row[o].hasId
           /\ answer = "unknown" => Answered(o, answer).status = "UNKNOWN"
                                    /\ Answered(o, answer).hasId = row[o].hasId
<1>1. CASE answer = "ack"
  BY <1>1 DEF Answered, Row, SameQuantities
<1>2. CASE answer = "rejected"
  BY <1>2 DEF Answered, Row, SameQuantities
<1>3. CASE answer = "unknown"
  BY <1>3 DEF Answered, Row, SameQuantities
<1>4. QED
  BY <1>1, <1>2, <1>3

\* Every step leaves the rows alone or changes them in one of these ways.
LEMMA RowsMoveSo ==
    ASSUME DispatchInv, [Next]_vars
    PROVE  RowsMove
<1>0. /\ TypeOK /\ SendInv /\ CancelInv
      /\ row \in [Orders -> Row]
      /\ at \in [Procs -> Places] /\ hand \in [Workers -> [order : Orders \cup {0}, answer : Answers]]
      /\ Workers \subseteq Procs
  BY DEF DispatchInv, TypeOK, Procs
<1>1. ASSUME NEW o \in Orders, create_order(o)
      PROVE  Creates(o)
  <2>1. row'[o] = [NoRow EXCEPT !.status = "CREATED", !.remaining = Quantity] /\ row[o].status = "ABSENT"
    BY <1>0, <1>1 DEF create_order
  <2>2. QED
    BY <2>1 DEF Creates, NoRow
<1>2. ASSUME NEW w \in Workers, CommitSubmitting(w)
      PROVE  \E o \in Orders : Writes(w, o)
  <2>1. PICK o \in Orders : o = hand[w].order
    BY <1>0, <1>2 DEF CommitSubmitting, SendInv, SenderOK
  <2>2. row'[o] = [row[o] EXCEPT !.status = "SUBMITTING"] /\ row[o].status = "CREATED" /\ at[w] = "claimed"
    BY <1>0, <1>2, <2>1 DEF CommitSubmitting, SendInv, SenderOK
  <2>3. SameQuantities(row'[o], row[o]) /\ Submits(w, o)
    BY <1>0, <2>2 DEF Submits, SameQuantities, Row
  <2>4. /\ \A u \in Orders : u # o => row'[u] = row[u]
        /\ \A v \in Workers : v # w => at'[v] = at[v] /\ hand'[v] = hand[v]
        /\ Trespass(w) /\ UNCHANGED <<imported, brokerVars, snap, lease, identity>>
    BY <1>0, <1>2, <2>1 DEF CommitSubmitting, Goto, leaseVars
  <2>5. QED
    BY <2>1, <2>3, <2>4 DEF Writes
<1>3. ASSUME NEW w \in Workers, CommitCancel(w)
      PROVE  \E o \in Orders : Writes(w, o)
  <2>1. PICK o \in Orders : o = hand[w].order
    BY <1>0, <1>3 DEF CommitCancel, CancelInv, CancellerOK
  <2>2. row'[o] = [row[o] EXCEPT !.status = "CANCEL_PENDING", !.armed = FALSE] /\ at[w] = "cancelClaimed"
    BY <1>0, <1>3, <2>1 DEF CommitCancel
  <2>3. SameQuantities(row'[o], row[o]) /\ Cancels(w, o)
    BY <1>0, <2>2 DEF Cancels, SameQuantities, Row
  <2>4. /\ \A u \in Orders : u # o => row'[u] = row[u]
        /\ \A v \in Workers : v # w => at'[v] = at[v] /\ hand'[v] = hand[v]
        /\ Trespass(w) /\ UNCHANGED <<imported, brokerVars, snap, lease, identity>>
    BY <1>0, <1>3, <2>1 DEF CommitCancel, Goto, leaseVars
  <2>5. QED
    BY <2>1, <2>3, <2>4 DEF Writes
<1>4. ASSUME NEW w \in Workers, FinishSend(w)
      PROVE  UNCHANGED rowVars \/ \E o \in Orders : Writes(w, o)
  <2>1. CASE UNCHANGED row
    BY <1>4, <2>1 DEF FinishSend, rowVars
  <2>2. CASE row' # row
    <3>1. PICK o \in Orders, answer \in {"ack", "rejected", "unknown"} : o = hand[w].order /\ answer = hand[w].answer
      BY <1>0, <1>4 DEF FinishSend, SendInv, SenderOK, SendPlaces, Answers
    <3>2. /\ at[w] = "finishing" /\ row[o].status = "SUBMITTING" /\ ~(answer = "ack" /\ imported[o].hasId)
          /\ row' = [row EXCEPT ![o] = Answered(o, answer)] /\ Trespass(w)
          /\ hand' = [hand EXCEPT ![w] = Empty]
          /\ Goto(w, IF answer = "unknown" THEN "uncertain" ELSE "receive")
          /\ UNCHANGED <<imported, brokerVars, snap, lease, identity>>
      BY <1>4, <2>2, <3>1 DEF FinishSend
    <3>3. /\ \A u \in Orders : u # o => row'[u] = row[u]
          /\ row'[o] = Answered(o, answer)
          /\ \A v \in Workers : v # w => at'[v] = at[v] /\ hand'[v] = hand[v]
          /\ answer = "unknown" => at'[w] = "uncertain"
      BY <1>0, <3>2 DEF Goto
    <3>4. SameQuantities(row'[o], row[o]) /\ Records(w, o)
      BY <1>0, <3>1, <3>2, <3>3, AnsweredRow DEF Records
    <3>5. QED
      BY <3>1, <3>2, <3>3, <3>4 DEF Writes
  <2>3. QED
    BY <2>1, <2>2
<1>5. ASSUME NEW w \in Workers, FinishCancel(w)
      PROVE  UNCHANGED rowVars \/ \E o \in Orders : Writes(w, o)
  <2>0. PICK o \in Orders, answer \in {"ack", "rejected", "unknown"} : o = hand[w].order /\ answer = hand[w].answer
    BY <1>0, <1>5 DEF FinishCancel, CancelInv, CancellerOK, CancelPlaces, Answers
  <2>1. CASE answer = "ack"
    <3>1. row' = [row EXCEPT ![o].status = row[o].status] /\ imported' = imported
      BY <1>5, <2>0, <2>1 DEF FinishCancel
    <3>2. row' = row
      BY <1>0, <3>1 DEF Row
    <3>3. QED
      BY <3>1, <3>2 DEF rowVars
  <2>2. CASE answer # "ack" /\ row[o].status # "CANCEL_PENDING"
    BY <1>5, <2>0, <2>2 DEF FinishCancel, rowVars
  <2>3. CASE answer # "ack" /\ row[o].status = "CANCEL_PENDING"
    <3>1. PICK status \in {"UNKNOWN", "RECONCILING"} : status = IF answer = "rejected" THEN "RECONCILING" ELSE "UNKNOWN"
      OBVIOUS
    <3>2. /\ at[w] = "cancelFinishing" /\ row' = [row EXCEPT ![o].status = status] /\ Trespass(w)
          /\ hand' = [hand EXCEPT ![w] = Empty] /\ Goto(w, "uncertain")
          /\ UNCHANGED <<imported, brokerVars, snap, lease, identity>>
      BY <1>5, <2>0, <2>3, <3>1 DEF FinishCancel
    <3>3. /\ \A u \in Orders : u # o => row'[u] = row[u]
          /\ row'[o] = [row[o] EXCEPT !.status = status]
          /\ \A v \in Workers : v # w => at'[v] = at[v] /\ hand'[v] = hand[v]
          /\ at'[w] = "uncertain"
      BY <1>0, <3>2 DEF Goto
    <3>4. SameQuantities(row'[o], row[o]) /\ Doubts(w, o)
      BY <1>0, <2>3, <3>2, <3>3 DEF Doubts, SameQuantities, Row
    <3>5. QED
      BY <2>0, <3>2, <3>3, <3>4 DEF Writes
  <2>4. QED
    BY <2>1, <2>2, <2>3
<1>6. \/ UNCHANGED rowVars
      \/ \E o \in Orders : create_order(o)
      \/ \E w \in Workers : CommitSubmitting(w) \/ CommitCancel(w) \/ FinishSend(w) \/ FinishCancel(w)
      \/ \E p \in Procs : ReconcileCommit(p)
  BY ZenonT(60) DEF Next, vars, rowVars, WorkerStep, Crash, ReconcileStep, BrokerStep, Expire, Acquire, StartReconcile,
     ApplyResult, Reconnect, NotReady, Claim, ClaimCancel, Transmit, SendAnswer, TransmitCancel,
     CancelAnswer, ReceiveAnswer, ReconcileBegin, ReadOpenOrders, ReadFills, ReconcileFails,
     BrokerDecides, BrokerDecidesCancel, BrokerFills, BrokerCloses
<1>7. QED
  BY <1>1, <1>2, <1>3, <1>4, <1>5, <1>6 DEF RowsMove

-----------------------------------------------------------------------------
(***************************************************************************)
(* Facts without a lease.                                                  *)
(***************************************************************************)

\* What the broker knows of an order by itself.
BrokerFits(o) ==
    /\ wire[o] = "accepted" => broker[o].state # "none"
    /\ broker[o].filled = Quantity => broker[o].state = "filled"
    /\ broker[o].state = "filled" => broker[o].filled = Quantity

\* The broker only adds fills, and an order that is closed does not change.
LEMMA BrokerGrows ==
    ASSUME DispatchInv, [Next]_vars, NEW o \in Orders, BrokerFits(o)
    PROVE  /\ BrokerFits(o)'
           /\ broker[o].filled <= broker'[o].filled
           /\ broker[o].state # "none" => broker'[o].state # "none"
           /\ broker[o].state \in {"filled", "cancelled"} => broker'[o] = broker[o]
<1> DEFINE Goal == /\ BrokerFits(o)'
                   /\ broker[o].filled <= broker'[o].filled
                   /\ broker[o].state # "none" => broker'[o].state # "none"
                   /\ broker[o].state \in {"filled", "cancelled"} => broker'[o] = broker[o]
<1>0. /\ broker \in [Orders -> [state : {"none", "open", "filled", "cancelled"}, filled : 0..Quantity]]
      /\ wire \in [Orders -> Fates \cup {"none", "pending"}]
      /\ broker[o].filled \in Nat /\ SendInv /\ Quantity \in Nat \ {0}
  BY DispatchAssumption DEF DispatchInv, TypeOK
<1>1. CASE UNCHANGED <<broker, wire>>
  BY <1>0, <1>1 DEF BrokerFits
<1>2. ASSUME NEW w \in Workers, Transmit(w)
      PROVE  Goal
  <2>1. broker' = broker /\ (wire'[o] = wire[o] \/ wire'[o] = "pending")
    BY <1>0, <1>2 DEF Transmit
  <2>2. QED
    BY <1>0, <2>1 DEF BrokerFits
<1>3. ASSUME NEW u \in Orders, NEW fate \in Fates, BrokerDecides(u, fate)
      PROVE  Goal
  <2>1. CASE u # o
    <3>1. broker'[o] = broker[o] /\ wire'[o] = wire[o]
      BY <1>0, <1>3, <2>1 DEF BrokerDecides
    <3>2. QED
      BY <1>0, <3>1 DEF BrokerFits
  <2>2. CASE u = o
    <3>1. broker[o] = [state |-> "none", filled |-> 0]
      BY <1>0, <1>3, <2>2 DEF BrokerDecides, SendInv, OrderOK
    <3>2. wire'[o] = fate /\ (fate \notin Accepting => broker'[o] = broker[o])
          /\ (fate \in Accepting => broker'[o] = [broker[o] EXCEPT !.state = "open"])
      BY <1>0, <1>3, <2>2 DEF BrokerDecides
    <3>3. fate \in Accepting => broker'[o].state = "open" /\ broker'[o].filled = 0
      BY <3>1, <3>2
    <3>4. QED
      BY <1>0, <3>1, <3>2, <3>3 DEF BrokerFits, Accepting
  <2>3. QED
    BY <2>1, <2>2
<1>4. ASSUME NEW u \in Orders, BrokerFills(u)
      PROVE  Goal
  <2>1. CASE u # o
    <3>1. broker'[o] = broker[o] /\ wire' = wire
      BY <1>0, <1>4, <2>1 DEF BrokerFills
    <3>2. QED
      BY <1>0, <3>1 DEF BrokerFits
  <2>2. CASE u = o
    <3>1. /\ broker[o].state = "open" /\ wire' = wire
          /\ broker'[o].filled = broker[o].filled + 1
          /\ broker'[o].state = IF broker[o].filled + 1 = Quantity THEN "filled" ELSE "open"
      BY <1>0, <1>4, <2>2 DEF BrokerFills
    <3>2. QED
      BY <1>0, <3>1 DEF BrokerFits
  <2>3. QED
    BY <2>1, <2>2
<1>5. ASSUME NEW u \in Orders, BrokerCloses(u)
      PROVE  Goal
  <2>1. CASE u # o
    <3>1. broker'[o] = broker[o] /\ wire' = wire
      BY <1>0, <1>5, <2>1 DEF BrokerCloses
    <3>2. QED
      BY <1>0, <3>1 DEF BrokerFits
  <2>2. CASE u = o
    <3>1. /\ broker[o].state = "open" /\ wire' = wire
          /\ broker'[o].filled = broker[o].filled
          /\ broker'[o].state = "cancelled"
      BY <1>0, <1>5, <2>2 DEF BrokerCloses
    <3>2. QED
      BY <1>0, <3>1 DEF BrokerFits
  <2>3. QED
    BY <2>1, <2>2
<1>6. \/ UNCHANGED <<broker, wire>>
      \/ \E w \in Workers : Transmit(w)
      \/ \E u \in Orders : BrokerFills(u) \/ BrokerCloses(u) \/ \E fate \in Fates : BrokerDecides(u, fate)
  BY ZenonT(60) DEF Next, vars, brokerVars, WorkerStep, Crash, ReconcileStep, BrokerStep, Expire, Acquire, StartReconcile,
     ApplyResult, Reconnect, NotReady, Claim, ClaimCancel, CommitSubmitting, SendAnswer, FinishSend,
     CommitCancel, TransmitCancel, CancelAnswer, FinishCancel, ReceiveAnswer, ReconcileBegin,
     ReadOpenOrders, ReadFills, ReconcileCommit, ReconcileFails, create_order, BrokerDecidesCancel
<1>7. QED
  BY <1>1, <1>2, <1>3, <1>4, <1>5, <1>6

\* A request that was answered is not on the wire again: only the worker with the
\* order in its hand transmits it.
LEMMA WireMoves ==
    ASSUME DispatchInv, [Next]_vars, NEW o \in Orders
    PROVE  \/ wire'[o] = wire[o]
           \/ wire[o] = "pending"
           \/ \E w \in Workers : at[w] = "sending" /\ hand[w].order = o /\ row[o].status = "SUBMITTING"
                                 /\ UNCHANGED <<row, hand>> /\ at'[w] = "awaiting"
                                 /\ \A v \in Workers : v # w => at'[v] = at[v]
<1>0. /\ wire \in [Orders -> Fates \cup {"none", "pending"}] /\ SendInv
      /\ at \in [Procs -> Places] /\ Workers \subseteq Procs
  BY DEF DispatchInv, TypeOK, Procs
<1>1. CASE UNCHANGED wire
  BY <1>1
<1>2. ASSUME NEW w \in Workers, Transmit(w), wire'[o] # wire[o]
      PROVE  /\ at[w] = "sending" /\ hand[w].order = o /\ row[o].status = "SUBMITTING"
             /\ UNCHANGED <<row, hand>> /\ at'[w] = "awaiting"
             /\ \A v \in Workers : v # w => at'[v] = at[v]
  BY <1>0, <1>2 DEF Transmit, SendInv, SenderOK, SendPlaces, rowVars, Goto
<1>3. ASSUME NEW u \in Orders, NEW fate \in Fates, BrokerDecides(u, fate)
      PROVE  wire'[o] = wire[o] \/ wire[o] = "pending"
  BY <1>0, <1>3 DEF BrokerDecides
<1>4. \/ UNCHANGED wire
      \/ \E w \in Workers : Transmit(w)
      \/ \E u \in Orders : \E fate \in Fates : BrokerDecides(u, fate)
  BY ZenonT(60) DEF Next, vars, brokerVars, WorkerStep, Crash, ReconcileStep, BrokerStep, Expire, Acquire, StartReconcile,
     ApplyResult, Reconnect, NotReady, Claim, ClaimCancel, CommitSubmitting, SendAnswer, FinishSend,
     CommitCancel, TransmitCancel, CancelAnswer, FinishCancel, ReceiveAnswer, ReconcileBegin,
     ReadOpenOrders, ReadFills, ReconcileCommit, ReconcileFails, create_order, BrokerDecidesCancel,
     BrokerFills, BrokerCloses
<1>5. QED
  BY <1>1, <1>2, <1>3, <1>4

\* A projected row is consistent, has an id and is not ahead of the broker, if the
\* row and the snapshot were.
LEMMA ProjectedTruth ==
    ASSUME NEW r \in Row, NEW o \in Orders, NEW s \in Snapshot, NEW b \in 0..Quantity,
           ConsistentRow(r), r.hasId \/ o \in s.listed,
           r.filled <= b, s.filledAtOpen[o] <= b, s.fills[o] <= b,
           o \in s.listed => s.filledAtOpen[o] < Quantity
    PROVE  /\ ConsistentRow(Projected(r, o, s))
           /\ Projected(r, o, s).hasId
           /\ Projected(r, o, s).filled <= b
<1>0. /\ s.filledAtOpen[o] \in 0..Quantity /\ s.fills[o] \in 0..Quantity /\ r.filled \in 0..Quantity
      /\ Quantity \in Nat \ {0} /\ 0 \in 0..Quantity
  BY DispatchAssumption DEF Snapshot, Row
<1>1. ASSUME NEW filled \in 0..Quantity, filled < Quantity
      PROVE  /\ ConsistentRow(OpenProjected(r, filled))
             /\ OpenProjected(r, filled).hasId
             /\ OpenProjected(r, filled).filled = filled
  <2> DEFINE q == OpenProjected(r, filled)
  <2>1. /\ q.status = OpenStatus(filled) /\ q.filled = filled /\ q.cancelled = 0
        /\ q.remaining = Quantity - filled /\ q.hasId
    BY DEF OpenProjected, Row
  <2> HIDE DEF q
  <2>2. QED
    BY <1>0, <1>1, <2>1 DEF ConsistentRow, OpenStatus, q
<1>2. ASSUME NEW total \in 0..Quantity, r.hasId
      PROVE  /\ ConsistentRow(FillProjected(r, total))
             /\ FillProjected(r, total).hasId
             /\ FillProjected(r, total).filled = total
  <2> DEFINE q == FillProjected(r, total)
  <2>1. /\ q.status = (IF total = Quantity THEN "FILLED" ELSE "RECONCILING") /\ q.filled = total
        /\ q.cancelled = 0 /\ q.remaining = Quantity - total /\ q.hasId
    BY <1>0, <1>2 DEF FillProjected, Row
  <2> HIDE DEF q
  <2>2. QED
    BY <1>0, <2>1 DEF ConsistentRow, Cancellable, q
<1>3. ASSUME NEW total \in 0..Quantity, r.hasId
      PROVE  /\ ConsistentRow(CancelProjected(r, total))
             /\ CancelProjected(r, total).hasId
             /\ CancelProjected(r, total).filled = total
  <2> DEFINE q == CancelProjected(r, total)
  <2>1. /\ q.status = ClosedStatus(total) /\ q.filled = total
        /\ q.cancelled = Quantity - total /\ q.remaining = 0 /\ q.hasId
    BY <1>3 DEF CancelProjected, Row
  <2> HIDE DEF q
  <2>2. QED
    BY <1>0, <2>1 DEF ConsistentRow, ClosedStatus, q
<1>4. CASE o \in s.listed
  <2>1. Projected(r, o, s) = OpenProjected(r, s.filledAtOpen[o])
    BY <1>4 DEF Projected
  <2>2. QED
    BY <1>0, <1>1, <1>4, <2>1
<1>5. CASE o \notin s.listed /\ r.status = "CANCEL_PENDING"
  <2>1. PICK total \in 0..Quantity : total = IF s.fills[o] > 0 THEN s.fills[o] ELSE r.filled
    BY <1>0
  <2>2. Projected(r, o, s) = CancelProjected(r, total) /\ total <= b
    BY <1>5, <2>1 DEF Projected
  <2>3. QED
    BY <1>3, <1>5, <2>2
<1>6. CASE o \notin s.listed /\ r.status # "CANCEL_PENDING" /\ s.fills[o] > 0
  <2>1. Projected(r, o, s) = FillProjected(r, s.fills[o])
    BY <1>6 DEF Projected
  <2>2. QED
    BY <1>0, <1>2, <1>6, <2>1
<1>7. CASE o \notin s.listed /\ r.status # "CANCEL_PENDING" /\ ~(s.fills[o] > 0)
  <2>1. Projected(r, o, s) = r
    BY <1>7 DEF Projected
  <2>2. QED
    BY <1>7, <2>1
<1>8. QED
  BY <1>4, <1>5, <1>6, <1>7

\* The ways in which the snapshot of a process changes.
SnapMoves(p) ==
    \/ snap'[p] = snap[p]
    \/ snap'[p] = NoSnapshot
    \/ ReadOpenOrders(p) /\ snap'[p].listed = OpenAtBroker /\ snap'[p].fills = snap[p].fills
       /\ snap'[p].filledAtOpen = [o \in Orders |-> IF o \in OpenAtBroker THEN broker[o].filled ELSE 0]
    \/ ReadFills(p) /\ snap'[p].listed = snap[p].listed /\ snap'[p].filledAtOpen = snap[p].filledAtOpen
       /\ snap'[p].fills = [o \in Orders |-> broker[o].filled]

LEMMA SnapMovesSo ==
    ASSUME DispatchInv, [Next]_vars, NEW p \in Procs
    PROVE  SnapMoves(p)
<1>0. snap \in [Procs -> Snapshot] /\ Workers \subseteq Procs
  BY DEF DispatchInv, TypeOK, Procs
<1>1. CASE UNCHANGED snap
  BY <1>1 DEF SnapMoves
<1>2. ASSUME NEW q \in Procs, snap' = [snap EXCEPT ![q] = NoSnapshot]
      PROVE  SnapMoves(p)
  BY <1>0, <1>2 DEF SnapMoves
<1>3. ASSUME NEW q \in Procs, ReadOpenOrders(q)
      PROVE  SnapMoves(p)
  <2> DEFINE filled == [o \in Orders |-> IF o \in OpenAtBroker THEN broker[o].filled ELSE 0]
  <2>1. snap' = [snap EXCEPT ![q].listed = OpenAtBroker, ![q].filledAtOpen = filled]
    BY <1>3 DEF ReadOpenOrders
  <2> HIDE DEF filled
  <2>2. CASE q # p
    BY <1>0, <2>1, <2>2 DEF SnapMoves
  <2>3. CASE q = p
    <3>1. snap'[p] = [snap[p] EXCEPT !.listed = OpenAtBroker, !.filledAtOpen = filled]
      BY <1>0, <2>1, <2>3
    <3>2. snap'[p].listed = OpenAtBroker /\ snap'[p].filledAtOpen = filled /\ snap'[p].fills = snap[p].fills
      BY <1>0, <3>1 DEF Snapshot
    <3>3. QED
      BY <1>3, <2>3, <3>2 DEF SnapMoves, filled
  <2>4. QED
    BY <2>2, <2>3
<1>4. ASSUME NEW q \in Procs, ReadFills(q)
      PROVE  SnapMoves(p)
  <2> DEFINE fills == [o \in Orders |-> broker[o].filled]
  <2>1. snap' = [snap EXCEPT ![q].fills = fills]
    BY <1>4 DEF ReadFills
  <2> HIDE DEF fills
  <2>2. CASE q # p
    BY <1>0, <2>1, <2>2 DEF SnapMoves
  <2>3. CASE q = p
    <3>1. snap'[p] = [snap[p] EXCEPT !.fills = fills]
      BY <1>0, <2>1, <2>3
    <3>2. snap'[p].listed = snap[p].listed /\ snap'[p].filledAtOpen = snap[p].filledAtOpen /\ snap'[p].fills = fills
      BY <1>0, <3>1 DEF Snapshot
    <3>3. QED
      BY <1>4, <2>3, <3>2 DEF SnapMoves, fills
  <2>4. QED
    BY <2>2, <2>3
<1>5. \/ UNCHANGED snap
      \/ \E q \in Procs : \/ snap' = [snap EXCEPT ![q] = NoSnapshot]
                          \/ ReadOpenOrders(q) \/ ReadFills(q)
  BY <1>0, ZenonT(60) DEF Next, vars, brokerVars, WorkerStep, Crash, ReconcileStep, BrokerStep, Expire, Acquire, StartReconcile,
     ApplyResult, Reconnect, NotReady, Claim, ClaimCancel, CommitSubmitting, Transmit, SendAnswer, FinishSend,
     CommitCancel, TransmitCancel, CancelAnswer, FinishCancel, ReceiveAnswer, ReconcileBegin,
     ReconcileCommit, ReconcileFails, create_order, BrokerDecides, BrokerDecidesCancel,
     BrokerFills, BrokerCloses
<1>6. QED
  BY <1>1, <1>2, <1>3, <1>4, <1>5

\* No snapshot gets ahead of the broker.
LEMMA SnapStep ==
    ASSUME DispatchInv, [Next]_vars, NEW p \in Procs, NEW o \in Orders, BrokerFits(o), SnapBehindBroker(p, o)
    PROVE  SnapBehindBroker(p, o)'
<1>0. /\ broker[o].filled \in Nat /\ snap[p] \in Snapshot /\ SendInv /\ Quantity \in Nat \ {0}
      /\ snap[p].filledAtOpen[o] \in Nat /\ snap[p].fills[o] \in Nat
      /\ broker'[o].filled \in Nat
  <2>1. TypeOK'
    BY DispatchInvStep DEF DispatchInv
  <2>2. QED
    BY <2>1, DispatchAssumption DEF DispatchInv, TypeOK, Snapshot
<1>1. broker[o].filled <= broker'[o].filled
  BY BrokerGrows
<1>2. CASE snap'[p] = snap[p]
  BY <1>0, <1>1, <1>2 DEF SnapBehindBroker
<1>3. CASE snap'[p] = NoSnapshot
  BY <1>0, <1>1, <1>3 DEF SnapBehindBroker, NoSnapshot
<1>4. CASE snap'[p].listed = OpenAtBroker /\ snap'[p].fills = snap[p].fills
           /\ snap'[p].filledAtOpen = [u \in Orders |-> IF u \in OpenAtBroker THEN broker[u].filled ELSE 0]
  <2>1. snap'[p].filledAtOpen[o] = IF o \in OpenAtBroker THEN broker[o].filled ELSE 0
    BY <1>4
  <2>2. o \in OpenAtBroker => broker[o].filled < Quantity
    BY <1>0 DEF OpenAtBroker, SendInv, OrderOK
  <2>3. QED
    BY <1>0, <1>1, <1>4, <2>1, <2>2 DEF SnapBehindBroker
<1>5. CASE snap'[p].listed = snap[p].listed /\ snap'[p].filledAtOpen = snap[p].filledAtOpen
           /\ snap'[p].fills = [u \in Orders |-> broker[u].filled]
  BY <1>0, <1>1, <1>5 DEF SnapBehindBroker
<1>6. QED
  BY <1>2, <1>3, <1>4, <1>5, SnapMovesSo DEF SnapMoves

\* The ways into the middle of recording an answer, or of a cancel.
HandMoves(w) ==
    \/ at'[w] = at[w] /\ hand'[w] = hand[w]
    \/ at'[w] \notin CancelPlaces \cup {"finishing", "cancelClaimed"}
    \/ /\ at'[w] = "finishing" /\ hand'[w].order = hand[w].order /\ UNCHANGED <<wire, row>>
       /\ \/ at[w] = "sending" /\ hand'[w].answer = "rejected"
          \/ at[w] = "awaiting" /\ hand'[w].answer \in AnswersTo(wire[hand[w].order])
    \/ /\ at'[w] \in CancelPlaces /\ hand'[w].order = hand[w].order
       /\ at[w] \in CancelPlaces \cup {"cancelClaimed"}
    \/ at'[w] = "cancelClaimed" /\ row[hand'[w].order].status \in Cancellable /\ UNCHANGED row

LEMMA HandMovesSo ==
    ASSUME DispatchInv, [Next]_vars, NEW w \in Workers
    PROVE  HandMoves(w)
<1>0. /\ at \in [Procs -> Places] /\ hand \in [Workers -> [order : Orders \cup {0}, answer : Answers]]
      /\ Workers \subseteq Procs
  BY DEF DispatchInv, TypeOK, Procs
<1>1. CASE UNCHANGED <<at, hand>>
  BY <1>1 DEF HandMoves
<1>2. ASSUME NEW p \in Procs, NEW place, UNCHANGED hand \/ hand' = [hand EXCEPT ![p] = Empty],
             Goto(p, place), place \notin CancelPlaces \cup {"finishing", "cancelClaimed"}
      PROVE  HandMoves(w)
  BY <1>0, <1>2 DEF HandMoves, Goto
<1>3. ASSUME NEW v \in Workers, WorkerStep(v) \/ Crash(v)
      PROVE  HandMoves(w)
  <2>1. CASE \/ Acquire(v) \/ StartReconcile(v) \/ ApplyResult(v) \/ Reconnect(v) \/ NotReady(v)
             \/ CommitSubmitting(v) \/ Transmit(v) \/ Crash(v)
    BY <1>0, <1>2, <2>1 DEF Acquire, StartReconcile, ApplyResult, Reconnect, NotReady, CommitSubmitting,
       Transmit, Crash, CancelPlaces
  <2>2. ASSUME NEW o \in Orders, Claim(v, o)
        PROVE  HandMoves(w)
    BY <1>0, <2>2 DEF Claim, Goto, HandMoves, CancelPlaces
  <2>3. ASSUME NEW o \in Orders, ClaimCancel(v, o)
        PROVE  HandMoves(w)
    BY <1>0, <2>3 DEF ClaimCancel, NextExpired, Goto, HandMoves, CancelPlaces, rowVars
  <2>4. CASE CommitCancel(v) \/ TransmitCancel(v)
    BY <1>0, <2>4 DEF CommitCancel, TransmitCancel, Goto, HandMoves, CancelPlaces
  <2>5. CASE FinishSend(v)
    <3>1. PICK place \in {"ended", "uncertain", "receive"} : Goto(v, place)
      BY <2>5 DEF FinishSend
    <3>2. QED
      BY <1>0, <1>2, <2>5, <3>1 DEF FinishSend, CancelPlaces
  <2>6. CASE FinishCancel(v)
    <3>1. PICK place \in {"ended", "uncertain", "receive"} : Goto(v, place)
      BY <2>6 DEF FinishCancel
    <3>2. QED
      BY <1>0, <1>2, <2>6, <3>1 DEF FinishCancel, CancelPlaces
  <2>7. CASE SendAnswer(v)
    <3>1. PICK answer \in Answers :
             /\ \/ at[v] = "sending" /\ answer = "rejected"
                \/ at[v] = "awaiting" /\ answer \in AnswersTo(wire[hand[v].order])
             /\ \/ Goto(v, "finishing") /\ hand' = [hand EXCEPT ![v].answer = answer]
                \/ Goto(v, "failed") /\ hand' = [hand EXCEPT ![v] = Empty]
             /\ UNCHANGED <<row, wire>>
      BY <2>7 DEF SendAnswer, ReceiveAnswer, rowVars, brokerVars
    <3>2. CASE Goto(v, "failed") /\ hand' = [hand EXCEPT ![v] = Empty]
      BY <1>0, <1>2, <3>2 DEF CancelPlaces
    <3>3. CASE Goto(v, "finishing") /\ hand' = [hand EXCEPT ![v].answer = answer]
      <4>1. CASE w # v
        BY <1>0, <3>3, <4>1 DEF HandMoves, Goto
      <4>2. CASE w = v
        <5>1. at'[w] = "finishing" /\ hand'[w].order = hand[w].order /\ hand'[w].answer = answer
          BY <1>0, <3>3, <4>2 DEF Goto
        <5>2. QED
          BY <3>1, <4>2, <5>1 DEF HandMoves
      <4>3. QED
        BY <4>1, <4>2
    <3>4. QED
      BY <3>1, <3>2, <3>3
  <2>8. CASE CancelAnswer(v)
    <3>1. PICK answer \in Answers :
             /\ at[v] \in {"cancelSending", "cancelAwaiting"}
             /\ \/ Goto(v, "cancelFinishing") /\ hand' = [hand EXCEPT ![v].answer = answer]
                \/ Goto(v, "failed") /\ hand' = [hand EXCEPT ![v] = Empty]
      BY <2>8 DEF CancelAnswer, ReceiveAnswer
    <3>2. CASE Goto(v, "failed") /\ hand' = [hand EXCEPT ![v] = Empty]
      BY <1>0, <1>2, <3>2 DEF CancelPlaces
    <3>3. CASE Goto(v, "cancelFinishing") /\ hand' = [hand EXCEPT ![v].answer = answer]
      BY <1>0, <3>1, <3>3 DEF HandMoves, Goto, CancelPlaces
    <3>4. QED
      BY <3>1, <3>2, <3>3
  <2>9. QED
    BY <1>3, <2>1, <2>2, <2>3, <2>4, <2>5, <2>6, <2>7, <2>8 DEF WorkerStep
<1>4. ASSUME NEW p \in Procs, ReconcileStep(p)
      PROVE  HandMoves(w)
  <2>1. PICK place \in {"recOpen", "recFills", "recProject", "idle", "recCritical", "recClean", "failed"} :
             Goto(p, place)
    BY <1>4 DEF ReconcileStep, ReconcileBegin, ReadOpenOrders, ReadFills, ReconcileCommit, ReconcileFails
  <2>2. UNCHANGED hand
    BY <1>4 DEF ReconcileStep, ReconcileBegin, ReadOpenOrders, ReadFills, ReconcileCommit, ReconcileFails
  <2>3. QED
    BY <1>2, <2>1, <2>2 DEF CancelPlaces
<1>5. QED
  BY <1>1, <1>3, <1>4 DEF Next, vars, create_order, BrokerStep, BrokerDecides, BrokerDecidesCancel,
     BrokerFills, BrokerCloses, Expire

\* The rows of one order.
RowTruth(o) ==
    /\ ConsistentRow(row[o]) /\ ConsistentRow(imported[o])
    /\ ~(row[o].hasId /\ imported[o].hasId)
    /\ row[o].hasId => broker[o].state # "none"
    /\ row[o].filled <= broker[o].filled /\ imported[o].filled <= broker[o].filled

LEMMA TruthParts ==
    TruthInv <=> /\ \A w \in Workers : AnswerOK(w) /\ CancelHasId(w)
                 /\ \A o \in Orders : RowTruth(o) /\ BrokerFits(o)
                 /\ \A p \in Procs, o \in Orders : SnapBehindBroker(p, o)
                 /\ RejectedStaysOut
BY DEF TruthInv, RowTruth, BrokerFits, BehindBroker, RowsAreConsistent

\* Whatever changes a row keeps it consistent and true.
LEMMA RowTruthStep ==
    ASSUME DispatchInv, TruthInv, [Next]_vars, NEW o \in Orders
    PROVE  RowTruth(o)' /\ (row[o].hasId => row'[o].hasId)
<1>0. /\ RowTruth(o) /\ BrokerFits(o) /\ row[o] \in Row /\ imported[o] \in Row
      /\ \A p \in Procs : SnapBehindBroker(p, o) /\ snap[p] \in Snapshot
      /\ broker[o].filled \in 0..Quantity /\ broker[o].filled \in Nat
      /\ row[o].filled \in Nat /\ imported[o].filled \in Nat /\ Quantity \in Nat \ {0}
      /\ row[o].cancelled \in Nat /\ row[o].remaining \in Nat
      /\ TypeOK /\ SendInv /\ CancelInv
  BY TruthParts, DispatchAssumption DEF DispatchInv, TypeOK, Row
<1>1. /\ broker[o].filled <= broker'[o].filled /\ broker'[o].filled \in Nat
      /\ broker[o].state # "none" => broker'[o].state # "none"
  <2>1. TypeOK'
    BY DispatchInvStep DEF DispatchInv
  <2>2. broker'[o].filled \in Nat
    BY <2>1, DispatchAssumption DEF TypeOK
  <2>3. QED
    BY <1>0, <2>2, BrokerGrows
<1>2. CASE row'[o] = row[o] /\ imported'[o] = imported[o]
  BY <1>0, <1>1, <1>2 DEF RowTruth
<1>3. CASE Creates(o) /\ create_order(o)
  <2>1. imported' = imported /\ ~row[o].hasId
    BY <1>0, <1>3 DEF create_order, Creates, SendInv, OrderOK, Early, Unsent
  <2>2. QED
    BY <1>0, <1>1, <1>3, <2>1 DEF Creates, RowTruth, ConsistentRow, Cancellable
<1>4. ASSUME NEW w \in Workers, Writes(w, o)
      PROVE  RowTruth(o)' /\ (row[o].hasId => row'[o].hasId)
  <2>1. /\ imported' = imported /\ SameQuantities(row'[o], row[o]) /\ o = hand[w].order
        /\ Submits(w, o) \/ Records(w, o) \/ Cancels(w, o) \/ Doubts(w, o)
    BY <1>4 DEF Writes
  <2>2. CASE Submits(w, o)
    BY <1>0, <1>1, <2>1, <2>2 DEF Submits, SameQuantities, RowTruth, ConsistentRow, Cancellable
  <2>3. CASE Records(w, o)
    <3>1. hand[w].answer = "ack" => broker[o].state # "none"
      <4>1. hand[w].answer = "ack" => wire[o] = "accepted"
        BY <2>1, <2>3 DEF Records, TruthInv, AnswerOK
      <4>2. QED
        BY <1>0, <4>1 DEF BrokerFits
    <3>2. QED
      BY <1>0, <1>1, <2>1, <2>3, <3>1, SMTT(40) DEF Records, SameQuantities, RowTruth, ConsistentRow, Cancellable
  <2>4. CASE Cancels(w, o)
    <3>1. row[o].hasId /\ row[o].status # "ABSENT"
      BY <1>0, <2>1, <2>4 DEF Cancels, TruthInv, CancelHasId, CancelInv, CancellerOK, Early, Unsent
    <3>2. QED
      BY <1>0, <1>1, <2>1, <2>4, <3>1 DEF Cancels, SameQuantities, RowTruth, ConsistentRow, Cancellable
  <2>5. CASE Doubts(w, o)
    BY <1>0, <1>1, <2>1, <2>5, SMTT(40) DEF Doubts, SameQuantities, RowTruth, ConsistentRow, Cancellable
  <2>6. QED
    BY <2>1, <2>2, <2>3, <2>4, <2>5
<1>5. ASSUME NEW p \in Procs, ReconcileCommit(p)
      PROVE  RowTruth(o)' /\ (row[o].hasId => row'[o].hasId)
  <2>1. PICK s \in Snapshot : s = snap[p]
    BY <1>0
  <2>2. row' = RowsAfter(s) /\ imported' = ImportsAfter(s)
    BY <1>5, <2>1 DEF ReconcileCommit
  <2>3. /\ s.filledAtOpen[o] <= broker[o].filled /\ s.fills[o] <= broker[o].filled
        /\ o \in s.listed => s.filledAtOpen[o] < Quantity
    BY <1>0, <2>1 DEF SnapBehindBroker
  <2>4. PICK b \in 0..Quantity : b = broker[o].filled
    BY <1>0
  <2>5. /\ row'[o] = IF row[o].hasId THEN Projected(row[o], o, s) ELSE row[o]
        /\ imported'[o] = IF ~row[o].hasId /\ (imported[o].hasId \/ o \in s.listed)
                          THEN Projected(imported[o], o, s) ELSE imported[o]
    BY <2>2 DEF RowsAfter, ImportsAfter
  <2>6. ASSUME NEW r \in Row, ConsistentRow(r), r.filled <= b, r.hasId \/ o \in s.listed
        PROVE  /\ ConsistentRow(Projected(r, o, s)) /\ Projected(r, o, s).hasId
               /\ Projected(r, o, s).filled <= b /\ Projected(r, o, s).filled \in Nat
    <3>1. Projected(r, o, s) \in Row
      BY ProjectedRow
    <3>2. QED
      BY <2>3, <2>4, <2>6, <3>1, ProjectedTruth, DispatchAssumption DEF Row
  <2>7. CASE row[o].hasId
    <3>1. /\ ConsistentRow(row'[o]) /\ row'[o].hasId /\ row'[o].filled <= b /\ row'[o].filled \in Nat
          /\ imported'[o] = imported[o]
      BY <1>0, <2>4, <2>5, <2>6, <2>7 DEF RowTruth
    <3>2. QED
      BY <1>0, <1>1, <2>4, <2>7, <3>1 DEF RowTruth
  <2>8. CASE ~row[o].hasId /\ (imported[o].hasId \/ o \in s.listed)
    <3>1. /\ ConsistentRow(imported'[o]) /\ imported'[o].filled <= b /\ imported'[o].filled \in Nat
          /\ row'[o] = row[o]
      BY <1>0, <2>4, <2>5, <2>6, <2>8 DEF RowTruth
    <3>2. QED
      BY <1>0, <1>1, <2>4, <2>8, <3>1 DEF RowTruth
  <2>9. CASE ~row[o].hasId /\ ~(imported[o].hasId \/ o \in s.listed)
    BY <1>2, <2>5, <2>9
  <2>10. QED
    BY <2>7, <2>8, <2>9
<1>6. CASE UNCHANGED rowVars
  BY <1>2, <1>6 DEF rowVars
<1>7. ASSUME NEW u \in Orders, u # o, Creates(u) /\ create_order(u)
      PROVE  row'[o] = row[o] /\ imported'[o] = imported[o]
  BY <1>0, <1>7 DEF create_order, TypeOK
<1>8. ASSUME NEW w \in Workers, NEW u \in Orders, u # o, Writes(w, u)
      PROVE  row'[o] = row[o] /\ imported'[o] = imported[o]
  BY <1>8 DEF Writes
<1>9. QED
  BY <1>2, <1>3, <1>4, <1>5, <1>6, <1>7, <1>8, RowsMoveSo DEF RowsMove

\* The answer a worker holds stays true until it is recorded.
LEMMA AnswerStep ==
    ASSUME DispatchInv, TruthInv, [Next]_vars, NEW w \in Workers
    PROVE  AnswerOK(w)'
<1>0. /\ SendInv /\ AnswerOK(w) /\ SenderOK(w) /\ \A o \in Orders : OrderOK(o)
      /\ \A v \in Workers : v # w => SendersApart(w, v)
  BY DEF DispatchInv, TruthInv, SendInv
<1>1. SUFFICES ASSUME at'[w] = "finishing"
               PROVE  /\ hand'[w].answer = "rejected" => wire'[hand'[w].order] \in {"none", "refused", "garbled"}
                      /\ hand'[w].answer = "ack" => wire'[hand'[w].order] = "accepted"
  BY DEF AnswerOK
<1>2. CASE at'[w] = at[w] /\ hand'[w] = hand[w]
  <2>1. PICK o \in Orders : o = hand[w].order
    BY <1>0, <1>1, <1>2 DEF SenderOK, SendPlaces
  <2>2. hand[w].answer \in {"rejected", "ack"} => wire[o] # "pending"
    BY <1>0, <1>1, <1>2, <2>1 DEF AnswerOK
  <2>3. hand[w].answer \in {"rejected", "ack"} => wire'[o] = wire[o]
    <3>1. ASSUME NEW v \in Workers, at[v] = "sending", hand[v].order = o, at'[v] = "awaiting"
          PROVE  FALSE
      <4>1. v # w
        BY <1>1, <1>2, <3>1
      <4>2. hand[v].order # hand[w].order
        BY <1>0, <1>1, <1>2, <3>1, <4>1 DEF SendersApart, SendPlaces
      <4>3. QED
        BY <2>1, <3>1, <4>2
    <3>2. QED
      BY <2>2, <3>1, WireMoves
  <2>4. QED
    BY <1>0, <1>1, <1>2, <2>1, <2>3 DEF AnswerOK
<1>3. CASE /\ hand'[w].order = hand[w].order /\ UNCHANGED <<wire, row>>
           /\ at[w] = "sending" /\ hand'[w].answer = "rejected"
  <2>1. hand[w].order \in Orders /\ sends[hand[w].order] = 0
    BY <1>0, <1>3 DEF SenderOK, SendPlaces
  <2>2. wire[hand[w].order] = "none"
    BY <1>0, <2>1 DEF OrderOK
  <2>3. QED
    BY <1>3, <2>2
<1>4. CASE /\ hand'[w].order = hand[w].order /\ UNCHANGED <<wire, row>>
           /\ at[w] = "awaiting" /\ hand'[w].answer \in AnswersTo(wire[hand[w].order])
  <2>1. /\ hand'[w].answer = "rejected" => wire[hand[w].order] \in {"refused", "garbled"}
        /\ hand'[w].answer = "ack" => wire[hand[w].order] = "accepted"
    BY <1>4 DEF AnswersTo
  <2>2. QED
    BY <1>4, <2>1
<1>5. QED
  BY <1>1, <1>2, <1>3, <1>4, HandMovesSo DEF HandMoves, CancelPlaces

\* A row never loses its broker id, and only a row with one is claimed for a cancel.
LEMMA CancelHasIdStep ==
    ASSUME DispatchInv, TruthInv, [Next]_vars, NEW w \in Workers
    PROVE  CancelHasId(w)'
<1>0. /\ CancelHasId(w) /\ \A o \in Orders : RowTruth(o) /\ (row[o].hasId => row'[o].hasId)
  BY RowTruthStep, TruthParts
<1>1. SUFFICES ASSUME at'[w] \in CancelPlaces \cup {"cancelClaimed"}
               PROVE  row'[hand'[w].order].hasId
  BY DEF CancelHasId
<1>2. hand'[w].order \in Orders
  BY <1>1, DispatchInvStep DEF DispatchInv, CancelInv, CancellerOK
<1>3. CASE at[w] \in CancelPlaces \cup {"cancelClaimed"} /\ hand'[w].order = hand[w].order
  BY <1>0, <1>2, <1>3 DEF CancelHasId
<1>4. CASE row[hand'[w].order].status \in Cancellable /\ UNCHANGED row
  BY <1>0, <1>2, <1>4 DEF RowTruth, ConsistentRow
<1>5. QED
  BY <1>1, <1>3, <1>4, HandMovesSo DEF HandMoves, CancelPlaces

\* A rejection is recorded of a request that is not on its way, and nothing is
\* transmitted for a rejected order.
LEMMA RejectStep ==
    ASSUME DispatchInv, TruthInv, [Next]_vars
    PROVE  RejectedStaysOut'
<1>0. /\ SendInv /\ RejectedStaysOut /\ \A w \in Workers : AnswerOK(w)
      /\ row \in [Orders -> Row] /\ imported \in [Orders -> Row]
      /\ \A p \in Procs : snap[p] \in Snapshot
  BY DEF DispatchInv, TruthInv, TypeOK
<1>1. SUFFICES ASSUME NEW o \in Orders, row'[o].status = "REJECTED"
               PROVE  wire'[o] \in {"none", "refused", "garbled"}
  BY DEF RejectedStaysOut
<1>2. CASE row[o].status = "REJECTED"
  BY <1>0, <1>2, WireMoves DEF RejectedStaysOut
<1>3. CASE row[o].status # "REJECTED"
  <2>1. ASSUME NEW w \in Workers, Writes(w, o)
        PROVE  wire'[o] \in {"none", "refused", "garbled"}
    <3>1. Records(w, o) /\ hand[w].answer = "rejected" /\ o = hand[w].order /\ wire' = wire
      BY <1>1, <1>3, <2>1 DEF Writes, Submits, Records, Cancels, Doubts, brokerVars
    <3>2. QED
      BY <1>0, <3>1 DEF Records, AnswerOK
  <2>2. ASSUME NEW p \in Procs, ReconcileCommit(p)
        PROVE  FALSE
    <3>1. row'[o] = RowsAfter(snap[p])[o]
      BY <2>2 DEF ReconcileCommit
    <3>2. RowsAfter(snap[p])[o].status \in {row[o].status, "OPEN", "PARTIALLY_FILLED", "FILLED",
                                            "CANCELLED", "RECONCILING"}
      BY <1>0, ReconciledRow DEF DispatchInv
    <3>3. QED
      BY <1>1, <1>3, <3>1, <3>2
  <2>3. ASSUME NEW u \in Orders, Creates(u) /\ create_order(u)
        PROVE  FALSE
    <3>1. row'[o] = row[o] \/ row'[o].status = "CREATED"
      BY <1>0, <2>3 DEF create_order, Creates
    <3>2. QED
      BY <1>1, <1>3, <3>1
  <2>4. ASSUME NEW w \in Workers, NEW u \in Orders, u # o, Writes(w, u)
        PROVE  FALSE
    BY <1>1, <1>3, <2>4 DEF Writes
  <2>5. ~UNCHANGED rowVars
    BY <1>1, <1>3 DEF rowVars
  <2>6. QED
    BY <2>1, <2>2, <2>3, <2>4, <2>5, RowsMoveSo DEF RowsMove
<1>4. QED
  BY <1>2, <1>3

\* TruthInv is inductive, given DispatchInv.
LEMMA TruthStep ==
    ASSUME DispatchInv, TruthInv, [Next]_vars
    PROVE  TruthInv'
<1>1. /\ \A o \in Orders : BrokerFits(o)
      /\ \A p \in Procs, o \in Orders : SnapBehindBroker(p, o)
  BY TruthParts
<1>2. \A o \in Orders : RowTruth(o)' /\ BrokerFits(o)'
  BY <1>1, RowTruthStep, BrokerGrows
<1>3. \A p \in Procs, o \in Orders : SnapBehindBroker(p, o)'
  BY <1>1, SnapStep
<1>4. \A w \in Workers : AnswerOK(w)' /\ CancelHasId(w)'
  BY AnswerStep, CancelHasIdStep
<1>5. RejectedStaysOut'
  BY RejectStep
<1>6. QED
  BY <1>2, <1>3, <1>4, <1>5 DEF TruthInv, RowTruth, BrokerFits, BehindBroker, RowsAreConsistent

LEMMA TruthInvariant == Spec => [](DispatchInv /\ TruthInv)
<1>1. Init => TruthInv
  <2>1. SUFFICES ASSUME Init PROVE TruthInv
    OBVIOUS
  <2>2. \A w \in Workers : AnswerOK(w) /\ CancelHasId(w)
    BY <2>1 DEF Init, AnswerOK, CancelHasId, CancelPlaces, Procs
  <2>3. \A o \in Orders : BehindBroker(o)
    BY <2>1, DispatchAssumption DEF Init, BehindBroker, NoRow
  <2>4. \A p \in Procs, o \in Orders : SnapBehindBroker(p, o)
    BY <2>1, DispatchAssumption DEF Init, SnapBehindBroker, NoSnapshot
  <2>5. RejectedStaysOut /\ RowsAreConsistent
    BY <2>1 DEF Init, RejectedStaysOut, RowsAreConsistent, ConsistentRow, NoRow, Cancellable
  <2>6. QED
    BY <2>2, <2>3, <2>4, <2>5 DEF TruthInv
<1>2. DispatchInv /\ DispatchInv' /\ TruthInv /\ [Next]_vars => TruthInv'
  BY TruthStep
<1>3. QED
  BY <1>1, <1>2, DispatchInvariant, PTL DEF Spec

\* An order shown as REJECTED was not transmitted, was refused, or was accepted
\* with an answer whose return_code is unclear; its request is not on its way, not
\* lost and did not time out (order_sender.py, _finish_send), for any number of
\* workers and orders.
THEOREM DispatchRejectedStaysOut == Spec => []RejectedStaysOut
<1>1. TruthInv => RejectedStaysOut
  BY DEF TruthInv
<1>2. QED
  BY <1>1, TruthInvariant, PTL

\* The quantities of a row add up and fit its status, and no broker order is
\* carried by two rows (account_projection.py, order_sender.py), for any quantity.
THEOREM DispatchRowsAreConsistent == Spec => []RowsAreConsistent
<1>1. TruthInv => RowsAreConsistent
  BY DEF TruthInv
<1>2. QED
  BY <1>1, TruthInvariant, PTL

-----------------------------------------------------------------------------
(***************************************************************************)
(* Facts under the lease, as long as nobody wrote without one.             *)
(***************************************************************************)

\* A write that is no trespass is one of the owner of the lease.
LEMMA NoTrespass ==
    ASSUME NEW p \in Procs, Trespass(p), ~intruded'
    PROVE  ~intruded /\ p \in Workers /\ lease_is_current(p)
<1>1. ~(intruded \/ p \in Clis \/ (p \in Workers /\ ~lease_is_current(p)))
  BY Zenon DEF Trespass
<1>2. QED
  BY <1>1 DEF Procs

\* The step is not one of worker w.
ByOthers(w) ==
    \/ \E v \in Workers : v # w /\ (WorkerStep(v) \/ Crash(v))
    \/ \E p \in Procs : p # w /\ ReconcileStep(p)
    \/ \E o \in Orders : create_order(o) \/ BrokerStep(o)
    \/ Expire
    \/ UNCHANGED vars

Rests(w) == at'[w] = at[w] /\ hand'[w] = hand[w] /\ snap'[w] = snap[w]

\* Nothing but new orders changes in the rows.
RowsRest ==
    /\ imported' = imported
    /\ \A o \in Orders : row'[o] = row[o] \/ Creates(o)

\* While w owns the lease, what the others do leaves the rows and the readiness
\* of w alone.
LEMMA OthersRest ==
    ASSUME DispatchInv, [Next]_vars, NEW w \in Workers, ByOthers(w), ~intruded', lease_is_current(w)'
    PROVE  /\ lease_is_current(w) /\ ~intruded /\ Rests(w) /\ RowsRest
           /\ WorkerReady(w)' => WorkerReady(w)
<1> DEFINE Goal == /\ lease_is_current(w) /\ ~intruded /\ Rests(w) /\ RowsRest
                   /\ WorkerReady(w)' => WorkerReady(w)
<1>0. /\ at \in [Procs -> Places] /\ hand \in [Workers -> [order : Orders \cup {0}, answer : Answers]]
      /\ snap \in [Procs -> Snapshot] /\ Workers \subseteq Procs /\ LeaseTypeOK
      /\ row \in [Orders -> Row]
  BY DEF DispatchInv, TypeOK, Procs
<1>1. ASSUME NEW v \in Workers, v # w, lease' = lease, identity' = identity
      PROVE  ~lease_is_current(v)
  BY <1>1 DEF lease_is_current, OwnsLeaseRow
<1>2. ASSUME NEW p \in Procs, p # w, Trespass(p), lease' = lease, identity' = identity
      PROVE  FALSE
  BY <1>1, <1>2, NoTrespass
<1>3. ASSUME UNCHANGED <<leaseVars, rowVars, intruded>>, Rests(w)
      PROVE  Goal
  BY <1>3 DEF leaseVars, rowVars, RowsRest, WorkerReady, lease_is_current, OwnsLeaseRow
<1>4. ASSUME NEW p \in Procs, p # w, NEW place, Goto(p, place),
             UNCHANGED hand \/ (\E x : hand' = [hand EXCEPT ![p] = x]),
             UNCHANGED snap \/ (\E x : snap' = [snap EXCEPT ![p] = x])
      PROVE  Rests(w)
  BY <1>0, <1>4 DEF Goto, Rests
<1>5. ASSUME NEW v \in Workers, v # w, WorkerStep(v) \/ Crash(v)
      PROVE  Goal
  <2>1. CASE Acquire(v)
    <3>1. lease'.owner = v
      BY <2>1 DEF Acquire, acquire_lease
    <3>2. QED
      BY <1>5, <3>1 DEF lease_is_current, OwnsLeaseRow
  <2>2. CASE StartReconcile(v) \/ ApplyResult(v) \/ Reconnect(v)
    <3>1. PICK place : Goto(v, place)
      BY <2>2 DEF StartReconcile, ApplyResult, Reconnect
    <3>2. Rests(w)
      BY <1>0, <1>4, <1>5, <2>2, <3>1 DEF StartReconcile, ApplyResult, Reconnect
    <3>3. lease' = lease /\ identity' = identity
      BY <2>2 DEF StartReconcile, ApplyResult, Reconnect, update_worker_state, WriteWorkerState, leaseVars
    <3>4. ~lease_is_current(v)
      BY <1>1, <1>5, <3>3
    <3>5. UNCHANGED <<leaseVars, rowVars, intruded>>
      BY <2>2, <3>4 DEF StartReconcile, ApplyResult, Reconnect, update_worker_state
    <3>6. QED
      BY <1>3, <3>2, <3>5
  <2>3. CASE NotReady(v) \/ Transmit(v) \/ TransmitCancel(v) \/ Crash(v)
             \/ \E o \in Orders : Claim(v, o) \/ ClaimCancel(v, o)
    <3>1. Rests(w)
      BY <1>0, <1>5, <2>3 DEF NotReady, Transmit, TransmitCancel, Crash, Claim, ClaimCancel, Goto, Rests
    <3>2. UNCHANGED <<leaseVars, rowVars, intruded>>
      BY <2>3 DEF NotReady, Transmit, TransmitCancel, Crash, Claim, ClaimCancel
    <3>3. QED
      BY <1>3, <3>1, <3>2
  <2>4. CASE CommitSubmitting(v) \/ CommitCancel(v)
    BY <1>0, <1>2, <1>5, <2>4 DEF CommitSubmitting, CommitCancel, leaseVars
  <2>5. CASE SendAnswer(v) \/ CancelAnswer(v)
    <3>1. Rests(w)
      BY <1>0, <1>5, <2>5 DEF SendAnswer, CancelAnswer, ReceiveAnswer, Goto, Rests
    <3>2. UNCHANGED <<leaseVars, rowVars, intruded>>
      BY <2>5 DEF SendAnswer, CancelAnswer, ReceiveAnswer
    <3>3. QED
      BY <1>3, <3>1, <3>2
  <2>6. ASSUME Goto(v, "ended"), GiveUp(v), UNCHANGED <<rowVars, snap, intruded>>,
               hand' = [hand EXCEPT ![v] = Empty]
        PROVE  Goal
    <3>1. lease' = lease /\ identity' = identity
      BY <2>6 DEF GiveUp, update_worker_state, WriteWorkerState, leaseVars
    <3>2. UNCHANGED leaseVars
      BY <1>1, <1>5, <2>6, <3>1 DEF GiveUp, update_worker_state
    <3>3. Rests(w)
      BY <1>0, <1>5, <2>6 DEF Goto, Rests
    <3>4. QED
      BY <1>3, <2>6, <3>2, <3>3
  <2>7. CASE FinishSend(v)
    <3>1. CASE Trespass(v) /\ UNCHANGED <<lease, identity>>
      BY <1>0, <1>2, <1>5, <3>1
    <3>2. QED
      BY <2>6, <2>7, <3>1 DEF FinishSend, rowVars
  <2>8. CASE FinishCancel(v)
    <3>1. CASE Trespass(v) /\ UNCHANGED <<lease, identity>>
      BY <1>0, <1>2, <1>5, <3>1
    <3>2. QED
      BY <2>6, <2>8, <3>1 DEF FinishCancel, rowVars
  <2>9. QED
    BY <1>5, <2>1, <2>2, <2>3, <2>4, <2>5, <2>7, <2>8 DEF WorkerStep
<1>6. ASSUME NEW p \in Procs, p # w, ReconcileStep(p)
      PROVE  Goal
  <2>1. CASE ReconcileBegin(p) \/ ReconcileCommit(p) \/ ReconcileFails(p)
    BY <1>2, <1>6, <2>1 DEF ReconcileBegin, ReconcileCommit, ReconcileFails
  <2>2. CASE ReadOpenOrders(p) \/ ReadFills(p)
    <3>1. Rests(w)
      BY <1>0, <1>6, <2>2 DEF ReadOpenOrders, ReadFills, Goto, Rests
    <3>2. UNCHANGED <<leaseVars, rowVars, intruded>>
      BY <2>2 DEF ReadOpenOrders, ReadFills
    <3>3. QED
      BY <1>3, <3>1, <3>2
  <2>3. QED
    BY <1>6, <2>1, <2>2 DEF ReconcileStep
<1>7. ASSUME NEW o \in Orders, create_order(o)
      PROVE  Goal
  <2>1. RowsRest
    <3>1. Creates(o)
      <4>1. row'[o] = [NoRow EXCEPT !.status = "CREATED", !.remaining = Quantity] /\ row[o].status = "ABSENT"
        BY <1>0, <1>7 DEF create_order
      <4>2. QED
        BY <4>1 DEF Creates, NoRow
    <3>2. QED
      BY <1>0, <1>7, <3>1 DEF create_order, RowsRest
  <2>2. QED
    BY <1>7, <2>1 DEF create_order, leaseVars, Rests, WorkerReady, lease_is_current, OwnsLeaseRow
<1>8. ASSUME NEW o \in Orders, BrokerStep(o)
      PROVE  Goal
  BY <1>3, <1>8 DEF BrokerStep, BrokerDecides, BrokerDecidesCancel, BrokerFills, BrokerCloses, Rests
<1>9. CASE Expire
  <2>1. ~lease'.live
    BY <1>0, <1>9 DEF Expire, ExpireLease, LeaseTypeOK
  <2>2. QED
    BY <2>1 DEF lease_is_current
<1>10. CASE UNCHANGED vars
  BY <1>3, <1>10 DEF vars, Rests
<1>11. QED
  BY <1>5, <1>6, <1>7, <1>8, <1>9, <1>10 DEF ByOthers

\* A step is one of worker w or one of the others.
LEMMA StepOf ==
    ASSUME [Next]_vars, NEW w \in Workers
    PROVE  ByOthers(w) \/ WorkerStep(w) \/ Crash(w) \/ ReconcileStep(w)
<1>1. ASSUME NEW v \in Workers, WorkerStep(v) \/ Crash(v)
      PROVE  ByOthers(w) \/ WorkerStep(w) \/ Crash(w)
  BY <1>1, Zenon DEF ByOthers
<1>2. ASSUME NEW p \in Procs, ReconcileStep(p)
      PROVE  ByOthers(w) \/ ReconcileStep(w)
  BY <1>2, Zenon DEF ByOthers
<1>3. ASSUME NEW o \in Orders, create_order(o) \/ BrokerStep(o)
      PROVE  ByOthers(w)
  BY <1>3, Zenon DEF ByOthers
<1>4. CASE Expire \/ UNCHANGED vars
  BY <1>4, Zenon DEF ByOthers
<1>5. QED
  BY <1>1, <1>2, <1>3, <1>4, Zenon DEF Next

\* The history variable is never reset.
LEMMA IntrusionStays ==
    ASSUME [Next]_vars, intruded
    PROVE  intruded'
<1>1. ASSUME NEW p, Trespass(p)
      PROVE  intruded'
  BY <1>1, Zenon DEF Trespass
<1>2. ASSUME NEW w \in Workers, WorkerStep(w) \/ Crash(w)
      PROVE  intruded'
  <2>1. CASE Acquire(w) \/ StartReconcile(w) \/ ApplyResult(w) \/ Reconnect(w) \/ NotReady(w) \/ Crash(w)
             \/ Transmit(w) \/ TransmitCancel(w) \/ SendAnswer(w) \/ CancelAnswer(w)
             \/ \E o \in Orders : Claim(w, o) \/ ClaimCancel(w, o)
    BY <2>1 DEF Acquire, StartReconcile, ApplyResult, Reconnect, NotReady, Crash, Transmit, TransmitCancel,
       SendAnswer, CancelAnswer, ReceiveAnswer, Claim, ClaimCancel
  <2>2. CASE CommitSubmitting(w) \/ CommitCancel(w)
    BY <1>1, <2>2 DEF CommitSubmitting, CommitCancel
  <2>3. CASE FinishSend(w) \/ FinishCancel(w)
    BY <1>1, <2>3 DEF FinishSend, FinishCancel
  <2>4. QED
    BY <1>2, <2>1, <2>2, <2>3 DEF WorkerStep
<1>3. ASSUME NEW p \in Procs, ReconcileStep(p)
      PROVE  intruded'
  BY <1>1, <1>3 DEF ReconcileStep, ReconcileBegin, ReadOpenOrders, ReadFills, ReconcileCommit, ReconcileFails
<1>4. ASSUME NEW o \in Orders, create_order(o) \/ BrokerStep(o)
      PROVE  intruded'
  BY <1>4 DEF create_order, BrokerStep, BrokerDecides, BrokerDecidesCancel, BrokerFills, BrokerCloses
<1>5. CASE Expire \/ UNCHANGED vars
  BY <1>5 DEF Expire, vars
<1>6. QED
  BY <1>2, <1>3, <1>4, <1>5 DEF Next

\* What the snapshot of the owner of the lease says of closed orders stays true
\* until it is projected.
LEMMA SnapIsFinalStep ==
    ASSUME DispatchInv, TruthInv, FenceInv, [Next]_vars, ~intruded', NEW w \in Workers
    PROVE  SnapIsFinal(w)'
<1>1. SUFFICES ASSUME lease_is_current(w)', at'[w] \in {"recFills", "recProject"},
                      NEW o \in Orders, row'[o].hasId, o \notin snap'[w].listed
               PROVE  /\ broker'[o].state \in {"filled", "cancelled"}
                      /\ at'[w] = "recProject" => snap'[w].fills[o] = broker'[o].filled
  BY DEF SnapIsFinal
<1>2. ~intruded /\ SnapIsFinal(w) /\ RowTruth(o) /\ BrokerFits(o)
  BY IntrusionStays, TruthParts DEF FenceInv
<1>3. /\ at \in [Procs -> Places] /\ snap \in [Procs -> Snapshot] /\ Workers \subseteq Procs
      /\ broker[o].state \in {"none", "open", "filled", "cancelled"}
  BY DEF DispatchInv, TypeOK, Procs
<1>4. broker[o].state \in {"filled", "cancelled"} => broker'[o] = broker[o]
  BY <1>2, BrokerGrows
<1>5. CASE ByOthers(w)
  <2>1. lease_is_current(w) /\ Rests(w) /\ RowsRest
    BY <1>1, <1>5, OthersRest
  <2>2. row[o].hasId
    BY <1>1, <2>1 DEF RowsRest, Creates
  <2>3. QED
    BY <1>1, <1>2, <1>4, <2>1, <2>2 DEF Rests, SnapIsFinal
<1>6. CASE WorkerStep(w) \/ Crash(w)
  <2>1. CASE FinishSend(w) \/ FinishCancel(w)
    <3>1. PICK place \in {"ended", "uncertain", "receive"} : at' = [at EXCEPT ![w] = place]
      BY <2>1 DEF FinishSend, FinishCancel, Goto
    <3>2. QED
      BY <1>1, <1>3, <3>1
  <2>2. CASE ~(FinishSend(w) \/ FinishCancel(w))
    BY <1>1, <1>3, <1>6, <2>2 DEF WorkerStep, Acquire, StartReconcile, ApplyResult, Reconnect, NotReady,
       Crash, Claim, ClaimCancel, CommitSubmitting, Transmit, SendAnswer, CommitCancel, TransmitCancel,
       CancelAnswer, ReceiveAnswer, Goto
  <2>3. QED
    BY <2>1, <2>2
<1>7. CASE ReconcileStep(w)
  <2>1. CASE ReconcileBegin(w) \/ ReconcileCommit(w) \/ ReconcileFails(w)
    BY <1>1, <1>3, <2>1, DispatchAssumption DEF ReconcileBegin, ReconcileCommit, ReconcileFails, Goto
  <2>2. CASE ReadOpenOrders(w)
    <3>1. at'[w] = "recFills" /\ row' = row /\ broker' = broker /\ snap'[w].listed = OpenAtBroker
      BY <1>3, <2>2 DEF ReadOpenOrders, Goto, rowVars, brokerVars, Snapshot
    <3>2. QED
      BY <1>1, <1>2, <1>3, <3>1 DEF OpenAtBroker, RowTruth
  <2>3. CASE ReadFills(w)
    <3>1. /\ at[w] = "recFills" /\ row' = row /\ broker' = broker /\ snap'[w].listed = snap[w].listed
          /\ snap'[w].fills = [u \in Orders |-> broker[u].filled]
      BY <1>3, <2>3 DEF ReadFills, Goto, rowVars, brokerVars, Snapshot
    <3>2. lease_is_current(w)
      BY <1>1, <2>3 DEF ReadFills, leaseVars, lease_is_current, OwnsLeaseRow
    <3>3. QED
      BY <1>1, <1>2, <3>1, <3>2 DEF SnapIsFinal
  <2>4. QED
    BY <1>7, <2>1, <2>2, <2>3 DEF ReconcileStep
<1>8. QED
  BY <1>5, <1>6, <1>7, StepOf

\* CANCELLED comes from a projection under the lease, whose snapshot is final.
LEMMA CancelledStep ==
    ASSUME DispatchInv, TruthInv, FenceInv, [Next]_vars, ~intruded', NEW o \in Orders
    PROVE  CancelledIsTrue(o)'
<1>1. SUFFICES ASSUME row'[o].status = "CANCELLED"
               PROVE  broker'[o] = [state |-> "cancelled", filled |-> row'[o].filled]
  BY DEF CancelledIsTrue
<1>2. ~intruded /\ CancelledIsTrue(o) /\ RowTruth(o) /\ BrokerFits(o)
  BY IntrusionStays, TruthParts DEF FenceInv
<1>3. broker[o].state \in {"filled", "cancelled"} => broker'[o] = broker[o]
  BY <1>2, BrokerGrows
<1>4. CASE row'[o] = row[o]
  BY <1>1, <1>2, <1>3, <1>4 DEF CancelledIsTrue
<1>5. ASSUME NEW p \in Procs, ReconcileCommit(p), row'[o] # row[o]
      PROVE  broker'[o] = [state |-> "cancelled", filled |-> row'[o].filled]
  <2>1. p \in Workers /\ lease_is_current(p)
    BY <1>5, NoTrespass DEF ReconcileCommit
  <2>2. SnapIsFinal(p) /\ at[p] = "recProject"
    BY <1>2, <1>5, <2>1 DEF FenceInv, ReconcileCommit
  <2>3. PICK s \in Snapshot : s = snap[p]
    BY DEF DispatchInv, TypeOK
  <2>4. row' = RowsAfter(s) /\ broker' = broker
    BY <1>5, <2>3 DEF ReconcileCommit, brokerVars
  <2>5. row[o].hasId /\ row'[o] = Projected(row[o], o, s)
    BY <1>5, <2>4 DEF RowsAfter
  <2>6. PICK r \in Row : r = row[o]
    BY DEF DispatchInv, TypeOK
  <2>7. PICK b \in [state : {"none", "open", "filled", "cancelled"}, filled : 0..Quantity] : b = broker[o]
    BY DEF DispatchInv, TypeOK
  <2>8. s.fills[o] \in 0..Quantity /\ r.filled \in 0..Quantity /\ b.filled \in 0..Quantity /\ Quantity \in Nat
    BY DispatchAssumption DEF Snapshot, Row
  <2>9. o \notin s.listed
    <3>1. OpenProjected(r, s.filledAtOpen[o]).status # "CANCELLED"
      BY DEF OpenProjected, OpenStatus, Row
    <3>2. QED
      BY <1>1, <2>5, <2>6, <3>1 DEF Projected
  <2>10. b.state \in {"filled", "cancelled"} /\ s.fills[o] = b.filled
    BY <2>1, <2>2, <2>3, <2>5, <2>7, <2>9 DEF SnapIsFinal
  <2>11. r.status # "CANCEL_PENDING" => s.fills[o] > 0 /\ row'[o] = FillProjected(r, s.fills[o])
    BY <1>5, <2>5, <2>6, <2>9 DEF Projected
  <2>12. FillProjected(r, s.fills[o]).status # "CANCELLED"
    BY DEF FillProjected, Row
  <2>13. r.status = "CANCEL_PENDING"
    BY <1>1, <2>11, <2>12
  <2>14. PICK total \in 0..Quantity : total = IF s.fills[o] > 0 THEN s.fills[o] ELSE r.filled
    BY <2>8
  <2>15. row'[o] = CancelProjected(r, total)
    BY <2>5, <2>6, <2>9, <2>13, <2>14 DEF Projected
  <2>16. total = b.filled
    <3>1. r.filled <= b.filled
      BY <1>2, <2>6, <2>7 DEF RowTruth
    <3>2. QED
      BY <2>8, <2>10, <2>14, <3>1
  <2>17. row'[o].status = ClosedStatus(total) /\ row'[o].filled = total
    BY <2>15 DEF CancelProjected, Row
  <2>18. total # Quantity
    BY <1>1, <2>17 DEF ClosedStatus
  <2>19. b.state = "cancelled"
    BY <1>2, <2>7, <2>10, <2>16, <2>18 DEF BrokerFits
  <2>20. QED
    BY <2>4, <2>7, <2>16, <2>17, <2>19
<1>6. ASSUME NEW v \in Workers, NEW u \in Orders, Writes(v, u)
      PROVE  row'[o] = row[o]
  BY <1>1, <1>6 DEF Writes, Submits, Records, Cancels, Doubts
<1>7. ASSUME NEW u \in Orders, Creates(u), create_order(u)
      PROVE  row'[o] = row[o]
  <2>1. o # u
    BY <1>1, <1>7 DEF Creates
  <2>2. QED
    BY <1>7, <2>1 DEF create_order, DispatchInv, TypeOK
<1>8. CASE UNCHANGED rowVars
  BY <1>4, <1>8 DEF rowVars
<1>9. QED
  BY <1>4, <1>5, <1>6, <1>7, <1>8, RowsMoveSo DEF RowsMove

\* A reconciliation under the lease that is not critical leaves no row that it
\* compares in doubt.
LEMMA CleanIsCertain ==
    ASSUME DispatchInv, NEW p \in Procs, ReconcileCommit(p), at'[p] = "recClean", NEW o \in Orders,
           p \in Workers, ~(row[o].hasId /\ imported[o].hasId)
    PROVE  Certain(o)'
<1>1. PICK s \in Snapshot : s = snap[p]
  BY DEF DispatchInv, TypeOK
<1>2. row' = RowsAfter(s) /\ imported' = ImportsAfter(s)
  BY <1>1 DEF ReconcileCommit
<1>3. /\ row \in [Orders -> Row] /\ imported \in [Orders -> Row]
      /\ at \in [Procs -> Places] /\ p \notin Clis
  BY DispatchAssumption DEF DispatchInv, TypeOK
<1>4. ~\E u \in Orders : Mismatch(u, RowsAfter(s)[u], s) \/ Mismatch(u, ImportsAfter(s)[u], s)
  BY <1>1, <1>3 DEF ReconcileCommit, Goto
<1>5. ~Mismatch(o, row'[o], s) /\ ~Mismatch(o, imported'[o], s)
  BY <1>2, <1>4
<1>6. /\ row'[o].status \in Visible => row'[o].hasId /\ o \in s.listed
      /\ imported'[o].status \in Visible => imported'[o].hasId /\ o \in s.listed
  BY <1>5 DEF Mismatch
<1>7. ASSUME NEW r \in Row, o \in s.listed
      PROVE  Projected(r, o, s).status \in {"OPEN", "PARTIALLY_FILLED"}
  BY <1>7 DEF Projected, OpenProjected, OpenStatus, Row
<1>8. row'[o].hasId /\ o \in s.listed => row'[o].status \in {"OPEN", "PARTIALLY_FILLED"}
  BY <1>2, <1>3, <1>7 DEF RowsAfter
<1>9. row'[o].status \notin Uncertain
  BY <1>6, <1>8 DEF Uncertain, Visible
<1>10. imported'[o].status # "RECONCILING"
  <2>1. SUFFICES ASSUME imported'[o].status = "RECONCILING"
                 PROVE  FALSE
    OBVIOUS
  <2>2. imported'[o].hasId /\ o \in s.listed
    BY <1>6, <2>1 DEF Visible
  <2>3. imported'[o] = imported[o] /\ row[o].hasId
    BY <1>2, <1>3, <1>7, <2>1, <2>2 DEF ImportsAfter
  <2>4. QED
    BY <2>1, <2>2, <2>3
<1>11. QED
  BY <1>9, <1>10 DEF Certain

\* The owner of the lease keeps its orders certain: what it sends or cancels is
\* in its hand, and an uncertain outcome leads it away from the next order.
LEMMA OthersCertainStep ==
    ASSUME DispatchInv, TruthInv, FenceInv, [Next]_vars, ~intruded', NEW w \in Workers
    PROVE  OthersCertain(w)'
<1>1. SUFFICES ASSUME lease_is_current(w)'
               PROVE  OthersCertain(w)'
  BY DEF OthersCertain
<1>2. ~intruded /\ OthersCertain(w) /\ SendInv /\ CancelInv
  BY IntrusionStays DEF FenceInv, DispatchInv
<1>3. /\ at \in [Procs -> Places] /\ hand \in [Workers -> [order : Orders \cup {0}, answer : Answers]]
      /\ row \in [Orders -> Row] /\ Workers \subseteq Procs
  BY DEF DispatchInv, TypeOK, Procs
<1>4. ASSUME UNCHANGED <<lease, identity>>
      PROVE  lease_is_current(w)
  BY <1>1, <1>4 DEF lease_is_current, OwnsLeaseRow
<1>5. ASSUME at'[w] \notin InHand \cup {"recClean", "receive"}
      PROVE  OthersCertain(w)'
  BY <1>5 DEF OthersCertain
<1>6. CASE ByOthers(w)
  <2>1. lease_is_current(w) /\ Rests(w) /\ RowsRest /\ (WorkerReady(w)' => WorkerReady(w))
    BY <1>1, <1>6, OthersRest
  <2>2. \A o \in Orders : /\ imported'[o] = imported[o]
                          /\ Certain(o) => Certain(o)'
    BY <2>1 DEF RowsRest, Creates, Certain, Uncertain
  <2>3. QED
    BY <1>2, <2>1, <2>2 DEF OthersCertain, Rests
<1>7. CASE Acquire(w) \/ StartReconcile(w) \/ Reconnect(w) \/ NotReady(w) \/ Crash(w)
  BY <1>3, <1>5, <1>7 DEF Acquire, StartReconcile, Reconnect, NotReady, Crash, Goto, InHand, SendPlaces,
     CancelPlaces
<1>8. CASE ApplyResult(w)
  <2>1. CASE at[w] = "recClean" /\ lease_is_current(w)
    <3>1. at'[w] = "receive" /\ UNCHANGED rowVars
      BY <1>3, <1>8, <2>1 DEF ApplyResult, Goto
    <3>2. \A o \in Orders : Certain(o)'
      BY <1>2, <2>1, <3>1 DEF OthersCertain, Certain, rowVars
    <3>3. QED
      BY <3>1, <3>2 DEF OthersCertain, InHand, SendPlaces, CancelPlaces
  <2>2. CASE at[w] = "recCritical" /\ lease_is_current(w)
    <3>1. at'[w] = "receive" /\ workerState'.state = "DEGRADED"
      BY <1>3, <1>8, <2>2 DEF ApplyResult, Goto, WriteWorkerState
    <3>2. QED
      BY <3>1 DEF OthersCertain, WorkerReady, InHand, SendPlaces, CancelPlaces
  <2>3. CASE ~lease_is_current(w)
    BY <1>1, <1>4, <1>8, <2>3 DEF ApplyResult, leaseVars
  <2>4. QED
    BY <1>8, <2>1, <2>2, <2>3 DEF ApplyResult
<1>9. ASSUME NEW o \in Orders, Claim(w, o) \/ ClaimCancel(w, o)
      PROVE  OthersCertain(w)'
  <2>1. /\ at[w] = "receive" /\ WorkerReady(w) /\ at'[w] \in {"claimed", "cancelClaimed"}
        /\ UNCHANGED rowVars
    BY <1>3, <1>9 DEF Claim, ClaimCancel, Goto
  <2>2. \A u \in Orders : Certain(u)'
    BY <1>2, <2>1 DEF OthersCertain, WorkerReady, Certain, rowVars
  <2>3. QED
    BY <2>1, <2>2 DEF OthersCertain, Certain
<1>10. ASSUME UNCHANGED <<lease, identity, imported>>, hand'[w].order = hand[w].order,
              at[w] \in InHand, at'[w] \in InHand, \A o \in Orders : o # hand[w].order => row'[o] = row[o]
       PROVE  OthersCertain(w)'
  <2>1. lease_is_current(w)
    BY <1>4, <1>10
  <2>2. \A o \in Orders : /\ imported'[o].status # "RECONCILING"
                          /\ o # hand'[w].order => Certain(o)'
    BY <1>2, <1>10, <2>1 DEF OthersCertain, Certain
  <2>3. at'[w] # "recClean" /\ at'[w] # "receive"
    BY <1>10 DEF InHand, SendPlaces, CancelPlaces
  <2>4. QED
    BY <2>2, <2>3 DEF OthersCertain
<1>11. CASE CommitSubmitting(w) \/ CommitCancel(w) \/ Transmit(w) \/ TransmitCancel(w)
  <2>1. at[w] \in InHand /\ at'[w] \in InHand /\ hand' = hand
    BY <1>3, <1>11 DEF CommitSubmitting, CommitCancel, Transmit, TransmitCancel, Goto, InHand, SendPlaces,
       CancelPlaces
  <2>2. UNCHANGED <<lease, identity, imported>> /\ \A o \in Orders : o # hand[w].order => row'[o] = row[o]
    BY <1>3, <1>11 DEF CommitSubmitting, CommitCancel, Transmit, TransmitCancel, leaseVars, rowVars
  <2>3. QED
    BY <1>10, <2>1, <2>2
<1>12. CASE SendAnswer(w) \/ CancelAnswer(w)
  <2>1. UNCHANGED <<lease, identity, imported, row>> /\ at[w] \in InHand
    BY <1>12 DEF SendAnswer, CancelAnswer, ReceiveAnswer, leaseVars, rowVars, InHand, SendPlaces, CancelPlaces
  <2>2. \/ at'[w] = "failed"
        \/ at'[w] \in {"finishing", "cancelFinishing"} /\ hand'[w].order = hand[w].order
    BY <1>3, <1>12 DEF SendAnswer, CancelAnswer, ReceiveAnswer, Goto
  <2>3. CASE at'[w] = "failed"
    BY <1>5, <2>3 DEF InHand, SendPlaces, CancelPlaces
  <2>4. CASE at'[w] \in {"finishing", "cancelFinishing"} /\ hand'[w].order = hand[w].order
    <3>1. at'[w] \in InHand
      BY <2>4 DEF InHand, SendPlaces, CancelPlaces
    <3>2. QED
      BY <1>10, <2>1, <2>4, <3>1
  <2>5. QED
    BY <2>2, <2>3, <2>4
\* The worker records the outcome of the order in its hand and goes on.
<1>13. ASSUME at[w] \in {"finishing", "cancelFinishing"}, at'[w] = "receive",
              UNCHANGED <<lease, identity, imported>>,
              \A o \in Orders : o # hand[w].order => row'[o] = row[o],
              row'[hand[w].order].status \notin Uncertain
       PROVE  OthersCertain(w)'
  <2>1. lease_is_current(w) /\ at[w] \in InHand
    BY <1>4, <1>13 DEF InHand, SendPlaces, CancelPlaces
  <2>2. \A o \in Orders : Certain(o)'
    BY <1>2, <1>13, <2>1 DEF OthersCertain, Certain
  <2>3. QED
    BY <1>13, <2>2 DEF OthersCertain, InHand, SendPlaces, CancelPlaces
<1>14. CASE FinishSend(w)
  <2>1. /\ at[w] = "finishing" /\ hand[w].order \in Orders
        /\ hand[w].answer \in {"ack", "rejected", "unknown"}
    BY <1>2, <1>3, <1>14 DEF FinishSend, SendInv, SenderOK, SendPlaces, Answers
  <2>2. PICK place \in {"ended", "uncertain", "receive"} : at' = [at EXCEPT ![w] = place]
    BY <1>14 DEF FinishSend, Goto
  <2>3. at'[w] = place
    BY <1>3, <2>2
  <2>4. CASE place \in {"ended", "uncertain"}
    BY <1>5, <2>3, <2>4 DEF InHand, SendPlaces, CancelPlaces
  <2>5. CASE place = "receive"
    <3>1. /\ hand[w].answer # "unknown" /\ UNCHANGED <<lease, identity, imported>>
          /\ row' = [row EXCEPT ![hand[w].order] = Answered(hand[w].order, hand[w].answer)]
      BY <1>3, <1>14, <2>3, <2>5 DEF FinishSend, Goto
    <3>2. row'[hand[w].order].status \in {"ACKNOWLEDGED", "REJECTED"}
      BY <1>3, <2>1, <3>1, AnsweredRow
    <3>3. \A o \in Orders : o # hand[w].order => row'[o] = row[o]
      BY <1>3, <3>1
    <3>4. QED
      BY <1>13, <2>1, <2>3, <2>5, <3>1, <3>2, <3>3 DEF Uncertain
  <2>6. QED
    BY <2>4, <2>5
<1>15. CASE FinishCancel(w)
  <2>1. /\ at[w] = "cancelFinishing" /\ hand[w].order \in Orders
        /\ row[hand[w].order].status \notin Early
    BY <1>2, <1>15 DEF FinishCancel, CancelInv, CancellerOK, CancelPlaces
  <2>2. PICK place \in {"ended", "uncertain", "receive"} : at' = [at EXCEPT ![w] = place]
    BY <1>15 DEF FinishCancel, Goto
  <2>3. at'[w] = place
    BY <1>3, <2>2
  <2>4. CASE place \in {"ended", "uncertain"}
    BY <1>5, <2>3, <2>4 DEF InHand, SendPlaces, CancelPlaces
  <2>5. CASE place = "receive"
    <3>1. /\ hand[w].answer = "ack" /\ UNCHANGED <<lease, identity, imported>>
          /\ row[hand[w].order].status \notin {"UNKNOWN", "RECONCILING"}
          /\ row' = [row EXCEPT ![hand[w].order].status = row[hand[w].order].status]
      BY <1>3, <1>15, <2>3, <2>5 DEF FinishCancel, Goto
    <3>2. row'[hand[w].order].status = row[hand[w].order].status
      BY <1>3, <2>1, <3>1 DEF Row
    <3>3. \A o \in Orders : o # hand[w].order => row'[o] = row[o]
      BY <1>3, <3>1
    <3>4. row'[hand[w].order].status \notin Uncertain
      BY <2>1, <3>1, <3>2 DEF Uncertain, Early
    <3>5. QED
      BY <1>13, <2>1, <2>3, <2>5, <3>1, <3>3, <3>4
  <2>6. QED
    BY <2>4, <2>5
<1>16. CASE ReconcileStep(w)
  <2>1. CASE ReconcileBegin(w) \/ ReadOpenOrders(w) \/ ReadFills(w) \/ ReconcileFails(w)
    BY <1>3, <1>5, <2>1, DispatchAssumption DEF ReconcileBegin, ReadOpenOrders, ReadFills, ReconcileFails,
       Goto, InHand, SendPlaces, CancelPlaces
  <2>2. CASE ReconcileCommit(w)
    <3>1. at'[w] \in {"recClean", "recCritical"}
      BY <1>3, <2>2, DispatchAssumption DEF ReconcileCommit, Goto
    <3>2. CASE at'[w] = "recCritical"
      BY <1>5, <3>2 DEF InHand, SendPlaces, CancelPlaces
    <3>3. CASE at'[w] = "recClean"
      <4>1. ASSUME NEW o \in Orders
            PROVE  Certain(o)'
        <5>1. ~(row[o].hasId /\ imported[o].hasId)
          BY DEF TruthInv, RowsAreConsistent
        <5>2. QED
          BY <1>3, <2>2, <3>3, <5>1, CleanIsCertain
      <4>2. QED
        BY <3>3, <4>1 DEF OthersCertain, InHand, SendPlaces, CancelPlaces
    <3>4. QED
      BY <3>1, <3>2, <3>3
  <2>3. QED
    BY <1>16, <2>1, <2>2 DEF ReconcileStep
<1>17. QED
  BY <1>6, <1>7, <1>8, <1>9, <1>11, <1>12, <1>14, <1>15, <1>16, StepOf DEF WorkerStep

\* FenceInv is inductive, given DispatchInv and TruthInv.
LEMMA FenceInvariant == Spec => [](DispatchInv /\ TruthInv /\ FenceInv)
<1>1. Init => FenceInv
  <2>1. SUFFICES ASSUME Init PROVE FenceInv
    OBVIOUS
  <2>2. \A w \in Workers : at[w] = "idle"
    BY <2>1 DEF Init, Procs
  <2>3. \A w \in Workers : SnapIsFinal(w) /\ OthersCertain(w)
    BY <2>2 DEF SnapIsFinal, OthersCertain, InHand, SendPlaces, CancelPlaces
  <2>4. \A o \in Orders : CancelledIsTrue(o)
    BY <2>1 DEF Init, CancelledIsTrue, NoRow
  <2>5. QED
    BY <2>3, <2>4 DEF FenceInv
<1>2. DispatchInv /\ TruthInv /\ FenceInv /\ [Next]_vars => FenceInv'
  BY SnapIsFinalStep, OthersCertainStep, CancelledStep DEF FenceInv
<1>3. QED
  BY <1>1, <1>2, TruthInvariant, PTL DEF Spec

\* FILLED and CANCELLED are only shown of orders that the broker filled or
\* closed (account_projection.py), although the open orders and the fills are
\* read one after the other: CANCELLED as long as no process without a lease
\* wrote, for any number of processes and orders and any quantity.
THEOREM DispatchClosedRowsMatchBroker == Spec => []ClosedRowsMatchBroker
<1>1. DispatchInv /\ TruthInv /\ FenceInv => ClosedRowsMatchBroker
  <2>1. SUFFICES ASSUME DispatchInv, TruthInv, FenceInv, NEW o \in Orders
                 PROVE  /\ "FILLED" \in {row[o].status, imported[o].status} => broker[o].state = "filled"
                        /\ row[o].status = "CANCELLED" /\ ~intruded =>
                               broker[o] = [state |-> "cancelled", filled |-> row[o].filled]
    BY DEF ClosedRowsMatchBroker
  <2>2. /\ row[o] \in Row /\ imported[o] \in Row /\ broker[o].filled \in 0..Quantity
        /\ RowTruth(o) /\ BrokerFits(o) /\ Quantity \in Nat
    BY <2>1, TruthParts, DispatchAssumption DEF DispatchInv, TypeOK
  <2>3. "FILLED" \in {row[o].status, imported[o].status} => broker[o].state = "filled"
    BY <2>2 DEF RowTruth, ConsistentRow, BrokerFits, Row
  <2>4. QED
    BY <2>1, <2>3 DEF FenceInv, CancelledIsTrue
<1>2. QED
  BY <1>1, FenceInvariant, PTL

\* As long as no process without a lease wrote, a worker that may send its next
\* order has no order of uncertain outcome (_require_worker_ready of
\* order_sender.py), for any number of processes and orders.
THEOREM DispatchCertainWhenReady == Spec => []CertainWhenReady
<1>1. FenceInv => CertainWhenReady
  BY DEF FenceInv, CertainWhenReady, OthersCertain, WorkerReady, Certain, Uncertain
<1>2. QED
  BY <1>1, FenceInvariant, PTL

=============================================================================
