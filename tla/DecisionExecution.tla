------------------------- MODULE DecisionExecution -------------------------
(***************************************************************************)
(* From a decision to an order: route_trading_decision with its guard, the *)
(* approvals of the user and the pause of entries (decision_execution.py,  *)
(* approvals.py, emergency_stop.py, and the create_order they share).      *)
(*                                                                         *)
(* The analysis scheduler and the agent worker are the Routers; requests   *)
(* of the console are the Clients.  A transaction of either reads and      *)
(* locks rows in one step and commits in a later one, under PostgreSQL's   *)
(* READ COMMITTED.  Rules of the guard about rows that no action here      *)
(* writes (quote, session, gate, connection, losses, exposure) pass or     *)
(* fail at random.  Prices appear only in them.                            *)
(***************************************************************************)
EXTENDS Naturals, FiniteSets

CONSTANTS
    Routers, Clients,  \* processes that route decisions, requests that approve
    Decisions,
    Symbols,
    ClientKeys,        \* idempotency keys of approve requests
    MaxVersion,        \* bound on activated policy versions
    MaxPosition,       \* bound on versions of a position
    Shares,            \* bound on quantities
    MaxEntries         \* max_daily_entries of the risk policy

Processes == Routers \cup Clients
Versions == 1..MaxVersion
Actions == {"BUY", "SELL"}

ASSUME DecisionAssumption ==
    /\ Routers \cap Clients = {} /\ IsFiniteSet(Processes) /\ Processes # {}
    /\ ClientKeys \cap Decisions = {} /\ Symbols # {}
    /\ MaxVersion \in Nat \ {0} /\ MaxPosition \in Nat \ {0} /\ Shares \in Nat /\ MaxEntries \in Nat

\* idempotency_key of an order: of the client, or auto-buy or auto-sell with
\* the decision it is named after.
Keys == ClientKeys \cup Decisions

VARIABLES
    version,    \* the active execution and risk policy
    paused,     \* an active emergency stop of level PAUSE_ENTRY
    position,   \* managed quantity and version of each position
    decision,   \* what the decisions say, and whether they exist yet
    execution,  \* executions by decision and policy version, with their approval
    order,      \* orders by idempotency key
    tx,         \* the open transaction of each process
    racing      \* history: entries under way when the pause was activated

vars == <<version, paused, position, decision, execution, order, tx, racing>>

\* ENDED stands for NO_ACTION, DISABLED, GUARD_BLOCKED and SHADOW_RECORDED.
ExecutionStates == {"ABSENT", "ENDED", "APPROVAL_PENDING", "ORDER_CREATED",
                    "EXPIRED", "REJECTED", "INVALIDATED", "FAILED_SAFE"}
ApprovalStates == {"ABSENT", "PENDING", "APPROVED", "REJECTED", "EXPIRED", "INVALIDATED"}

Position == [managed : 0..Shares, version : 1..MaxPosition]
Decision == [life : {"ABSENT", "VALID", "EXPIRED"}, action : Actions, symbol : Symbols]
Execution == [state : ExecutionStates, approval : ApprovalStates,
              quantity : 0..Shares, position : 0..MaxPosition]
Order == [status : {"ACTIVE", "DONE"}, decision : Decisions, version : Versions,
          quantity : 0..Shares, position : 0..MaxPosition]

\* A transaction is between its first read and its lock, or holds what it will
\* commit.  RACED: create_order has rolled back, approve has not reacted yet.
Loaded == [step : {"LOADED"}, decision : Decisions, new : BOOLEAN, copy : Position]
Routed == [step : {"ROUTED"}, decision : Decisions, new : BOOLEAN, version : Versions,
           outcome : {"APPROVAL", "ORDER"}, quantity : 0..Shares, position : 0..MaxPosition]
Approving == [step : {"APPROVING"}, decision : Decisions, version : Versions,
              key : ClientKeys, free : BOOLEAN]
Raced == [step : {"RACED"}, decision : Decisions, version : Versions]

Idle == [step |-> "IDLE"]
NoOrder == [status |-> "ABSENT"]
NoExecution == [state |-> "ABSENT", approval |-> "ABSENT", quantity |-> 0, position |-> 0]

TypeOK ==
    /\ version \in Versions
    /\ paused \in BOOLEAN
    /\ position \in [Symbols -> Position]
    /\ decision \in [Decisions -> Decision]
    /\ execution \in [Decisions -> [Versions -> Execution]]
    /\ order \in [Keys -> Order \cup {NoOrder}]
    /\ tx \in [Processes -> Loaded \cup Routed \cup Approving \cup Raced \cup {Idle}]
    /\ racing \subseteq Processes

SymbolOf(d) == decision[d].symbol
Sells(d) == decision[d].action = "SELL"

Begin(p, t) == /\ tx' = [tx EXCEPT ![p] = t]
               /\ UNCHANGED racing
End(p) == /\ tx' = [tx EXCEPT ![p] = Idle]
          /\ racing' = racing \ {p}

Settle(d, v, approval, state) ==
    execution' = [execution EXCEPT ![d][v].approval = approval, ![d][v].state = state]

-----------------------------------------------------------------------------
(***************************************************************************)
(* Row locks (FOR UPDATE): the approval in approve, the position wherever   *)
(* a sale is planned.  approve also locks the head of the quote stream,    *)
(* which only serialises approvals of one market and symbol: left out.     *)
(***************************************************************************)

ApprovalFree(d, v) ==
    \A p \in Processes : tx[p].step = "APPROVING" => <<tx[p].decision, tx[p].version>> # <<d, v>>

\* Mutant: routing reads the position without FOR UPDATE.
PositionFree_approving(s) ==
    \A p \in Processes :
        tx[p].step = "APPROVING" /\ Sells(tx[p].decision) => SymbolOf(tx[p].decision) # s

PositionFree(s) ==
    \A p \in Processes :
        tx[p].step \in {"ROUTED", "APPROVING"} /\ Sells(tx[p].decision) => SymbolOf(tx[p].decision) # s

-----------------------------------------------------------------------------
(***************************************************************************)
(* The guard.                                                              *)
(***************************************************************************)

Orders == {k \in Keys : order[k] # NoOrder}
daily_entry_count == Cardinality({k \in Orders : ~Sells(order[k].decision)})

_has_active_symbol_order(s) ==
    \E k \in Orders : order[k].status = "ACTIVE" /\ SymbolOf(order[k].decision) = s

\* A decision of this very transaction is not in the table yet and is valid.
NotExpired(d) == decision[d].life # "EXPIRED"

\* Mutant: the limit itself still admits an entry.
_buy_guard_rules_one_more(d) == NotExpired(d) /\ ~paused /\ daily_entry_count <= MaxEntries

\* Mutant: the pause is not among the rules.
_buy_guard_rules_without_pause(d) == NotExpired(d) /\ daily_entry_count < MaxEntries

_buy_guard_rules(d) == NotExpired(d) /\ ~paused /\ daily_entry_count < MaxEntries

\* Reserved quantities need not be subtracted: with an active order there is
\* no sale at all.
_sell_guard_rules(d, p, quantity) ==
    /\ NotExpired(d)
    /\ ~_has_active_symbol_order(SymbolOf(d))
    /\ quantity \in 1..p.managed

\* Mutant: the version of the position is not compared.
_evaluate_approval_any_version(d, v) ==
    IF Sells(d) THEN _sell_guard_rules(d, position[SymbolOf(d)], execution[d][v].quantity)
    ELSE _buy_guard_rules(d)

\* The second evaluation, under the locks and of the newest rows.  The user
\* approved this quantity of this version of the position.
_evaluate_approval(d, v) ==
    LET e == execution[d][v] IN
        IF Sells(d)
        THEN /\ position[SymbolOf(d)].version = e.position
             /\ _sell_guard_rules(d, position[SymbolOf(d)], e.quantity)
        ELSE _buy_guard_rules(d)

EntryUnderWay(p) ==
    \/ tx[p].step = "ROUTED" /\ tx[p].outcome = "ORDER" /\ ~Sells(tx[p].decision)
    \/ tx[p].step = "APPROVING" /\ ~Sells(tx[p].decision)

-----------------------------------------------------------------------------
(***************************************************************************)
(* Routing.                                                                *)
(***************************************************************************)

\* The tick, or the fusion, reads the position.  An entry is decided only
\* without one.  The decision, when it is new, is inserted in this
\* transaction; a slot that runs again finds the one it made.
run_analysis_tick(r, d) ==
    /\ tx[r] = Idle
    /\ Sells(d) \/ position[SymbolOf(d)].managed = 0
    /\ Begin(r, [step |-> "LOADED", decision |-> d, new |-> decision[d].life = "ABSENT",
                 copy |-> position[SymbolOf(d)]])
    /\ UNCHANGED <<version, paused, position, decision, execution, order>>

Route(r, outcome, quantity, pos) ==
    Begin(r, [step |-> "ROUTED", decision |-> tx[r].decision, new |-> tx[r].new, version |-> version,
              outcome |-> outcome, quantity |-> quantity, position |-> pos])

\* The locking read of the position returns the object that the session has
\* loaded before: the sale is planned from the copy.
route_trading_decision(r) ==
    /\ tx[r].step = "LOADED"
    /\ LET d == tx[r].decision IN
           /\ execution[d][version] = NoExecution
           /\ \/ /\ ~Sells(d) /\ _buy_guard_rules(d)
                 /\ \E outcome \in {"APPROVAL", "ORDER"}, quantity \in 1..Shares :
                        Route(r, outcome, quantity, 0)
              \/ /\ Sells(d) /\ PositionFree(SymbolOf(d))
                 /\ \E outcome \in {"APPROVAL", "ORDER"}, quantity \in 1..Shares :
                        /\ _sell_guard_rules(d, tx[r].copy, quantity)
                        /\ Route(r, outcome, quantity, tx[r].copy.version)
    /\ UNCHANGED <<version, paused, position, decision, execution, order>>

\* The decision of this transaction is inserted with it; the unique key of
\* decisions refuses a second one.
Inserts(r) ==
    LET d == tx[r].decision IN
        /\ tx[r].new => decision[d].life = "ABSENT"
        /\ decision' = IF tx[r].new THEN [decision EXCEPT ![d].life = "VALID"] ELSE decision

\* No action, a disabled action, a rule that blocks, or the SHADOW stage.
route_ends(r) ==
    /\ tx[r].step = "LOADED"
    /\ execution[tx[r].decision][version] = NoExecution
    /\ execution' = [execution EXCEPT ![tx[r].decision][version].state = "ENDED"]
    /\ Inserts(r)
    /\ End(r)
    /\ UNCHANGED <<version, paused, position, order>>

NewOrder(d, v, quantity, pos) ==
    [status |-> "ACTIVE", decision |-> d, version |-> v, quantity |-> quantity, position |-> pos]

\* request_hash of an automatic order: the version of the policy is not in it.
SameRequest(o, quantity, pos) == o.quantity = quantity /\ o.position = pos

Enter(r, state, approval) ==
    execution' = [execution EXCEPT ![tx[r].decision][tx[r].version] =
        [state |-> state, approval |-> approval,
         quantity |-> tx[r].quantity, position |-> tx[r].position]]

create_approval(r) ==
    /\ tx[r].outcome = "APPROVAL"
    /\ Enter(r, "APPROVAL_PENDING", "PENDING")
    /\ UNCHANGED order

\* _create_buy_order and _create_sell_order.  An order that the decision made
\* under an earlier policy is returned if it is the same, whatever became of it.
_create_automatic_order(r) ==
    LET d == tx[r].decision IN
        /\ tx[r].outcome = "ORDER"
        /\ \/ /\ order[d] = NoOrder
              /\ order' = [order EXCEPT ![d] =
                     NewOrder(d, tx[r].version, tx[r].quantity, tx[r].position)]
              /\ Enter(r, "ORDER_CREATED", "ABSENT")
           \/ /\ order[d] # NoOrder
              /\ UNCHANGED order
              /\ IF SameRequest(order[d], tx[r].quantity, tx[r].position)
                 THEN Enter(r, "ORDER_CREATED", "ABSENT")
                 ELSE Enter(r, "FAILED_SAFE", "ABSENT")

\* The unique keys of executions and of orders refuse a second insert, too; the
\* exception takes the transaction back (Abort).
route_commits(r) ==
    /\ tx[r].step = "ROUTED"
    /\ execution[tx[r].decision][tx[r].version] = NoExecution
    /\ Inserts(r)
    /\ create_approval(r) \/ _create_automatic_order(r)
    /\ End(r)
    /\ UNCHANGED <<version, paused, position>>

\* A crash or an exception before the commit, or a tick that finds the execution
\* of the decision and has nothing to do.
Abort(p) ==
    /\ tx[p] # Idle
    /\ End(p)
    /\ UNCHANGED <<version, paused, position, decision, execution, order>>

-----------------------------------------------------------------------------
(***************************************************************************)
(* Approvals.                                                              *)
(***************************************************************************)

\* Mutant: an approval that was given can be given again.
Approvable_again(d, v) == execution[d][v].approval \in {"PENDING", "APPROVED"}

\* Otherwise the request is answered, or refused, without a change.
Approvable(d, v) == execution[d][v].approval = "PENDING"

approve(c, d, v, k) ==
    /\ tx[c] = Idle
    /\ ApprovalFree(d, v)
    /\ Approvable(d, v)
    /\ \/ /\ decision[d].life = "EXPIRED"
          /\ execution' = [execution EXCEPT ![d][v].approval = "EXPIRED"]
          /\ UNCHANGED <<tx, racing>>
       \/ /\ decision[d].life # "EXPIRED"
          /\ Settle(d, v, "INVALIDATED", "INVALIDATED")
          /\ UNCHANGED <<tx, racing>>
       \/ /\ decision[d].life # "EXPIRED"
          /\ Sells(d) => PositionFree(SymbolOf(d))
          /\ _evaluate_approval(d, v)
          /\ Begin(c, [step |-> "APPROVING", decision |-> d, version |-> v,
                       key |-> k, free |-> order[k] = NoOrder])
          /\ UNCHANGED execution
    /\ UNCHANGED <<version, paused, position, decision, order>>

\* A key that was free when it was looked up may be taken when the order is
\* inserted: create_order rolls back, and the locks are gone.
approve_commits(c) ==
    /\ tx[c].step = "APPROVING"
    /\ LET d == tx[c].decision
           v == tx[c].version
           k == tx[c].key
           e == execution[d][v]
       IN  \/ /\ order[k] = NoOrder
              /\ order' = [order EXCEPT ![k] = NewOrder(d, v, e.quantity, e.position)]
              /\ Settle(d, v, "APPROVED", "ORDER_CREATED")
              /\ End(c)
           \/ /\ order[k] # NoOrder
              /\ Settle(d, v, "INVALIDATED", "FAILED_SAFE")
              /\ End(c) /\ UNCHANGED order
           \/ /\ order[k] # NoOrder /\ tx[c].free
              /\ tx' = [tx EXCEPT ![c] = [step |-> "RACED", decision |-> d, version |-> v]]
              /\ racing' = racing \ {c}
              /\ UNCHANGED <<execution, order>>
    /\ UNCHANGED <<version, paused, position, decision>>

\* After the rollback approve loads the approval again, without a lock and
\* without a look at its state.
approve_raced(c) ==
    /\ tx[c].step = "RACED"
    /\ ApprovalFree(tx[c].decision, tx[c].version)
    /\ Settle(tx[c].decision, tx[c].version, "INVALIDATED", "FAILED_SAFE")
    /\ End(c)
    /\ UNCHANGED <<version, paused, position, decision, order>>

\* Mutant: the execution is forgotten.
reject_approval_only(d, v) ==
    /\ ApprovalFree(d, v)
    /\ execution[d][v].approval = "PENDING"
    /\ Settle(d, v, "REJECTED", execution[d][v].state)
    /\ UNCHANGED <<version, paused, position, decision, order, tx, racing>>

reject(d, v) ==
    /\ ApprovalFree(d, v)
    /\ execution[d][v].approval = "PENDING"
    /\ Settle(d, v, "REJECTED", "REJECTED")
    /\ UNCHANGED <<version, paused, position, decision, order, tx, racing>>

Stale(d, v) == execution[d][v].approval = "PENDING" /\ decision[d].life = "EXPIRED"

\* All stale approvals or, when the version of one has changed meanwhile, none.
expire_stale ==
    /\ \E d \in Decisions, v \in Versions : Stale(d, v)
    /\ \A d \in Decisions, v \in Versions : Stale(d, v) => ApprovalFree(d, v)
    /\ execution' = [d \in Decisions |-> [v \in Versions |->
           IF Stale(d, v)
           THEN [execution[d][v] EXCEPT !.approval = "EXPIRED",
                     !.state = IF @ = "APPROVAL_PENDING" THEN "EXPIRED" ELSE @]
           ELSE execution[d][v]]]
    /\ UNCHANGED <<version, paused, position, decision, order, tx, racing>>

-----------------------------------------------------------------------------
(***************************************************************************)
(* What the transactions race with.                                        *)
(***************************************************************************)

\* The idempotency keys decide only between an answer and a refusal.
activate_pause_entry ==
    /\ ~paused
    /\ paused' = TRUE
    /\ racing' = {p \in Processes : EntryUnderWay(p)}
    /\ UNCHANGED <<version, position, decision, execution, order, tx>>

release_pause_entry ==
    /\ paused
    /\ paused' = FALSE
    /\ racing' = {}
    /\ UNCHANGED <<version, position, decision, execution, order, tx>>

ActivatePolicy ==
    /\ version < MaxVersion
    /\ version' = version + 1
    /\ UNCHANGED <<paused, position, decision, execution, order, tx, racing>>

\* A reconciliation ends orders and writes the position, for whose lock it waits.
_project_positions(s, ended, managed) ==
    /\ PositionFree(s) /\ position[s].version < MaxPosition
    /\ ended \subseteq {k \in Orders : order[k].status = "ACTIVE" /\ SymbolOf(order[k].decision) = s}
    /\ order' = [k \in Keys |-> IF k \in ended THEN [order[k] EXCEPT !.status = "DONE"] ELSE order[k]]
    /\ position' = [position EXCEPT ![s] = [managed |-> managed, version |-> @.version + 1]]
    /\ UNCHANGED <<version, paused, decision, execution, tx, racing>>

Expire(d) ==
    /\ decision[d].life = "VALID"
    /\ decision' = [decision EXCEPT ![d].life = "EXPIRED"]
    /\ UNCHANGED <<version, paused, position, execution, order, tx, racing>>

-----------------------------------------------------------------------------
Init ==
    /\ version = 1
    /\ paused = FALSE
    /\ position = [s \in Symbols |-> [managed |-> Shares, version |-> 1]]
    /\ decision \in [Decisions -> [life : {"ABSENT"}, action : Actions, symbol : Symbols]]
    /\ execution = [d \in Decisions |-> [v \in Versions |-> NoExecution]]
    /\ order = [k \in Keys |-> NoOrder]
    /\ tx = [p \in Processes |-> Idle]
    /\ racing = {}

RouterStep(r) ==
    \/ \E d \in Decisions : run_analysis_tick(r, d)
    \/ route_trading_decision(r)
    \/ route_ends(r)
    \/ route_commits(r)

ClientStep(c) ==
    \/ \E d \in Decisions, v \in Versions, k \in ClientKeys : approve(c, d, v, k)
    \/ approve_commits(c)
    \/ approve_raced(c)

Next ==
    \/ \E r \in Routers : RouterStep(r)
    \/ \E c \in Clients : ClientStep(c)
    \/ \E p \in Processes : Abort(p)
    \/ \E d \in Decisions, v \in Versions : reject(d, v)
    \/ expire_stale
    \/ activate_pause_entry
    \/ release_pause_entry
    \/ ActivatePolicy
    \/ \E s \in Symbols, ended \in SUBSET Keys, managed \in 0..Shares : _project_positions(s, ended, managed)
    \/ \E d \in Decisions : Expire(d)

Spec == Init /\ [][Next]_vars

-----------------------------------------------------------------------------
MadeFor(d, v) == {k \in Orders \cap ClientKeys : order[k].decision = d /\ order[k].version = v}

\* An approval makes at most one order, whatever requests race with which
\* keys; it is APPROVED only with its order (EXE-045), and an approval that is
\* pending, was rejected or has expired has none (API-030).
OneOrderPerApproval ==
    \A d \in Decisions, v \in Versions :
        /\ \A j, k \in MadeFor(d, v) : j = k
        /\ execution[d][v].approval = "APPROVED" => MadeFor(d, v) # {}
        /\ execution[d][v].approval \in {"PENDING", "REJECTED", "EXPIRED"} => MadeFor(d, v) = {}

\* An execution and its approval are settled together: approve, reject and
\* expire_stale write both rows or neither, in whatever order they come.  The
\* exception is approve on an expired approval, which writes the approval only.
SettledTogether ==
    \A d \in Decisions, v \in Versions :
        LET e == execution[d][v] IN
            /\ (e.state = "REJECTED") <=> (e.approval = "REJECTED")
            /\ e.state = "APPROVAL_PENDING" => e.approval \in {"PENDING", "EXPIRED"}
            /\ e.approval = "PENDING" => e.state = "APPROVAL_PENDING"
            /\ e.approval = "APPROVED" => e.state = "ORDER_CREATED"
            /\ e.approval = "EXPIRED" => e.state \in {"EXPIRED", "APPROVAL_PENDING"}
            /\ e.approval = "INVALIDATED" => e.state \in {"INVALIDATED", "FAILED_SAFE"}

\* Decisions and approvals never put two sales of one symbol on their way,
\* although routers and requests plan them at the same time: the lock of the
\* position is held from the guard to the commit (EXE-057).
OneActiveSell ==
    \A j, k \in Orders :
        /\ order[j].status = "ACTIVE" /\ order[k].status = "ACTIVE"
        /\ Sells(order[j].decision) /\ Sells(order[k].decision)
        /\ SymbolOf(order[j].decision) = SymbolOf(order[k].decision)
        => j = k

Created(k) == order[k] = NoOrder /\ order'[k] # NoOrder
Covered(k) == order'[k].quantity <= position[SymbolOf(order'[k].decision)].managed

\* A sale that the user approved is of shares that Cresta still manages and of
\* the position the user saw, when it is committed, whatever was filled
\* between decision, approval and order (ORD-043).
ApprovedSellIsCovered ==
    [][\A k \in ClientKeys :
           Created(k) /\ Sells(order'[k].decision) =>
               /\ Covered(k)
               /\ order'[k].position = position[SymbolOf(order'[k].decision)].version]_vars

\* The limit of entries is checked before and not at the commit, so requests
\* that race may exceed it, but never by more than one entry for each process
\* but the first (DAILY_ENTRIES_LIMIT).
EntriesAreBounded == daily_entry_count + 1 <= MaxEntries + Cardinality(Processes)

\* While entries are paused, only transactions whose guard was evaluated
\* before the pause can still create one; an approval given earlier or a
\* retry under a new policy cannot (EMERGENCY_STOP_ACTIVE).
PauseStopsEntries == paused => \A p \in Processes : EntryUnderWay(p) => p \in racing

=============================================================================
