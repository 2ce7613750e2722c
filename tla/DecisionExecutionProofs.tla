---------------------- MODULE DecisionExecutionProofs ----------------------
(***************************************************************************)
(* The properties of DecisionExecution for any number of routers, clients, *)
(* decisions, symbols, keys and policy versions.                           *)
(***************************************************************************)
EXTENDS DecisionExecution, FiniteSetTheorems, TLAPS

USE DecisionAssumption

-----------------------------------------------------------------------------
(***************************************************************************)
(* The inductive invariant, in parts.                                      *)
(***************************************************************************)

Approves(p) == tx[p].step = "APPROVING"
Plans(p) == tx[p].step \in {"ROUTED", "APPROVING"}
SellsNow(p) == Plans(p) /\ Sells(tx[p].decision)

\* The approval that is being approved is pending, and locked by one process.
ApprovalLocks ==
    /\ \A p \in Processes : Approves(p) => execution[tx[p].decision][tx[p].version].approval = "PENDING"
    /\ \A p, q \in Processes :
           Approves(p) /\ Approves(q) /\ tx[p].decision = tx[q].decision /\ tx[p].version = tx[q].version => p = q

\* An approval that was not given has no order, also before it exists.
NoneBefore ==
    \A d \in Decisions, v \in Versions :
        execution[d][v].approval \in {"ABSENT", "PENDING", "REJECTED", "EXPIRED"} => MadeFor(d, v) = {}

\* One process plans a sale of a symbol, and only while no sale is on its way.
SellLocks ==
    /\ \A p, q \in Processes :
           SellsNow(p) /\ SellsNow(q) /\ SymbolOf(tx[p].decision) = SymbolOf(tx[q].decision) => p = q
    /\ \A p \in Processes, k \in Orders :
           SellsNow(p) /\ order[k].status = "ACTIVE" /\ Sells(order[k].decision)
               => SymbolOf(order[k].decision) # SymbolOf(tx[p].decision)

\* The sale that is being approved is of the position as it is.
SalesFit ==
    \A p \in Processes :
        Approves(p) /\ Sells(tx[p].decision) =>
            LET e == execution[tx[p].decision][tx[p].version]
                s == SymbolOf(tx[p].decision)
            IN  position[s].version = e.position /\ e.quantity <= position[s].managed

Entries == {k \in Orders : ~Sells(order[k].decision)}
UnderWay == {p \in Processes : EntryUnderWay(p)}

\* The entries that are under way are counted with those that were made.
EntriesFit ==
    /\ IsFiniteSet(Entries)
    /\ Cardinality(Entries) + Cardinality(UnderWay) + 1 <= MaxEntries + Cardinality(Processes)

DecisionInv ==
    /\ TypeOK
    /\ SettledTogether
    /\ ApprovalLocks /\ NoneBefore /\ OneOrderPerApproval
    /\ SellLocks /\ SalesFit /\ OneActiveSell
    /\ PauseStopsEntries
    /\ EntriesFit

-----------------------------------------------------------------------------
(***************************************************************************)
(* Rows and transactions.                                                  *)
(***************************************************************************)

Tx == Loaded \cup Routed \cup Approving \cup Raced \cup {Idle}

\* The step of a transaction says which record it is.
LEMMA TxFields ==
    ASSUME TypeOK, NEW p \in Processes
    PROVE  /\ tx[p].step = "LOADED" => tx[p] \in Loaded
           /\ tx[p].step = "ROUTED" => tx[p] \in Routed
           /\ tx[p].step = "APPROVING" => tx[p] \in Approving
           /\ tx[p].step = "RACED" => tx[p] \in Raced
           /\ tx[p] # Idle => tx[p].step # "IDLE"
<1>1. tx[p] \in Tx
  BY DEF TypeOK, Tx
<1>2. Idle.step = "IDLE"
  BY DEF Idle
<1>3. \A t \in Loaded : t.step = "LOADED"
  BY DEF Loaded
<1>4. \A t \in Routed : t.step = "ROUTED"
  BY DEF Routed
<1>5. \A t \in Approving : t.step = "APPROVING"
  BY DEF Approving
<1>6. \A t \in Raced : t.step = "RACED"
  BY DEF Raced
<1> QED BY <1>1, <1>2, <1>3, <1>4, <1>5, <1>6 DEF Tx

\* A transaction that plans has a decision, and the fields of its record.
LEMMA PlanFields ==
    ASSUME TypeOK, NEW p \in Processes
    PROVE  /\ tx[p].step \in {"LOADED", "ROUTED", "APPROVING", "RACED"} => tx[p].decision \in Decisions
           /\ tx[p].step \in {"ROUTED", "APPROVING", "RACED"} => tx[p].version \in Versions
           /\ tx[p].step = "APPROVING" => tx[p].key \in ClientKeys
           /\ tx[p].step = "LOADED" => tx[p].copy \in Position /\ tx[p].new \in BOOLEAN
           /\ tx[p].step = "ROUTED" => /\ tx[p].new \in BOOLEAN /\ tx[p].outcome \in {"APPROVAL", "ORDER"}
                                       /\ tx[p].quantity \in 0..Shares /\ tx[p].position \in 0..MaxPosition
<1>1. \A t \in Loaded : t.decision \in Decisions /\ t.copy \in Position /\ t.new \in BOOLEAN
  BY DEF Loaded
<1>2. \A t \in Routed : /\ t.decision \in Decisions /\ t.version \in Versions
                        /\ t.new \in BOOLEAN /\ t.outcome \in {"APPROVAL", "ORDER"}
                        /\ t.quantity \in 0..Shares /\ t.position \in 0..MaxPosition
  BY DEF Routed
<1>3. \A t \in Approving : t.decision \in Decisions /\ t.version \in Versions /\ t.key \in ClientKeys
  BY DEF Approving
<1>4. \A t \in Raced : t.decision \in Decisions /\ t.version \in Versions
  BY DEF Raced
<1> QED BY <1>1, <1>2, <1>3, <1>4, TxFields

\* An order is not the absence of one.
LEMMA OrderIsSome == \A o \in Order : o # NoOrder /\ o.decision \in Decisions /\ o.version \in Versions
<1>1. NoOrder.status = "ABSENT"
  BY DEF NoOrder
<1>2. \A o \in Order : o.status # "ABSENT" /\ o.decision \in Decisions /\ o.version \in Versions
  BY DEF Order
<1> QED BY <1>1, <1>2

\* What an order that exists says.
LEMMA OrderFields ==
    ASSUME TypeOK, NEW k \in Orders
    PROVE  k \in Keys /\ order[k] \in Order /\ order[k].decision \in Decisions /\ order[k].version \in Versions
BY OrderIsSome DEF TypeOK, Orders

\* Changing the transaction of one process.
LEMMA SetTx ==
    ASSUME TypeOK, NEW p \in Processes, NEW t, tx' = [tx EXCEPT ![p] = t]
    PROVE  /\ tx'[p] = t /\ \A q \in Processes \ {p} : tx'[q] = tx[q]
           /\ t \in Tx => tx' \in [Processes -> Tx]
BY DEF TypeOK, Tx

\* Changing one execution.
LEMMA SetExecution ==
    ASSUME TypeOK, NEW d \in Decisions, NEW v \in Versions, NEW e,
           execution' = [execution EXCEPT ![d][v] = e]
    PROVE  /\ execution'[d][v] = e
           /\ \A x \in Decisions, y \in Versions : <<x, y>> # <<d, v>> => execution'[x][y] = execution[x][y]
           /\ e \in Execution => execution' \in [Decisions -> [Versions -> Execution]]
<1>1. execution \in [Decisions -> [Versions -> Execution]]
  BY DEF TypeOK
<1>2. execution' = [execution EXCEPT ![d] = [execution[d] EXCEPT ![v] = e]]
  OBVIOUS
<1>3. execution'[d] = [execution[d] EXCEPT ![v] = e] /\ \A x \in Decisions \ {d} : execution'[x] = execution[x]
  BY <1>1, <1>2
<1>4. execution'[d][v] = e /\ \A y \in Versions \ {v} : execution'[d][y] = execution[d][y]
  BY <1>1, <1>3
<1>5. ASSUME NEW x \in Decisions, NEW y \in Versions, <<x, y>> # <<d, v>> PROVE execution'[x][y] = execution[x][y]
  BY <1>3, <1>4, <1>5
<1>6. ASSUME e \in Execution PROVE execution' \in [Decisions -> [Versions -> Execution]]
  <2>1. execution[d] \in [Versions -> Execution]
    BY <1>1
  <2>2. [execution[d] EXCEPT ![v] = e] \in [Versions -> Execution]
    BY <1>6, <2>1
  <2> QED BY <1>1, <1>2, <2>2
<1> QED BY <1>4, <1>5, <1>6

\* Settling writes two fields of one execution.
LEMMA SettleEffect ==
    ASSUME TypeOK, NEW d \in Decisions, NEW v \in Versions, NEW a \in ApprovalStates, NEW s \in ExecutionStates,
           Settle(d, v, a, s)
    PROVE  /\ execution' \in [Decisions -> [Versions -> Execution]]
           /\ execution'[d][v].approval = a /\ execution'[d][v].state = s
           /\ execution'[d][v].quantity = execution[d][v].quantity
           /\ execution'[d][v].position = execution[d][v].position
           /\ \A x \in Decisions, y \in Versions : <<x, y>> # <<d, v>> => execution'[x][y] = execution[x][y]
<1> DEFINE e == [execution[d][v] EXCEPT !.approval = a, !.state = s]
<1>1. execution[d][v] \in Execution
  BY DEF TypeOK
<1>2. e \in Execution /\ e.approval = a /\ e.state = s
      /\ e.quantity = execution[d][v].quantity /\ e.position = execution[d][v].position
  BY <1>1 DEF Execution
<1>3. execution' = [execution EXCEPT ![d][v] = e]
  BY <1>1 DEF Settle, TypeOK
<1> HIDE DEF e
<1>4. /\ execution'[d][v] = e
      /\ \A x \in Decisions, y \in Versions : <<x, y>> # <<d, v>> => execution'[x][y] = execution[x][y]
      /\ e \in Execution => execution' \in [Decisions -> [Versions -> Execution]]
  BY <1>3, SetExecution, Zenon
<1> QED BY <1>2, <1>4, Zenon

-----------------------------------------------------------------------------
(***************************************************************************)
(* Three kinds of steps: those that plan nothing new and make no order,    *)
(* those that make one, and those that begin to plan.                      *)
(***************************************************************************)

KindsSame == \A d \in Decisions : /\ decision'[d].action = decision[d].action
                                  /\ decision'[d].symbol = decision[d].symbol

\* An order stays, or ends.
OrdersKept(K) ==
    \A k \in K : \/ order'[k] = order[k]
                 \/ /\ order[k] \in Order /\ order'[k] \in Order /\ order'[k].status = "DONE"
                    /\ order'[k].decision = order[k].decision /\ order'[k].version = order[k].version

\* Who plans after the step planned the same before, with the same approval.
PlansKept == \A p \in Processes : tx'[p].step \in {"ROUTED", "APPROVING"} => tx'[p] = tx[p]
LocksKept ==
    \A p \in Processes : tx'[p].step = "APPROVING" =>
        execution'[tx[p].decision][tx[p].version] = execution[tx[p].decision][tx[p].version]

\* What may become of an approval without an order.
ApprovalStep(a, b) ==
    b = a \/ b = "INVALIDATED" \/ (a \in {"ABSENT", "PENDING"} /\ b \in {"PENDING", "REJECTED", "EXPIRED"})
ApprovalSteps ==
    \A d \in Decisions, v \in Versions : ApprovalStep(execution[d][v].approval, execution'[d][v].approval)

Quiet == PlansKept /\ LocksKept /\ KindsSame /\ OrdersKept(Keys) /\ ApprovalSteps

\* p makes the order it planned, and ends.
Makes(p, k) ==
    /\ PlansKept /\ LocksKept /\ KindsSame /\ OrdersKept(Keys \ {k})
    /\ tx[p].step \in {"ROUTED", "APPROVING"} /\ tx'[p] = Idle
    /\ tx[p].step = "ROUTED" => tx[p].outcome = "ORDER"
    /\ order[k] = NoOrder /\ order'[k] \in Order /\ order'[k].decision = tx[p].decision

PositionsKept ==
    \A p \in Processes : tx'[p].step \in {"ROUTED", "APPROVING"} /\ Sells(tx[p].decision)
        => position'[SymbolOf(tx[p].decision)] = position[SymbolOf(tx[p].decision)]

PausesKept == paused' = paused /\ \A p \in Processes : tx'[p].step \in {"ROUTED", "APPROVING"} /\ p \in racing => p \in racing'

Fit(a, M) ==
    /\ \A j, k \in M : j = k
    /\ a = "APPROVED" => M # {}
    /\ a \in {"ABSENT", "PENDING", "REJECTED", "EXPIRED"} => M = {}

\* The two invariants about the orders of approvals as one.
LEMMA FitDef ==
    NoneBefore /\ OneOrderPerApproval
        <=> \A d \in Decisions, v \in Versions : Fit(execution[d][v].approval, MadeFor(d, v))
BY DEF NoneBefore, OneOrderPerApproval, Fit

\* Orders that stay, or end, are of the same decision and version.
LEMMA OrdersKeptFields ==
    ASSUME TypeOK, NEW K \in SUBSET Keys, OrdersKept(K), NEW k \in K
    PROVE  /\ order'[k] = NoOrder <=> order[k] = NoOrder
           /\ order[k] # NoOrder => /\ order'[k].decision = order[k].decision
                                    /\ order'[k].version = order[k].version
                                    /\ order'[k].status = "ACTIVE" => order[k].status = "ACTIVE"
BY OrderIsSome DEF OrdersKept

\* The locks of approvals.
LEMMA LocksStay ==
    ASSUME DecisionInv, PlansKept, LocksKept
    PROVE  ApprovalLocks'
<1>1. \A p \in Processes : tx'[p].step = "APPROVING" => tx'[p] = tx[p]
  BY DEF PlansKept
<1>2. ApprovalLocks
  BY DEF DecisionInv
<1>3. ASSUME NEW p \in Processes, tx'[p].step = "APPROVING"
      PROVE  execution'[tx'[p].decision][tx'[p].version].approval = "PENDING"
  <2>1. tx'[p] = tx[p] /\ tx[p].step = "APPROVING"
    BY <1>1, <1>3
  <2>2. execution[tx[p].decision][tx[p].version].approval = "PENDING"
    BY <1>2, <2>1 DEF ApprovalLocks, Approves
  <2>3. execution'[tx[p].decision][tx[p].version] = execution[tx[p].decision][tx[p].version]
    BY <1>3 DEF LocksKept
  <2> QED BY <2>1, <2>2, <2>3
<1>4. ASSUME NEW p \in Processes, NEW q \in Processes, tx'[p].step = "APPROVING", tx'[q].step = "APPROVING",
             tx'[p].decision = tx'[q].decision, tx'[p].version = tx'[q].version
      PROVE  p = q
  BY <1>1, <1>2, <1>4 DEF ApprovalLocks, Approves
<1> QED BY <1>3, <1>4 DEF ApprovalLocks, Approves

\* The orders of approvals, when none is made.
LEMMA FitStays ==
    ASSUME DecisionInv, OrdersKept(ClientKeys), ApprovalSteps
    PROVE  NoneBefore' /\ OneOrderPerApproval'
<1>1. TypeOK /\ \A d \in Decisions, v \in Versions : Fit(execution[d][v].approval, MadeFor(d, v))
  BY FitDef DEF DecisionInv
<1>2. ASSUME NEW d \in Decisions, NEW v \in Versions PROVE MadeFor(d, v)' = MadeFor(d, v)
  <2>1. ClientKeys \subseteq Keys
    BY DEF Keys
  <2>2. \A k \in ClientKeys : /\ order'[k] = NoOrder <=> order[k] = NoOrder
                              /\ order[k] # NoOrder => /\ order'[k].decision = order[k].decision
                                                       /\ order'[k].version = order[k].version
    BY <1>1, <2>1, OrdersKeptFields
  <2> QED BY <2>1, <2>2 DEF MadeFor, Orders
<1>3. ASSUME NEW d \in Decisions, NEW v \in Versions PROVE Fit(execution[d][v].approval, MadeFor(d, v))'
  <2>1. Fit(execution[d][v].approval, MadeFor(d, v))
    BY <1>1
  <2>2. ApprovalStep(execution[d][v].approval, execution'[d][v].approval)
    BY DEF ApprovalSteps
  <2>3. Fit(execution'[d][v].approval, MadeFor(d, v))
    BY <2>1, <2>2 DEF Fit, ApprovalStep
  <2> QED BY <1>2, <2>3 DEF Fit
<1> QED BY <1>3, FitDef DEF NoneBefore, OneOrderPerApproval, Fit

\* Sales, when nobody begins to plan one: an order that is made was planned,
\* and its maker does not plan any more.
LEMMA SalesStay ==
    ASSUME DecisionInv, TypeOK', PlansKept, LocksKept, KindsSame, PositionsKept,
           OrdersKept(Keys) \/ \E p \in Processes, k \in Keys : Makes(p, k)
    PROVE  SellLocks' /\ SalesFit' /\ OneActiveSell'
<1>1. TypeOK /\ SellLocks /\ SalesFit /\ OneActiveSell
  BY DEF DecisionInv
<1>2. ASSUME NEW p \in Processes, SellsNow(p)'
      PROVE  tx'[p] = tx[p] /\ tx[p].decision \in Decisions /\ SellsNow(p)
             /\ decision'[tx[p].decision].symbol = decision[tx[p].decision].symbol
  <2>1. tx'[p] = tx[p] /\ tx[p].step \in {"ROUTED", "APPROVING"}
    BY <1>2 DEF PlansKept, SellsNow, Plans
  <2>2. tx[p].decision \in Decisions
    BY <1>1, <2>1, PlanFields
  <2> QED BY <1>2, <2>1, <2>2 DEF SellsNow, Plans, Sells, KindsSame
<1>3. ASSUME NEW p \in Processes, NEW q \in Processes, SellsNow(p)', SellsNow(q)',
             decision'[tx'[p].decision].symbol = decision'[tx'[q].decision].symbol
      PROVE  p = q
  BY <1>1, <1>2, <1>3 DEF SellLocks, SymbolOf
<1>4. ASSUME NEW k \in Keys, order'[k] # NoOrder, order'[k].status = "ACTIVE",
             decision'[order'[k].decision].action = "SELL"
      PROVE  \/ /\ k \in Orders /\ order[k].status = "ACTIVE" /\ Sells(order[k].decision)
                /\ decision'[order'[k].decision].symbol = SymbolOf(order[k].decision)
             \/ \E p \in Processes : /\ Makes(p, k) /\ SellsNow(p)
                                     /\ decision'[order'[k].decision].symbol = SymbolOf(tx[p].decision)
  <2>1. ASSUME NEW K \in SUBSET Keys, OrdersKept(K), k \in K
        PROVE  /\ k \in Orders /\ order[k].status = "ACTIVE" /\ Sells(order[k].decision)
               /\ decision'[order'[k].decision].symbol = SymbolOf(order[k].decision)
    <3>1. order[k] # NoOrder /\ order'[k].decision = order[k].decision /\ order[k].status = "ACTIVE"
      BY <1>1, <1>4, <2>1, OrdersKeptFields
    <3>2. k \in Orders
      BY <3>1 DEF Orders
    <3>3. order[k].decision \in Decisions
      BY <1>1, <3>2, OrderFields
    <3> QED BY <1>4, <3>1, <3>2, <3>3 DEF KindsSame, Sells, SymbolOf
  <2>2. CASE OrdersKept(Keys)
    BY <2>1, <2>2
  <2>3. ASSUME NEW p \in Processes, NEW j \in Keys, Makes(p, j)
        PROVE  \/ /\ k \in Orders /\ order[k].status = "ACTIVE" /\ Sells(order[k].decision)
                  /\ decision'[order'[k].decision].symbol = SymbolOf(order[k].decision)
               \/ /\ Makes(p, k) /\ SellsNow(p)
                  /\ decision'[order'[k].decision].symbol = SymbolOf(tx[p].decision)
    <3>1. CASE k # j
      <4>1. OrdersKept(Keys \ {j}) /\ k \in Keys \ {j}
        BY <2>3, <3>1 DEF Makes
      <4> QED BY <2>1, <4>1
    <3>2. CASE k = j
      <4>1. order'[k].decision = tx[p].decision /\ tx[p].step \in {"ROUTED", "APPROVING"}
        BY <2>3, <3>2 DEF Makes
      <4>2. tx[p].decision \in Decisions
        BY <1>1, <4>1, PlanFields
      <4>3. SellsNow(p) /\ decision'[order'[k].decision].symbol = SymbolOf(tx[p].decision)
        BY <1>4, <4>1, <4>2 DEF SellsNow, Plans, Sells, SymbolOf, KindsSame
      <4> QED BY <2>3, <3>2, <4>3
    <3> QED BY <3>1, <3>2
  <2> QED BY <2>2, <2>3
<1>5. ASSUME NEW p \in Processes, NEW k \in Keys, SellsNow(p)', order'[k] # NoOrder, order'[k].status = "ACTIVE",
             decision'[order'[k].decision].action = "SELL"
      PROVE  decision'[order'[k].decision].symbol # decision'[tx'[p].decision].symbol
  <2>1. CASE /\ k \in Orders /\ order[k].status = "ACTIVE" /\ Sells(order[k].decision)
             /\ decision'[order'[k].decision].symbol = SymbolOf(order[k].decision)
    BY <1>1, <1>2, <1>5, <2>1 DEF SellLocks, SymbolOf
  <2>2. ASSUME NEW o \in Processes, Makes(o, k), SellsNow(o),
               decision'[order'[k].decision].symbol = SymbolOf(tx[o].decision)
        PROVE  decision'[order'[k].decision].symbol # decision'[tx'[p].decision].symbol
    <3>1. o # p
      BY <1>5, <2>2 DEF Makes, Idle, SellsNow, Plans
    <3> QED BY <1>1, <1>2, <1>5, <2>2, <3>1 DEF SellLocks, SymbolOf
  <2> QED BY <1>4, <1>5, <2>1, <2>2
<1>6. SellLocks'
  BY <1>3, <1>5 DEF SellLocks, Orders, Sells, SymbolOf
<1>7. OneActiveSell'
  <2>1. ASSUME NEW j \in Keys, NEW k \in Keys, order'[j] # NoOrder, order'[k] # NoOrder,
               order'[j].status = "ACTIVE", order'[k].status = "ACTIVE",
               decision'[order'[j].decision].action = "SELL", decision'[order'[k].decision].action = "SELL",
               decision'[order'[j].decision].symbol = decision'[order'[k].decision].symbol
        PROVE  j = k
    <3> DEFINE Old(x) == /\ x \in Orders /\ order[x].status = "ACTIVE" /\ Sells(order[x].decision)
                         /\ decision'[order'[x].decision].symbol = SymbolOf(order[x].decision)
               New(x, p) == /\ Makes(p, x) /\ SellsNow(p)
                            /\ decision'[order'[x].decision].symbol = SymbolOf(tx[p].decision)
    <3>1. Old(j) \/ \E p \in Processes : New(j, p)
      BY <1>4, <2>1
    <3>2. Old(k) \/ \E p \in Processes : New(k, p)
      BY <1>4, <2>1
    <3>3. CASE Old(j) /\ Old(k)
      BY <1>1, <2>1, <3>3 DEF OneActiveSell
    <3>4. ASSUME NEW p \in Processes, New(j, p), Old(k) PROVE FALSE
      BY <1>1, <2>1, <3>4 DEF SellLocks
    <3>5. ASSUME NEW p \in Processes, New(k, p), Old(j) PROVE FALSE
      BY <1>1, <2>1, <3>5 DEF SellLocks
    <3>6. ASSUME NEW p \in Processes, NEW q \in Processes, New(j, p), New(k, q) PROVE j = k
      <4>1. p = q
        BY <1>1, <2>1, <3>6 DEF SellLocks
      <4>2. SUFFICES ASSUME j # k PROVE FALSE
        OBVIOUS
      <4>3. OrdersKept(Keys \ {j}) /\ k \in Keys \ {j} /\ order[k] = NoOrder /\ Keys \ {j} \in SUBSET Keys
        BY <3>6, <4>2 DEF Makes
      <4>4. order'[k] = NoOrder
        BY <1>1, <4>3, OrdersKeptFields
      <4> QED BY <2>1, <4>4
    <3> HIDE DEF Old, New
    <3> QED BY <3>1, <3>2, <3>3, <3>4, <3>5, <3>6
  <2> QED BY <2>1 DEF OneActiveSell, Orders, Sells, SymbolOf
<1>8. SalesFit'
  <2>1. ASSUME NEW p \in Processes, tx'[p].step = "APPROVING", decision'[tx'[p].decision].action = "SELL"
        PROVE  LET e == execution'[tx'[p].decision][tx'[p].version]
                   s == decision'[tx'[p].decision].symbol
               IN  position'[s].version = e.position /\ e.quantity <= position'[s].managed
    <3>1. SellsNow(p)'
      BY <2>1 DEF SellsNow, Plans, Sells
    <3>2. tx'[p] = tx[p] /\ Sells(tx[p].decision)
          /\ decision'[tx[p].decision].symbol = SymbolOf(tx[p].decision)
      BY <1>2, <3>1 DEF SellsNow, SymbolOf
    <3>3. position'[SymbolOf(tx[p].decision)] = position[SymbolOf(tx[p].decision)]
      BY <2>1, <3>2 DEF PositionsKept
    <3>4. execution'[tx[p].decision][tx[p].version] = execution[tx[p].decision][tx[p].version]
      BY <2>1 DEF LocksKept
    <3>5. LET e == execution[tx[p].decision][tx[p].version]
              s == SymbolOf(tx[p].decision)
          IN  position[s].version = e.position /\ e.quantity <= position[s].managed
      BY <1>1, <2>1, <3>2 DEF SalesFit, Approves
    <3> QED BY <3>2, <3>3, <3>4, <3>5
  <2> QED BY <2>1 DEF SalesFit, Approves, Sells, SymbolOf
<1> QED BY <1>6, <1>7, <1>8

\* The pause, when nobody begins to plan.
LEMMA PauseStays ==
    ASSUME DecisionInv, PlansKept, KindsSame, PausesKept
    PROVE  PauseStopsEntries'
<1>1. TypeOK /\ PauseStopsEntries
  BY DEF DecisionInv
<1>2. ASSUME NEW p \in Processes, EntryUnderWay(p)'
      PROVE  EntryUnderWay(p) /\ tx'[p].step \in {"ROUTED", "APPROVING"}
  <2>1. tx'[p].step \in {"ROUTED", "APPROVING"} /\ tx'[p] = tx[p]
    BY <1>2 DEF EntryUnderWay, PlansKept
  <2>2. tx[p].decision \in Decisions
    BY <1>1, <2>1, PlanFields
  <2> QED BY <1>2, <2>1, <2>2 DEF EntryUnderWay, Sells, KindsSame
<1> QED BY <1>1, <1>2 DEF PauseStopsEntries, PausesKept

\* The entries under way are finitely many, and at most one per process.
LEMMA UnderWayFinite ==
    /\ IsFiniteSet(UnderWay) /\ Cardinality(UnderWay) \in Nat
    /\ Cardinality(Processes) \in Nat /\ Cardinality(UnderWay) <= Cardinality(Processes)
<1>1. UnderWay \subseteq Processes
  BY DEF UnderWay
<1> QED BY <1>1, FS_Subset, FS_CardinalityType

\* Nobody begins an entry.
LEMMA UnderWayShrinks ==
    ASSUME TypeOK, PlansKept, KindsSame
    PROVE  UnderWay' \subseteq UnderWay
<1>1. ASSUME NEW p \in Processes, EntryUnderWay(p)' PROVE EntryUnderWay(p)
  <2>1. tx'[p].step \in {"ROUTED", "APPROVING"} /\ tx'[p] = tx[p]
    BY <1>1 DEF EntryUnderWay, PlansKept
  <2>2. tx[p].decision \in Decisions
    BY <2>1, PlanFields
  <2> QED BY <1>1, <2>1, <2>2 DEF EntryUnderWay, Sells, KindsSame
<1> QED BY <1>1 DEF UnderWay

\* An order that stays is an entry if it was one.
LEMMA EntriesKept ==
    ASSUME TypeOK, KindsSame, NEW K \in SUBSET Keys, OrdersKept(K), NEW k \in K
    PROVE  k \in Entries' <=> k \in Entries
<1>1. /\ order'[k] = NoOrder <=> order[k] = NoOrder
      /\ order[k] # NoOrder => order'[k].decision = order[k].decision
  BY OrdersKeptFields
<1>2. order[k] # NoOrder => order[k].decision \in Decisions
  BY OrderFields DEF Orders
<1>3. k \in Entries <=> order[k] # NoOrder /\ decision[order[k].decision].action # "SELL"
  BY DEF Entries, Orders, Sells
<1>4. k \in Entries' <=> order'[k] # NoOrder /\ decision'[order'[k].decision].action # "SELL"
  BY DEF Entries, Orders, Sells
<1> QED BY <1>1, <1>2, <1>3, <1>4 DEF KindsSame

\* The count of entries, when none is made.
LEMMA EntriesStay ==
    ASSUME DecisionInv, PlansKept, KindsSame, OrdersKept(Keys)
    PROVE  EntriesFit'
<1>1. TypeOK /\ EntriesFit
  BY DEF DecisionInv
<1>2. Entries' = Entries
  <2>1. Entries \subseteq Keys /\ Entries' \subseteq Keys
    BY DEF Entries, Orders
  <2> QED BY <1>1, <2>1, EntriesKept
<1>3. UnderWay' \subseteq UnderWay
  BY <1>1, UnderWayShrinks
<1>4. Cardinality(UnderWay') <= Cardinality(UnderWay) /\ Cardinality(UnderWay') \in Nat
  BY <1>3, UnderWayFinite, FS_Subset, FS_CardinalityType
<1>5. Cardinality(Entries) \in Nat
  BY <1>1, FS_CardinalityType DEF EntriesFit
<1> QED BY <1>1, <1>2, <1>4, <1>5, UnderWayFinite DEF EntriesFit

\* The count of entries, when one is made: its maker is not under way any more.
LEMMA EntriesGrow ==
    ASSUME DecisionInv, NEW p \in Processes, NEW k \in Keys, Makes(p, k)
    PROVE  EntriesFit'
<1>1. TypeOK /\ EntriesFit
  BY DEF DecisionInv
<1>2. PlansKept /\ KindsSame /\ OrdersKept(Keys \ {k}) /\ tx'[p] = Idle
      /\ tx[p].step \in {"ROUTED", "APPROVING"} /\ order[k] = NoOrder /\ order'[k].decision = tx[p].decision
      /\ (tx[p].step = "ROUTED" => tx[p].outcome = "ORDER")
  BY DEF Makes
<1>3. tx[p].decision \in Decisions
  BY <1>1, <1>2, PlanFields
<1>4. k \notin Entries
  BY <1>2 DEF Entries, Orders
<1>5. Entries' \in {Entries, Entries \cup {k}}
  <2>1. \A j \in Keys \ {k} : j \in Entries' <=> j \in Entries
    BY <1>1, <1>2, EntriesKept
  <2>2. Entries \subseteq Keys /\ Entries' \subseteq Keys
    BY DEF Entries, Orders
  <2> QED BY <1>4, <2>1, <2>2
<1>6. UnderWay' \subseteq UnderWay \ {p}
  <2>1. UnderWay' \subseteq UnderWay
    BY <1>1, <1>2, UnderWayShrinks
  <2>2. p \notin UnderWay'
    BY <1>2 DEF UnderWay, EntryUnderWay, Idle
  <2> QED BY <2>1, <2>2
<1>7. k \in Entries' => p \in UnderWay
  BY <1>2, <1>3 DEF Entries, Orders, UnderWay, EntryUnderWay, Sells, KindsSame
<1>8. /\ IsFiniteSet(Entries \cup {k}) /\ Cardinality(Entries \cup {k}) = Cardinality(Entries) + 1
      /\ IsFiniteSet(Entries) /\ Cardinality(Entries) \in Nat
  BY <1>1, <1>4, FS_AddElement, FS_CardinalityType DEF EntriesFit
<1>9. /\ IsFiniteSet(UnderWay \ {p})
      /\ p \in UnderWay => Cardinality(UnderWay \ {p}) = Cardinality(UnderWay) - 1
      /\ Cardinality(UnderWay \ {p}) <= Cardinality(UnderWay) /\ Cardinality(UnderWay \ {p}) \in Nat
  BY UnderWayFinite, FS_RemoveElement, FS_Subset, FS_CardinalityType
<1>10. Cardinality(UnderWay') <= Cardinality(UnderWay \ {p}) /\ Cardinality(UnderWay') \in Nat
  BY <1>6, <1>9, FS_Subset, FS_CardinalityType
<1>11. CASE Entries' = Entries
  BY <1>1, <1>8, <1>9, <1>10, <1>11, UnderWayFinite DEF EntriesFit
<1>12. CASE Entries' = Entries \cup {k}
  <2>1. p \in UnderWay
    BY <1>7, <1>12
  <2> QED BY <1>1, <1>8, <1>9, <1>10, <1>12, <2>1, UnderWayFinite DEF EntriesFit
<1> QED BY <1>5, <1>11, <1>12

\* A step that makes no order and begins no plan keeps the invariant.
LEMMA QuietStep ==
    ASSUME DecisionInv, TypeOK', Quiet, SettledTogether', PositionsKept, PauseStopsEntries'
    PROVE  DecisionInv'
<1>1. PlansKept /\ LocksKept /\ KindsSame /\ OrdersKept(Keys) /\ ApprovalSteps
  BY DEF Quiet
<1>2. OrdersKept(ClientKeys)
  BY <1>1 DEF OrdersKept, Keys
<1>3. ApprovalLocks'
  BY <1>1, LocksStay
<1>4. NoneBefore' /\ OneOrderPerApproval'
  BY <1>1, <1>2, FitStays
<1>5. SellLocks' /\ SalesFit' /\ OneActiveSell'
  BY <1>1, SalesStay
<1>6. EntriesFit'
  BY <1>1, EntriesStay
<1> QED BY <1>3, <1>4, <1>5, <1>6 DEF DecisionInv

\* A step that makes an order keeps the invariant if the approval still fits.
LEMMA MakeStep ==
    ASSUME DecisionInv, TypeOK', NEW p \in Processes, NEW k \in Keys, Makes(p, k),
           SettledTogether', NoneBefore', OneOrderPerApproval', PositionsKept, PausesKept
    PROVE  DecisionInv'
<1>1. PlansKept /\ LocksKept /\ KindsSame
  BY DEF Makes
<1>2. ApprovalLocks'
  BY <1>1, LocksStay
<1>3. SellLocks' /\ SalesFit' /\ OneActiveSell'
  BY <1>1, SalesStay
<1>4. EntriesFit'
  BY EntriesGrow
<1>5. PauseStopsEntries'
  BY <1>1, PauseStays
<1> QED BY <1>2, <1>3, <1>4, <1>5 DEF DecisionInv

\* What a process must have found to begin a plan.
MayPlan(t) ==
    /\ t.step \in {"ROUTED", "APPROVING"} /\ t.decision \in Decisions
    /\ t.step = "APPROVING" => /\ t.version \in Versions /\ ApprovalFree(t.decision, t.version)
                               /\ execution[t.decision][t.version].approval = "PENDING"
    /\ Sells(t.decision) => /\ PositionFree(SymbolOf(t.decision))
                            /\ ~_has_active_symbol_order(SymbolOf(t.decision))
    /\ t.step = "APPROVING" /\ Sells(t.decision) =>
           LET e == execution[t.decision][t.version]
               s == SymbolOf(t.decision)
           IN  position[s].version = e.position /\ e.quantity <= position[s].managed
    /\ ~Sells(t.decision) => ~paused /\ daily_entry_count < MaxEntries

\* A process that begins a plan under its locks and the guard keeps the invariant.
LEMMA TakeStep ==
    ASSUME DecisionInv, TypeOK', NEW p \in Processes, NEW t, MayPlan(t),
           tx' = [tx EXCEPT ![p] = t], tx[p].step \notin {"ROUTED", "APPROVING"},
           UNCHANGED <<paused, position, decision, execution, order, racing>>
    PROVE  DecisionInv'
<1>1. TypeOK
  BY DEF DecisionInv
<1>2. tx'[p] = t /\ \A q \in Processes \ {p} : tx'[q] = tx[q]
  BY <1>1, SetTx
<1>3. SettledTogether' /\ NoneBefore' /\ OneOrderPerApproval' /\ OneActiveSell'
  BY DEF DecisionInv, SettledTogether, NoneBefore, OneOrderPerApproval, OneActiveSell, MadeFor, Orders, Sells, SymbolOf
<1>4. ApprovalLocks'
  <2>1. ApprovalLocks
    BY DEF DecisionInv
  <2>2. ASSUME NEW q \in Processes, tx'[q].step = "APPROVING"
        PROVE  execution'[tx'[q].decision][tx'[q].version].approval = "PENDING"
    BY <1>2, <2>1, <2>2 DEF ApprovalLocks, Approves, MayPlan
  <2>3. ASSUME NEW q \in Processes \ {p}, t.step = "APPROVING", tx[q].step = "APPROVING",
               tx[q].decision = t.decision, tx[q].version = t.version
        PROVE  FALSE
    BY <2>3 DEF MayPlan, ApprovalFree
  <2>4. ASSUME NEW q \in Processes, NEW o \in Processes, tx'[q].step = "APPROVING", tx'[o].step = "APPROVING",
               tx'[q].decision = tx'[o].decision, tx'[q].version = tx'[o].version
        PROVE  q = o
    BY <1>2, <2>1, <2>3, <2>4 DEF ApprovalLocks, Approves
  <2> QED BY <2>2, <2>4 DEF ApprovalLocks, Approves
<1>5. SellLocks'
  <2>1. SellLocks
    BY DEF DecisionInv
  <2>2. ASSUME NEW q \in Processes \ {p}, SellsNow(q), Sells(t.decision)
        PROVE  SymbolOf(tx[q].decision) # SymbolOf(t.decision)
    BY <2>2 DEF MayPlan, PositionFree, SellsNow, Plans
  <2>3. ASSUME NEW k \in Orders, order[k].status = "ACTIVE", Sells(t.decision)
        PROVE  SymbolOf(order[k].decision) # SymbolOf(t.decision)
    BY <2>3 DEF MayPlan, _has_active_symbol_order
  <2>4. ASSUME NEW q \in Processes, SellsNow(q)'
        PROVE  (q = p /\ Sells(t.decision)) \/ (q # p /\ SellsNow(q) /\ tx'[q] = tx[q])
    BY <1>2, <2>4 DEF SellsNow, Plans, Sells
  <2>5. ASSUME NEW q \in Processes, NEW o \in Processes, SellsNow(q)', SellsNow(o)',
               SymbolOf(tx'[q].decision) = SymbolOf(tx'[o].decision)
        PROVE  q = o
    BY <1>2, <2>1, <2>2, <2>4, <2>5 DEF SellLocks
  <2>6. ASSUME NEW q \in Processes, NEW k \in Orders, SellsNow(q)', order[k].status = "ACTIVE", Sells(order[k].decision)
        PROVE  SymbolOf(order[k].decision) # SymbolOf(tx'[q].decision)
    BY <1>2, <2>1, <2>3, <2>4, <2>6 DEF SellLocks
  <2> QED BY <2>5, <2>6 DEF SellLocks, Orders, Sells, SymbolOf
<1>6. SalesFit'
  <2>1. SalesFit
    BY DEF DecisionInv
  <2>2. ASSUME NEW q \in Processes, tx'[q].step = "APPROVING", Sells(tx'[q].decision)
        PROVE  LET e == execution[tx'[q].decision][tx'[q].version]
                   s == SymbolOf(tx'[q].decision)
               IN  position[s].version = e.position /\ e.quantity <= position[s].managed
    <3>1. CASE q = p
      BY <1>2, <2>2, <3>1 DEF MayPlan
    <3>2. CASE q # p
      BY <1>2, <2>1, <2>2, <3>2 DEF SalesFit, Approves
    <3> QED BY <3>1, <3>2
  <2> QED BY <2>2 DEF SalesFit, Approves, Sells, SymbolOf
<1>7. PauseStopsEntries'
  <2>1. PauseStopsEntries
    BY DEF DecisionInv
  <2>2. ASSUME NEW q \in Processes, EntryUnderWay(q)'
        PROVE  (q = p /\ ~Sells(t.decision)) \/ (q # p /\ EntryUnderWay(q))
    BY <1>2, <2>2 DEF EntryUnderWay, Sells
  <2> QED BY <2>1, <2>2 DEF PauseStopsEntries, MayPlan
<1>8. EntriesFit'
  <2>1. EntriesFit
    BY DEF DecisionInv
  <2>2. Entries' = Entries
    BY DEF Entries, Orders, Sells
  <2>3. Cardinality(Entries) \in Nat
    BY <2>1, FS_CardinalityType DEF EntriesFit
  <2>4. CASE ~Sells(t.decision)
    <3>1. Cardinality(Entries) < MaxEntries
      BY <2>4 DEF MayPlan, daily_entry_count, Entries
    <3>2. UnderWay' \subseteq Processes
      BY DEF UnderWay
    <3>3. Cardinality(UnderWay') <= Cardinality(Processes) /\ Cardinality(UnderWay') \in Nat
          /\ Cardinality(Processes) \in Nat
      BY <3>2, FS_Subset, FS_CardinalityType
    <3> QED BY <2>1, <2>2, <2>3, <3>1, <3>3 DEF EntriesFit
  <2>5. CASE Sells(t.decision)
    <3>1. UnderWay' \subseteq UnderWay
      BY <1>2, <2>5 DEF UnderWay, EntryUnderWay, Sells
    <3>2. Cardinality(UnderWay') <= Cardinality(UnderWay) /\ Cardinality(UnderWay') \in Nat
      BY <3>1, UnderWayFinite, FS_Subset, FS_CardinalityType
    <3> QED BY <2>1, <2>2, <2>3, <3>2, UnderWayFinite DEF EntriesFit
  <2> QED BY <2>4, <2>5
<1> QED BY <1>3, <1>4, <1>5, <1>6, <1>7, <1>8 DEF DecisionInv

-----------------------------------------------------------------------------
(***************************************************************************)
(* The operations.                                                         *)
(***************************************************************************)

Settled(e) ==
    /\ (e.state = "REJECTED") <=> (e.approval = "REJECTED")
    /\ e.state = "APPROVAL_PENDING" => e.approval \in {"PENDING", "EXPIRED"}
    /\ e.approval = "PENDING" => e.state = "APPROVAL_PENDING"
    /\ e.approval = "APPROVED" => e.state = "ORDER_CREATED"
    /\ e.approval = "EXPIRED" => e.state \in {"EXPIRED", "APPROVAL_PENDING"}
    /\ e.approval = "INVALIDATED" => e.state \in {"INVALIDATED", "FAILED_SAFE"}

\* SettledTogether is about one row at a time.
LEMMA SettledDef == SettledTogether <=> \A d \in Decisions, v \in Versions : Settled(execution[d][v])
BY DEF SettledTogether, Settled

\* A step that leaves executions alone.
LEMMA ExecutionsAlone ==
    ASSUME DecisionInv, execution' = execution
    PROVE  SettledTogether' /\ LocksKept /\ ApprovalSteps
BY DEF DecisionInv, SettledTogether, LocksKept, ApprovalSteps, ApprovalStep

\* A step that moves one process to a record that plans nothing.
LEMMA TxEnds ==
    ASSUME TypeOK, NEW p \in Processes, NEW t, tx' = [tx EXCEPT ![p] = t], t.step \notin {"ROUTED", "APPROVING"}
    PROVE  PlansKept
BY SetTx DEF PlansKept

\* End(p) does, and takes only p from the race.
LEMMA EndEffect ==
    ASSUME TypeOK, NEW p \in Processes, End(p)
    PROVE  /\ PlansKept /\ tx' \in [Processes -> Tx] /\ racing' \subseteq Processes
           /\ tx'[p] = Idle
           /\ \A q \in Processes : tx'[q].step \in {"ROUTED", "APPROVING"} => q # p
           /\ paused' = paused => PausesKept
<1>1. tx' = [tx EXCEPT ![p] = Idle] /\ racing' = racing \ {p}
  BY DEF End
<1>2. Idle.step = "IDLE" /\ Idle \in Tx
  BY DEF Idle, Tx
<1>3. PlansKept
  BY <1>1, <1>2, TxEnds
<1>4. tx'[p] = Idle /\ tx' \in [Processes -> Tx]
  BY <1>1, <1>2, SetTx
<1>5. racing' \subseteq Processes
  BY <1>1 DEF TypeOK
<1>6. \A q \in Processes : tx'[q].step \in {"ROUTED", "APPROVING"} => q # p
  BY <1>2, <1>4
<1> QED BY <1>1, <1>3, <1>4, <1>5, <1>6 DEF PausesKept

\* One execution is written that no process is approving.
LEMMA ExecutionWritten ==
    ASSUME DecisionInv, PlansKept, NEW d \in Decisions, NEW v \in Versions,
           \A x \in Decisions, y \in Versions : <<x, y>> # <<d, v>> => execution'[x][y] = execution[x][y],
           Settled(execution'[d][v]),
           \A p \in Processes : tx'[p].step = "APPROVING" => <<tx[p].decision, tx[p].version>> # <<d, v>>
    PROVE  /\ SettledTogether' /\ LocksKept
           /\ ApprovalStep(execution[d][v].approval, execution'[d][v].approval) => ApprovalSteps
<1>1. TypeOK /\ \A x \in Decisions, y \in Versions : Settled(execution[x][y])
  BY SettledDef DEF DecisionInv
<1>2. ASSUME NEW x \in Decisions, NEW y \in Versions PROVE Settled(execution'[x][y])
  <2>1. CASE <<x, y>> = <<d, v>>
    BY <2>1
  <2>2. CASE <<x, y>> # <<d, v>>
    BY <1>1, <2>2
  <2> QED BY <2>1, <2>2
<1>3. SettledTogether'
  BY <1>2 DEF SettledTogether, Settled
<1>4. LocksKept
  <2>1. ASSUME NEW p \in Processes, tx'[p].step = "APPROVING"
        PROVE  execution'[tx[p].decision][tx[p].version] = execution[tx[p].decision][tx[p].version]
    <3>1. tx[p].step = "APPROVING"
      BY <2>1 DEF PlansKept
    <3>2. tx[p].decision \in Decisions /\ tx[p].version \in Versions
      BY <1>1, <3>1, PlanFields
    <3> QED BY <2>1, <3>2
  <2> QED BY <2>1 DEF LocksKept
<1>5. ASSUME ApprovalStep(execution[d][v].approval, execution'[d][v].approval) PROVE ApprovalSteps
  <2>1. ASSUME NEW x \in Decisions, NEW y \in Versions
        PROVE  ApprovalStep(execution[x][y].approval, execution'[x][y].approval)
    <3>1. CASE <<x, y>> = <<d, v>>
      BY <1>5, <3>1
    <3>2. CASE <<x, y>> # <<d, v>>
      BY <3>2 DEF ApprovalStep
    <3> QED BY <3>1, <3>2
  <2> QED BY <2>1 DEF ApprovalSteps
<1> QED BY <1>3, <1>4, <1>5

\* Steps after which the orders are those before.
LEMMA OrdersAlone ==
    ASSUME order' = order
    PROVE  OrdersKept(Keys)
BY DEF OrdersKept

\* Positions that nobody writes.
LEMMA PositionsAlone ==
    ASSUME position' = position
    PROVE  PositionsKept
BY DEF PositionsKept

\* A tick reads the position of its decision.
LEMMA TickStep ==
    ASSUME DecisionInv, NEW r \in Routers, NEW d \in Decisions, run_analysis_tick(r, d)
    PROVE  DecisionInv'
<1> DEFINE t == [step |-> "LOADED", decision |-> d, new |-> decision[d].life = "ABSENT",
                 copy |-> position[SymbolOf(d)]]
<1>1. TypeOK /\ r \in Processes
  BY DEF DecisionInv, Processes
<1>2. decision[d] \in Decision /\ position[SymbolOf(d)] \in Position
  BY <1>1 DEF TypeOK, SymbolOf, Decision
<1>3. (decision[d].life = "ABSENT") \in BOOLEAN
  OBVIOUS
<1>4. t \in Loaded /\ t.step = "LOADED"
  BY <1>2, <1>3 DEF Loaded
<1>5. tx' = [tx EXCEPT ![r] = t] /\ UNCHANGED <<racing, version, paused, position, decision, execution, order>>
  BY DEF run_analysis_tick, Begin
<1> HIDE DEF t
<1>6. tx' \in [Processes -> Tx]
  BY <1>1, <1>4, <1>5, SetTx DEF Tx
<1>7. TypeOK'
  BY <1>1, <1>5, <1>6 DEF TypeOK, Tx
<1>8. PlansKept
  BY <1>1, <1>4, <1>5, TxEnds
<1>9. SettledTogether' /\ LocksKept /\ ApprovalSteps
  BY <1>5, ExecutionsAlone
<1>10. KindsSame /\ PausesKept
  BY <1>5 DEF KindsSame, PausesKept
<1>11. Quiet
  BY <1>5, <1>8, <1>9, <1>10, OrdersAlone DEF Quiet
<1>12. PauseStopsEntries'
  BY <1>8, <1>10, PauseStays
<1> QED BY <1>5, <1>7, <1>9, <1>11, <1>12, QuietStep, PositionsAlone

\* A crash, or a tick with nothing to do.
LEMMA AbortStep ==
    ASSUME DecisionInv, NEW p \in Processes, Abort(p)
    PROVE  DecisionInv'
<1>1. TypeOK
  BY DEF DecisionInv
<1>2. End(p) /\ UNCHANGED <<version, paused, position, decision, execution, order>>
  BY DEF Abort
<1>3. PlansKept /\ tx' \in [Processes -> Tx] /\ racing' \subseteq Processes /\ PausesKept
  BY <1>1, <1>2, EndEffect
<1>4. TypeOK'
  BY <1>1, <1>2, <1>3 DEF TypeOK, Tx
<1>5. SettledTogether' /\ LocksKept /\ ApprovalSteps
  BY <1>2, ExecutionsAlone
<1>6. KindsSame
  BY <1>2 DEF KindsSame
<1>7. Quiet
  BY <1>2, <1>3, <1>5, <1>6, OrdersAlone DEF Quiet
<1>8. PauseStopsEntries'
  BY <1>3, <1>6, PauseStays
<1> QED BY <1>2, <1>4, <1>5, <1>7, <1>8, QuietStep, PositionsAlone

\* Routing plans an order or an approval, under the guard and its lock.
LEMMA RouteStep ==
    ASSUME DecisionInv, NEW r \in Routers, route_trading_decision(r)
    PROVE  DecisionInv'
<1>1. TypeOK /\ r \in Processes /\ version \in Versions
  BY DEF DecisionInv, Processes, TypeOK
<1>2. tx[r].step = "LOADED" /\ UNCHANGED <<version, paused, position, decision, execution, order>>
  BY DEF route_trading_decision
<1>3. tx[r].decision \in Decisions /\ tx[r].new \in BOOLEAN /\ tx[r].copy \in Position
  BY <1>1, <1>2, PlanFields
<1>4. tx[r].copy.version \in 0..MaxPosition
  BY <1>3 DEF Position
<1> DEFINE d == tx[r].decision
           t(outcome, quantity, pos) ==
               [step |-> "ROUTED", decision |-> d, new |-> tx[r].new, version |-> version,
                outcome |-> outcome, quantity |-> quantity, position |-> pos]
<1>5. PICK outcome \in {"APPROVAL", "ORDER"}, quantity \in 1..Shares, pos \in 0..MaxPosition :
          /\ tx' = [tx EXCEPT ![r] = t(outcome, quantity, pos)] /\ racing' = racing
          /\ Sells(d) => PositionFree(SymbolOf(d)) /\ ~_has_active_symbol_order(SymbolOf(d))
          /\ ~Sells(d) => ~paused /\ daily_entry_count < MaxEntries
  <2>1. CASE ~Sells(d) /\ _buy_guard_rules(d) /\ \E outcome \in {"APPROVAL", "ORDER"}, quantity \in 1..Shares :
                 Route(r, outcome, quantity, 0)
    <3>1. PICK outcome \in {"APPROVAL", "ORDER"}, quantity \in 1..Shares : Route(r, outcome, quantity, 0)
      BY <2>1
    <3>2. 0 \in 0..MaxPosition
      OBVIOUS
    <3> QED BY <2>1, <3>1, <3>2 DEF Route, Begin, _buy_guard_rules
  <2>2. CASE /\ Sells(d) /\ PositionFree(SymbolOf(d))
             /\ \E outcome \in {"APPROVAL", "ORDER"}, quantity \in 1..Shares :
                    /\ _sell_guard_rules(d, tx[r].copy, quantity)
                    /\ Route(r, outcome, quantity, tx[r].copy.version)
    <3>1. PICK outcome \in {"APPROVAL", "ORDER"}, quantity \in 1..Shares :
              /\ _sell_guard_rules(d, tx[r].copy, quantity)
              /\ Route(r, outcome, quantity, tx[r].copy.version)
      BY <2>2
    <3> QED BY <1>4, <2>2, <3>1 DEF Route, Begin, _sell_guard_rules
  <2> QED BY <2>1, <2>2 DEF route_trading_decision
<1>6. t(outcome, quantity, pos) \in Routed
  BY <1>1, <1>3 DEF Routed
<1>7. tx' \in [Processes -> Tx]
  BY <1>1, <1>5, <1>6, SetTx DEF Tx
<1>8. TypeOK'
  BY <1>1, <1>2, <1>5, <1>7 DEF TypeOK, Tx
<1>9. MayPlan(t(outcome, quantity, pos))
  BY <1>3, <1>5 DEF MayPlan
<1>10. tx[r].step \notin {"ROUTED", "APPROVING"}
  BY <1>2
<1> HIDE DEF t
<1> QED BY <1>1, <1>2, <1>5, <1>8, <1>9, <1>10, TakeStep

\* The decision of a routing transaction is inserted.
LEMMA InsertsEffect ==
    ASSUME TypeOK, NEW r \in Processes, tx[r].decision \in Decisions, Inserts(r)
    PROVE  KindsSame /\ decision' \in [Decisions -> Decision]
<1>1. decision \in [Decisions -> Decision]
  BY DEF TypeOK
<1>2. PICK d \in Decisions : d = tx[r].decision
  OBVIOUS
<1>3. CASE decision' = decision
  BY <1>1, <1>3 DEF KindsSame
<1>4. CASE decision' = [decision EXCEPT ![d].life = "VALID"]
  <2>1. decision[d] \in Decision
    BY <1>1
  <2>2. [decision[d] EXCEPT !.life = "VALID"] \in Decision
        /\ [decision[d] EXCEPT !.life = "VALID"].action = decision[d].action
        /\ [decision[d] EXCEPT !.life = "VALID"].symbol = decision[d].symbol
    BY <2>1 DEF Decision
  <2> QED BY <1>1, <1>4, <2>2 DEF KindsSame
<1> QED BY <1>2, <1>3, <1>4 DEF Inserts

\* An execution that does not exist is not being approved.
LEMMA NobodyApproves ==
    ASSUME DecisionInv, PlansKept, NEW d \in Decisions, NEW v \in Versions, execution[d][v] = NoExecution
    PROVE  \A p \in Processes : tx'[p].step = "APPROVING" => <<tx[p].decision, tx[p].version>> # <<d, v>>
<1>1. NoExecution.approval = "ABSENT"
  BY DEF NoExecution
<1>2. ASSUME NEW p \in Processes, tx'[p].step = "APPROVING", <<tx[p].decision, tx[p].version>> = <<d, v>>
      PROVE  FALSE
  <2>1. tx[p].step = "APPROVING"
    BY <1>2 DEF PlansKept
  <2>2. execution[tx[p].decision][tx[p].version].approval = "PENDING"
    BY <2>1 DEF DecisionInv, ApprovalLocks, Approves
  <2>3. tx[p].decision = d /\ tx[p].version = v
    BY <1>2
  <2> QED BY <1>1, <2>2, <2>3
<1> QED BY <1>2

\* Routing ends without a plan.
LEMMA RouteEndsStep ==
    ASSUME DecisionInv, NEW r \in Routers, route_ends(r)
    PROVE  DecisionInv'
<1>1. TypeOK /\ r \in Processes /\ version \in Versions
  BY DEF DecisionInv, Processes, TypeOK
<1>2. /\ tx[r].step = "LOADED" /\ execution[tx[r].decision][version] = NoExecution
      /\ execution' = [execution EXCEPT ![tx[r].decision][version].state = "ENDED"]
      /\ Inserts(r) /\ End(r) /\ UNCHANGED <<version, paused, position, order>>
  BY DEF route_ends
<1>3. tx[r].decision \in Decisions
  BY <1>1, <1>2, PlanFields
<1>4. PICK d \in Decisions, v \in Versions : d = tx[r].decision /\ v = version
  BY <1>1, <1>3
<1> DEFINE e == [execution[d][v] EXCEPT !.state = "ENDED"]
<1>5. e \in Execution /\ e.state = "ENDED" /\ e.approval = "ABSENT" /\ execution[d][v].approval = "ABSENT"
  BY <1>2, <1>4 DEF NoExecution, Execution, ExecutionStates, ApprovalStates
<1>6. execution' = [execution EXCEPT ![d][v] = e]
  BY <1>2, <1>4
<1> HIDE DEF e
<1>7. /\ execution'[d][v] = e
      /\ \A x \in Decisions, y \in Versions : <<x, y>> # <<d, v>> => execution'[x][y] = execution[x][y]
      /\ e \in Execution => execution' \in [Decisions -> [Versions -> Execution]]
  BY <1>1, <1>6, SetExecution, Zenon
<1>8. KindsSame /\ decision' \in [Decisions -> Decision]
  BY <1>1, <1>2, <1>3, InsertsEffect
<1>9. PlansKept /\ tx' \in [Processes -> Tx] /\ racing' \subseteq Processes /\ PausesKept
  BY <1>1, <1>2, EndEffect
<1>10. TypeOK'
  BY <1>1, <1>2, <1>5, <1>7, <1>8, <1>9 DEF TypeOK, Tx
<1>11. Settled(execution'[d][v])
  BY <1>5, <1>7 DEF Settled
<1>12. ApprovalStep(execution[d][v].approval, execution'[d][v].approval)
  BY <1>5, <1>7 DEF ApprovalStep
<1>13. SettledTogether' /\ LocksKept /\ ApprovalSteps
  BY <1>1, <1>2, <1>4, <1>7, <1>9, <1>11, <1>12, ExecutionWritten, NobodyApproves, SMTT(40)
<1>14. Quiet
  BY <1>2, <1>8, <1>9, <1>13, OrdersAlone DEF Quiet
<1>15. PauseStopsEntries'
  BY <1>8, <1>9, PauseStays
<1> QED BY <1>2, <1>10, <1>13, <1>14, <1>15, QuietStep, PositionsAlone

\* Routing commits its approval or its order.
LEMMA RouteCommitsStep ==
    ASSUME DecisionInv, NEW r \in Routers, route_commits(r)
    PROVE  DecisionInv'
<1>1. TypeOK /\ r \in Processes
  BY DEF DecisionInv, Processes
<1>2. /\ tx[r].step = "ROUTED" /\ execution[tx[r].decision][tx[r].version] = NoExecution
      /\ Inserts(r) /\ End(r) /\ UNCHANGED <<version, paused, position>>
      /\ create_approval(r) \/ _create_automatic_order(r)
  BY DEF route_commits
<1>3. /\ tx[r].decision \in Decisions /\ tx[r].version \in Versions
      /\ tx[r].quantity \in 0..Shares /\ tx[r].position \in 0..MaxPosition
  BY <1>1, <1>2, PlanFields
<1>4. PICK d \in Decisions, v \in Versions : d = tx[r].decision /\ v = tx[r].version
  BY <1>3
<1> DEFINE e(state, approval) ==
               [state |-> state, approval |-> approval, quantity |-> tx[r].quantity, position |-> tx[r].position]
           o == NewOrder(d, v, tx[r].quantity, tx[r].position)
<1>5. PICK state \in {"APPROVAL_PENDING", "ORDER_CREATED", "FAILED_SAFE"}, approval \in {"PENDING", "ABSENT"} :
          /\ execution' = [execution EXCEPT ![d][v] = e(state, approval)]
          /\ state = "APPROVAL_PENDING" <=> approval = "PENDING"
          /\ \/ order' = order
             \/ tx[r].outcome = "ORDER" /\ order[d] = NoOrder /\ order' = [order EXCEPT ![d] = o]
  <2>1. CASE create_approval(r)
    BY <1>4, <2>1 DEF create_approval, Enter
  <2>2. CASE _create_automatic_order(r)
    <3>1. CASE /\ tx[r].outcome = "ORDER" /\ order[d] = NoOrder /\ order' = [order EXCEPT ![d] = o]
               /\ Enter(r, "ORDER_CREATED", "ABSENT")
      BY <1>4, <3>1 DEF Enter
    <3>2. CASE order' = order /\ (Enter(r, "ORDER_CREATED", "ABSENT") \/ Enter(r, "FAILED_SAFE", "ABSENT"))
      BY <1>4, <3>2 DEF Enter
    <3> QED BY <1>4, <2>2, <3>1, <3>2 DEF _create_automatic_order
  <2> QED BY <1>2, <2>1, <2>2
<1>6. PICK n : n = e(state, approval)
  OBVIOUS
<1>7. n \in Execution /\ n.state = state /\ n.approval = approval
  BY <1>3, <1>6 DEF Execution, ExecutionStates, ApprovalStates
<1>8. /\ execution'[d][v] = n
      /\ \A x \in Decisions, y \in Versions : <<x, y>> # <<d, v>> => execution'[x][y] = execution[x][y]
      /\ n \in Execution => execution' \in [Decisions -> [Versions -> Execution]]
  <2>1. execution' = [execution EXCEPT ![d][v] = n]
    BY <1>5, <1>6
  <2> QED BY <1>1, <2>1, SetExecution, Zenon
<1>9. KindsSame /\ decision' \in [Decisions -> Decision]
  BY <1>1, <1>2, <1>3, InsertsEffect
<1>10. PlansKept /\ tx' \in [Processes -> Tx] /\ racing' \subseteq Processes /\ PausesKept /\ tx'[r] = Idle
  BY <1>1, <1>2, EndEffect
<1>11. o \in Order /\ o.decision = d
  BY <1>3, <1>4 DEF NewOrder, Order
<1>12. d \in Keys /\ d \notin ClientKeys
  BY DEF Keys
<1> HIDE DEF o
<1>13. order' \in [Keys -> Order \cup {NoOrder}]
  BY <1>1, <1>5, <1>11, <1>12 DEF TypeOK
<1>14. TypeOK'
  BY <1>1, <1>2, <1>7, <1>8, <1>9, <1>10, <1>13 DEF TypeOK, Tx
<1>15. Settled(execution'[d][v])
  BY <1>5, <1>7, <1>8 DEF Settled
<1>16. ApprovalStep(execution[d][v].approval, execution'[d][v].approval)
  BY <1>2, <1>4, <1>7, <1>8 DEF ApprovalStep, NoExecution
<1>17. \A p \in Processes : tx'[p].step = "APPROVING" => <<tx[p].decision, tx[p].version>> # <<d, v>>
  BY <1>2, <1>4, <1>10, NobodyApproves
<1>18. SettledTogether' /\ LocksKept /\ ApprovalSteps
  BY <1>8, <1>10, <1>15, <1>16, <1>17, ExecutionWritten
<1>19. PauseStopsEntries' /\ PositionsKept
  BY <1>2, <1>9, <1>10, PauseStays, PositionsAlone
<1>20. CASE order' = order
  <2>1. Quiet
    BY <1>9, <1>10, <1>18, <1>20, OrdersAlone DEF Quiet
  <2> QED BY <1>14, <1>18, <1>19, <2>1, QuietStep
<1>21. CASE tx[r].outcome = "ORDER" /\ order[d] = NoOrder /\ order' = [order EXCEPT ![d] = o]
  <2>1. order'[d] = o /\ \A k \in Keys \ {d} : order'[k] = order[k]
    BY <1>1, <1>12, <1>21 DEF TypeOK
  <2>2. OrdersKept(Keys \ {d})
    BY <2>1 DEF OrdersKept
  <2>3. OrdersKept(ClientKeys)
    BY <1>12, <2>1 DEF OrdersKept, Keys
  <2>4. Makes(r, d)
    BY <1>2, <1>4, <1>9, <1>10, <1>11, <1>18, <1>21, <2>1, <2>2 DEF Makes
  <2>5. NoneBefore' /\ OneOrderPerApproval'
    BY <1>18, <2>3, FitStays
  <2> QED BY <1>1, <1>10, <1>12, <1>14, <1>18, <1>19, <2>4, <2>5, MakeStep
<1> QED BY <1>5, <1>20, <1>21

\* One approval is settled, which nobody is approving, and nothing else changes.
LEMMA SettleStep ==
    ASSUME DecisionInv, NEW d \in Decisions, NEW v \in Versions, execution' \in [Decisions -> [Versions -> Execution]],
           \A x \in Decisions, y \in Versions : <<x, y>> # <<d, v>> => execution'[x][y] = execution[x][y],
           Settled(execution'[d][v]), ApprovalStep(execution[d][v].approval, execution'[d][v].approval),
           ApprovalFree(d, v),
           PlansKept, tx' \in [Processes -> Tx], racing' \subseteq Processes, PausesKept,
           UNCHANGED <<version, position, decision, order>>
    PROVE  DecisionInv'
<1>1. TypeOK
  BY DEF DecisionInv
<1>2. paused' = paused
  BY DEF PausesKept
<1>3. TypeOK'
  BY <1>1, <1>2 DEF TypeOK, Tx
<1>4. \A p \in Processes : tx'[p].step = "APPROVING" => <<tx[p].decision, tx[p].version>> # <<d, v>>
  BY DEF ApprovalFree, PlansKept
<1>5. SettledTogether' /\ LocksKept /\ ApprovalSteps
  BY <1>4, ExecutionWritten
<1>6. KindsSame
  BY DEF KindsSame
<1>7. Quiet
  BY <1>5, <1>6, OrdersAlone DEF Quiet
<1>8. PauseStopsEntries'
  BY <1>6, PauseStays
<1> QED BY <1>3, <1>5, <1>7, <1>8, QuietStep, PositionsAlone

\* Transactions that go on as they are.
LEMMA TxAlone ==
    ASSUME TypeOK, UNCHANGED <<tx, racing, paused>>
    PROVE  PlansKept /\ tx' \in [Processes -> Tx] /\ racing' \subseteq Processes /\ PausesKept
BY DEF PlansKept, TypeOK, Tx, PausesKept

\* approve finds the approval expired or out of date, or begins to make its order.
LEMMA ApproveStep ==
    ASSUME DecisionInv, NEW c \in Clients, NEW d \in Decisions, NEW v \in Versions, NEW k \in ClientKeys,
           approve(c, d, v, k)
    PROVE  DecisionInv'
<1>1. TypeOK /\ c \in Processes /\ SettledTogether
  BY DEF DecisionInv, Processes
<1>2. /\ tx[c] = Idle /\ ApprovalFree(d, v) /\ execution[d][v].approval = "PENDING"
      /\ UNCHANGED <<version, paused, position, decision, order>>
  BY DEF approve, Approvable
<1>3. execution[d][v] \in Execution /\ execution[d][v].state = "APPROVAL_PENDING"
  BY <1>1, <1>2 DEF TypeOK, SettledTogether
<1>4. CASE execution' = [execution EXCEPT ![d][v].approval = "EXPIRED"] /\ UNCHANGED <<tx, racing>>
  <2> DEFINE e == [execution[d][v] EXCEPT !.approval = "EXPIRED"]
  <2>1. e \in Execution /\ e.approval = "EXPIRED" /\ e.state = "APPROVAL_PENDING"
    BY <1>3 DEF Execution, ApprovalStates
  <2>2. execution' = [execution EXCEPT ![d][v] = e]
    BY <1>4
  <2> HIDE DEF e
  <2>3. /\ execution'[d][v] = e
        /\ \A x \in Decisions, y \in Versions : <<x, y>> # <<d, v>> => execution'[x][y] = execution[x][y]
        /\ e \in Execution => execution' \in [Decisions -> [Versions -> Execution]]
    BY <1>1, <2>2, SetExecution, Zenon
  <2>4. Settled(execution'[d][v]) /\ ApprovalStep(execution[d][v].approval, execution'[d][v].approval)
    BY <1>2, <2>1, <2>3 DEF Settled, ApprovalStep
  <2>5. PlansKept /\ tx' \in [Processes -> Tx] /\ racing' \subseteq Processes /\ PausesKept
    BY <1>1, <1>2, <1>4, TxAlone
  <2> QED BY <1>2, <2>1, <2>3, <2>4, <2>5, SettleStep
<1>5. CASE Settle(d, v, "INVALIDATED", "INVALIDATED") /\ UNCHANGED <<tx, racing>>
  <2>1. /\ execution' \in [Decisions -> [Versions -> Execution]]
        /\ execution'[d][v].approval = "INVALIDATED" /\ execution'[d][v].state = "INVALIDATED"
        /\ \A x \in Decisions, y \in Versions : <<x, y>> # <<d, v>> => execution'[x][y] = execution[x][y]
    BY <1>1, <1>5, SettleEffect DEF ApprovalStates, ExecutionStates
  <2>2. Settled(execution'[d][v]) /\ ApprovalStep(execution[d][v].approval, execution'[d][v].approval)
    BY <2>1 DEF Settled, ApprovalStep
  <2>3. PlansKept /\ tx' \in [Processes -> Tx] /\ racing' \subseteq Processes /\ PausesKept
    BY <1>1, <1>2, <1>5, TxAlone
  <2> QED BY <1>2, <2>1, <2>2, <2>3, SettleStep
<1>6. CASE /\ Sells(d) => PositionFree(SymbolOf(d))
           /\ _evaluate_approval(d, v)
           /\ Begin(c, [step |-> "APPROVING", decision |-> d, version |-> v, key |-> k, free |-> order[k] = NoOrder])
           /\ UNCHANGED execution
  <2> DEFINE t == [step |-> "APPROVING", decision |-> d, version |-> v, key |-> k, free |-> order[k] = NoOrder]
  <2>1. (order[k] = NoOrder) \in BOOLEAN
    OBVIOUS
  <2>2. t \in Approving /\ t.step = "APPROVING" /\ t.decision = d /\ t.version = v
    BY <2>1 DEF Approving
  <2>3. tx' = [tx EXCEPT ![c] = t] /\ racing' = racing
    BY <1>6 DEF Begin
  <2> HIDE DEF t
  <2>4. tx' \in [Processes -> Tx]
    BY <1>1, <2>2, <2>3, SetTx DEF Tx
  <2>5. TypeOK'
    BY <1>1, <1>2, <1>6, <2>3, <2>4 DEF TypeOK, Tx
  <2>6. Sells(d) => /\ PositionFree(SymbolOf(d)) /\ ~_has_active_symbol_order(SymbolOf(d))
                    /\ position[SymbolOf(d)].version = execution[d][v].position
                    /\ execution[d][v].quantity \in 1..position[SymbolOf(d)].managed
    BY <1>6 DEF _evaluate_approval, _sell_guard_rules
  <2>7. ~Sells(d) => ~paused /\ daily_entry_count < MaxEntries
    BY <1>6 DEF _evaluate_approval, _buy_guard_rules
  <2>8. Sells(d) => execution[d][v].quantity <= position[SymbolOf(d)].managed
    <3>1. position[SymbolOf(d)].managed \in Nat
      BY <1>1 DEF TypeOK, SymbolOf, Decision, Position
    <3> QED BY <2>6, <3>1
  <2>9. MayPlan(t)
    BY <1>2, <2>2, <2>6, <2>7, <2>8 DEF MayPlan
  <2>10. tx[c].step \notin {"ROUTED", "APPROVING"}
    BY <1>2 DEF Idle
  <2> QED BY <1>1, <1>2, <1>6, <2>3, <2>5, <2>9, <2>10, TakeStep
<1> QED BY <1>4, <1>5, <1>6 DEF approve

\* approve makes its order, or finds its key taken.
LEMMA ApproveCommitsStep ==
    ASSUME DecisionInv, NEW c \in Clients, approve_commits(c)
    PROVE  DecisionInv'
<1>1. TypeOK /\ c \in Processes
  BY DEF DecisionInv, Processes
<1>2. tx[c].step = "APPROVING" /\ UNCHANGED <<version, paused, position, decision>>
  BY DEF approve_commits
<1>3. tx[c].decision \in Decisions /\ tx[c].version \in Versions /\ tx[c].key \in ClientKeys
  BY <1>1, <1>2, PlanFields
<1>4. PICK d \in Decisions, v \in Versions, k \in ClientKeys :
          d = tx[c].decision /\ v = tx[c].version /\ k = tx[c].key
  BY <1>3
<1>5. execution[d][v].approval = "PENDING"
  BY <1>1, <1>2, <1>4 DEF DecisionInv, ApprovalLocks, Approves
<1>6. \A p \in Processes \ {c} : tx[p].step = "APPROVING" => <<tx[p].decision, tx[p].version>> # <<d, v>>
  <2>1. ASSUME NEW p \in Processes \ {c}, tx[p].step = "APPROVING", <<tx[p].decision, tx[p].version>> = <<d, v>>
        PROVE  FALSE
    <3>1. tx[p].decision = tx[c].decision /\ tx[p].version = tx[c].version
      BY <1>4, <2>1
    <3> QED BY <1>1, <1>2, <2>1, <3>1 DEF DecisionInv, ApprovalLocks, Approves
  <2> QED BY <2>1
<1>7. KindsSame /\ PositionsKept
  BY <1>2, PositionsAlone DEF KindsSame
<1>8. ASSUME tx'[c].step # "APPROVING", PlansKept
      PROVE  \A p \in Processes : tx'[p].step = "APPROVING" => <<tx[p].decision, tx[p].version>> # <<d, v>>
  BY <1>6, <1>8 DEF PlansKept
<1>9. CASE /\ order[k] = NoOrder
           /\ order' = [order EXCEPT ![k] = NewOrder(d, v, execution[d][v].quantity, execution[d][v].position)]
           /\ Settle(d, v, "APPROVED", "ORDER_CREATED") /\ End(c)
  <2> DEFINE o == NewOrder(d, v, execution[d][v].quantity, execution[d][v].position)
  <2>1. execution[d][v] \in Execution
    BY <1>1 DEF TypeOK
  <2>2. execution[d][v].quantity \in 0..Shares /\ execution[d][v].position \in 0..MaxPosition
    BY <2>1 DEF Execution
  <2>3. o \in Order /\ o.decision = d /\ o.version = v
    BY <2>2 DEF NewOrder, Order
  <2>4. order' = [order EXCEPT ![k] = o]
    BY <1>9
  <2> HIDE DEF o
  <2>5. k \in Keys /\ ClientKeys \subseteq Keys
    BY DEF Keys
  <2>6. order' \in [Keys -> Order \cup {NoOrder}] /\ order'[k] = o /\ \A j \in Keys \ {k} : order'[j] = order[j]
    BY <1>1, <2>3, <2>4, <2>5 DEF TypeOK
  <2>7. /\ execution' \in [Decisions -> [Versions -> Execution]]
        /\ execution'[d][v].approval = "APPROVED" /\ execution'[d][v].state = "ORDER_CREATED"
        /\ \A x \in Decisions, y \in Versions : <<x, y>> # <<d, v>> => execution'[x][y] = execution[x][y]
    BY <1>1, <1>9, SettleEffect DEF ApprovalStates, ExecutionStates
  <2>8. PlansKept /\ tx' \in [Processes -> Tx] /\ racing' \subseteq Processes /\ PausesKept /\ tx'[c] = Idle
    BY <1>1, <1>2, <1>9, EndEffect
  <2>9. TypeOK'
    BY <1>1, <1>2, <2>6, <2>7, <2>8 DEF TypeOK, Tx
  <2>10. Settled(execution'[d][v])
    BY <2>7 DEF Settled
  <2>11. tx'[c].step # "APPROVING"
    BY <2>8 DEF Idle
  <2>12. SettledTogether' /\ LocksKept
    BY <1>8, <2>7, <2>8, <2>10, <2>11, ExecutionWritten
  <2>13. OrdersKept(Keys \ {k})
    BY <2>6 DEF OrdersKept
  <2>14. Makes(c, k)
    BY <1>2, <1>4, <1>7, <1>9, <2>3, <2>6, <2>8, <2>12, <2>13 DEF Makes
  <2>15. NoneBefore' /\ OneOrderPerApproval'
    <3>1. \A x \in Decisions, y \in Versions : Fit(execution[x][y].approval, MadeFor(x, y))
      BY FitDef DEF DecisionInv
    <3>2. MadeFor(d, v) = {}
      BY <1>5, <3>1 DEF Fit
    <3>3. o # NoOrder
      BY <2>3, OrderIsSome
    <3>4. MadeFor(d, v)' = {k}
      <4>1. \A j \in ClientKeys \ {k} : j \notin MadeFor(d, v)'
        BY <2>5, <2>6, <3>2 DEF MadeFor, Orders
      <4>2. k \in MadeFor(d, v)'
        BY <2>3, <2>5, <2>6, <3>3 DEF MadeFor, Orders
      <4>3. MadeFor(d, v)' \subseteq ClientKeys
        BY DEF MadeFor
      <4> QED BY <4>1, <4>2, <4>3
    <3>5. ASSUME NEW x \in Decisions, NEW y \in Versions, <<x, y>> # <<d, v>> PROVE MadeFor(x, y)' = MadeFor(x, y)
      <4>1. k \notin MadeFor(x, y)' /\ k \notin MadeFor(x, y)
        BY <1>9, <2>3, <2>6, <3>5 DEF MadeFor, Orders
      <4>2. \A j \in ClientKeys \ {k} : j \in MadeFor(x, y)' <=> j \in MadeFor(x, y)
        BY <2>5, <2>6 DEF MadeFor, Orders
      <4>3. MadeFor(x, y)' \subseteq ClientKeys /\ MadeFor(x, y) \subseteq ClientKeys
        BY DEF MadeFor
      <4> QED BY <4>1, <4>2, <4>3
    <3>6. ASSUME NEW x \in Decisions, NEW y \in Versions PROVE Fit(execution[x][y].approval, MadeFor(x, y))'
      <4>1. CASE <<x, y>> = <<d, v>>
        <5>1. x = d /\ y = v
          BY <4>1
        <5>2. Fit("APPROVED", {k})
          BY DEF Fit
        <5>3. execution'[x][y].approval = "APPROVED" /\ MadeFor(x, y)' = {k}
          BY <2>7, <3>4, <5>1
        <5> QED BY <5>2, <5>3 DEF Fit
      <4>2. CASE <<x, y>> # <<d, v>>
        <5>1. execution'[x][y].approval = execution[x][y].approval /\ MadeFor(x, y)' = MadeFor(x, y)
          BY <2>7, <3>5, <4>2
        <5>2. Fit(execution[x][y].approval, MadeFor(x, y))
          BY <3>1
        <5> QED BY <5>1, <5>2 DEF Fit
      <4> QED BY <4>1, <4>2
    <3> QED BY <3>6 DEF NoneBefore, OneOrderPerApproval, Fit
  <2> QED BY <1>1, <1>7, <2>5, <2>8, <2>9, <2>12, <2>14, <2>15, MakeStep
<1>10. CASE Settle(d, v, "INVALIDATED", "FAILED_SAFE") /\ End(c) /\ order' = order
  <2>1. /\ execution' \in [Decisions -> [Versions -> Execution]]
        /\ execution'[d][v].approval = "INVALIDATED" /\ execution'[d][v].state = "FAILED_SAFE"
        /\ \A x \in Decisions, y \in Versions : <<x, y>> # <<d, v>> => execution'[x][y] = execution[x][y]
    BY <1>1, <1>10, SettleEffect DEF ApprovalStates, ExecutionStates
  <2>2. PlansKept /\ tx' \in [Processes -> Tx] /\ racing' \subseteq Processes /\ PausesKept /\ tx'[c] = Idle
    BY <1>1, <1>2, <1>10, EndEffect
  <2>3. TypeOK'
    BY <1>1, <1>2, <1>10, <2>1, <2>2 DEF TypeOK, Tx
  <2>4. Settled(execution'[d][v]) /\ ApprovalStep(execution[d][v].approval, execution'[d][v].approval)
    BY <2>1 DEF Settled, ApprovalStep
  <2>5. tx'[c].step # "APPROVING"
    BY <2>2 DEF Idle
  <2>6. SettledTogether' /\ LocksKept /\ ApprovalSteps
    BY <1>8, <2>1, <2>2, <2>4, <2>5, ExecutionWritten
  <2>7. Quiet
    BY <1>7, <1>10, <2>2, <2>6, OrdersAlone DEF Quiet
  <2>8. PauseStopsEntries'
    BY <1>7, <2>2, PauseStays
  <2> QED BY <1>7, <2>3, <2>6, <2>7, <2>8, QuietStep
<1>11. CASE /\ tx' = [tx EXCEPT ![c] = [step |-> "RACED", decision |-> d, version |-> v]]
            /\ racing' = racing \ {c} /\ UNCHANGED <<execution, order>>
  <2> DEFINE t == [step |-> "RACED", decision |-> d, version |-> v]
  <2>1. t \in Raced /\ t.step = "RACED"
    BY DEF Raced
  <2> HIDE DEF t
  <2>2. tx' = [tx EXCEPT ![c] = t]
    BY <1>11 DEF t
  <2>3. tx' \in [Processes -> Tx] /\ tx'[c] = t
    BY <1>1, <2>1, <2>2, SetTx DEF Tx
  <2>4. PlansKept
    BY <1>1, <2>1, <2>2, TxEnds
  <2>5. TypeOK'
    BY <1>1, <1>2, <1>11, <2>3 DEF TypeOK, Tx
  <2>6. PausesKept
    BY <1>2, <1>11, <2>1, <2>3 DEF PausesKept
  <2>7. SettledTogether' /\ LocksKept /\ ApprovalSteps
    BY <1>11, ExecutionsAlone
  <2>8. Quiet
    BY <1>7, <1>11, <2>4, <2>7, OrdersAlone DEF Quiet
  <2>9. PauseStopsEntries'
    BY <1>7, <2>4, <2>6, PauseStays
  <2> QED BY <1>7, <2>5, <2>7, <2>8, <2>9, QuietStep
<1> QED BY <1>4, <1>9, <1>10, <1>11 DEF approve_commits

\* approve reacts to the rollback of its order, and reject.
LEMMA RacedAndRejectStep ==
    ASSUME DecisionInv,
           \/ \E c \in Clients : approve_raced(c)
           \/ \E d \in Decisions, v \in Versions : reject(d, v)
    PROVE  DecisionInv'
<1>1. TypeOK
  BY DEF DecisionInv
<1>2. ASSUME NEW c \in Clients, approve_raced(c) PROVE DecisionInv'
  <2>1. /\ c \in Processes /\ tx[c].step = "RACED" /\ End(c)
        /\ UNCHANGED <<version, paused, position, decision, order>>
    BY <1>2 DEF approve_raced, Processes
  <2>2. tx[c].decision \in Decisions /\ tx[c].version \in Versions
    BY <1>1, <2>1, PlanFields
  <2>3. PICK d \in Decisions, v \in Versions : d = tx[c].decision /\ v = tx[c].version
    BY <2>2
  <2>4. ApprovalFree(d, v) /\ Settle(d, v, "INVALIDATED", "FAILED_SAFE")
    BY <1>2, <2>3 DEF approve_raced
  <2>5. /\ execution' \in [Decisions -> [Versions -> Execution]]
        /\ execution'[d][v].approval = "INVALIDATED" /\ execution'[d][v].state = "FAILED_SAFE"
        /\ \A x \in Decisions, y \in Versions : <<x, y>> # <<d, v>> => execution'[x][y] = execution[x][y]
    BY <1>1, <2>4, SettleEffect, SMTT(40) DEF ApprovalStates, ExecutionStates
  <2>6. PlansKept /\ tx' \in [Processes -> Tx] /\ racing' \subseteq Processes /\ PausesKept
    BY <1>1, <2>1, EndEffect
  <2>7. Settled(execution'[d][v]) /\ ApprovalStep(execution[d][v].approval, execution'[d][v].approval)
    BY <2>5 DEF Settled, ApprovalStep
  <2> QED BY <2>1, <2>4, <2>5, <2>6, <2>7, SettleStep
<1>3. ASSUME NEW d \in Decisions, NEW v \in Versions, reject(d, v) PROVE DecisionInv'
  <2>1. /\ ApprovalFree(d, v) /\ execution[d][v].approval = "PENDING" /\ Settle(d, v, "REJECTED", "REJECTED")
        /\ UNCHANGED <<version, paused, position, decision, order, tx, racing>>
    BY <1>3 DEF reject
  <2>2. /\ execution' \in [Decisions -> [Versions -> Execution]]
        /\ execution'[d][v].approval = "REJECTED" /\ execution'[d][v].state = "REJECTED"
        /\ \A x \in Decisions, y \in Versions : <<x, y>> # <<d, v>> => execution'[x][y] = execution[x][y]
    BY <1>1, <2>1, SettleEffect DEF ApprovalStates, ExecutionStates
  <2>3. PlansKept /\ tx' \in [Processes -> Tx] /\ racing' \subseteq Processes /\ PausesKept
    BY <1>1, <2>1, TxAlone
  <2>4. Settled(execution'[d][v]) /\ ApprovalStep(execution[d][v].approval, execution'[d][v].approval)
    BY <2>1, <2>2 DEF Settled, ApprovalStep
  <2> QED BY <2>1, <2>2, <2>3, <2>4, SettleStep
<1> QED BY <1>2, <1>3

\* All stale approvals expire together; none is being approved.
LEMMA ExpireStaleStep ==
    ASSUME DecisionInv, expire_stale
    PROVE  DecisionInv'
<1>1. TypeOK /\ \A d \in Decisions, v \in Versions : Settled(execution[d][v])
  BY SettledDef DEF DecisionInv
<1>2. UNCHANGED <<version, paused, position, decision, order, tx, racing>>
  BY DEF expire_stale
<1>3. ASSUME NEW d \in Decisions, NEW v \in Versions
      PROVE  \/ execution'[d][v] = execution[d][v]
             \/ /\ execution'[d][v] \in Execution /\ ApprovalFree(d, v)
                /\ execution[d][v].approval = "PENDING"
                /\ execution'[d][v].approval = "EXPIRED" /\ execution'[d][v].state = "EXPIRED"
  <2>1. CASE ~Stale(d, v)
    BY <2>1 DEF expire_stale
  <2>2. CASE Stale(d, v)
    <3> DEFINE e == [execution[d][v] EXCEPT !.approval = "EXPIRED",
                         !.state = IF execution[d][v].state = "APPROVAL_PENDING" THEN "EXPIRED" ELSE execution[d][v].state]
    <3>1. execution'[d][v] = e
      BY <2>2 DEF expire_stale
    <3>2. execution[d][v] \in Execution /\ execution[d][v].approval = "PENDING"
          /\ execution[d][v].state = "APPROVAL_PENDING" /\ ApprovalFree(d, v)
      BY <1>1, <2>2, ZenonT(60) DEF Stale, TypeOK, Settled, expire_stale
    <3>3. e \in Execution /\ e.approval = "EXPIRED" /\ e.state = "EXPIRED"
      BY <3>2 DEF Execution, ApprovalStates, ExecutionStates
    <3> HIDE DEF e
    <3> QED BY <3>1, <3>2, <3>3
  <2> QED BY <2>1, <2>2
<1>4. ASSUME NEW d \in Decisions, NEW v \in Versions
      PROVE  /\ execution'[d][v] \in Execution /\ Settled(execution'[d][v])
             /\ ApprovalStep(execution[d][v].approval, execution'[d][v].approval)
  <2>1. CASE execution'[d][v] = execution[d][v]
    <3>1. execution[d][v] \in Execution
      BY <1>1 DEF TypeOK
    <3> QED BY <1>1, <2>1, <3>1 DEF ApprovalStep
  <2>2. CASE execution'[d][v] # execution[d][v]
    BY <1>3, <2>2 DEF Settled, ApprovalStep
  <2> QED BY <2>1, <2>2
<1>5. execution' \in [Decisions -> [Versions -> Execution]]
  <2>1. DOMAIN execution' = Decisions /\ execution' = [d \in Decisions |-> execution'[d]]
    BY DEF expire_stale
  <2>2. ASSUME NEW d \in Decisions PROVE execution'[d] \in [Versions -> Execution]
    <3>1. execution'[d] = [v \in Versions |-> execution'[d][v]]
      BY DEF expire_stale
    <3> QED BY <1>4, <3>1
  <2> QED BY <2>1, <2>2
<1>6. PlansKept /\ tx' \in [Processes -> Tx] /\ racing' \subseteq Processes /\ PausesKept
  BY <1>1, <1>2, TxAlone
<1>7. TypeOK'
  BY <1>1, <1>2, <1>5 DEF TypeOK
<1>8. SettledTogether'
  BY <1>4 DEF SettledTogether, Settled
<1>9. LocksKept
  <2>1. ASSUME NEW p \in Processes, tx[p].step = "APPROVING"
        PROVE  execution'[tx[p].decision][tx[p].version] = execution[tx[p].decision][tx[p].version]
    <3>1. tx[p].decision \in Decisions /\ tx[p].version \in Versions
      BY <1>1, <2>1, PlanFields
    <3>2. ~ApprovalFree(tx[p].decision, tx[p].version)
      BY <2>1 DEF ApprovalFree
    <3> QED BY <1>3, <3>1, <3>2
  <2> QED BY <1>2, <2>1 DEF LocksKept
<1>10. ApprovalSteps
  BY <1>4 DEF ApprovalSteps
<1>11. KindsSame
  BY <1>2 DEF KindsSame
<1>12. Quiet
  BY <1>2, <1>6, <1>9, <1>10, <1>11, OrdersAlone DEF Quiet
<1>13. PauseStopsEntries'
  BY <1>6, <1>11, PauseStays
<1> QED BY <1>2, <1>7, <1>8, <1>12, <1>13, QuietStep, PositionsAlone

\* The pause begins with the entries that are under way.
LEMMA PauseStep ==
    ASSUME DecisionInv, activate_pause_entry \/ release_pause_entry \/ ActivatePolicy
    PROVE  DecisionInv'
<1>1. TypeOK /\ PauseStopsEntries
  BY DEF DecisionInv
<1>2. UNCHANGED <<position, decision, execution, order, tx>>
  BY DEF activate_pause_entry, release_pause_entry, ActivatePolicy
<1>3. \/ paused' = TRUE /\ racing' = UnderWay /\ version' = version
      \/ paused' = FALSE /\ racing' = {} /\ version' = version
      \/ paused' = paused /\ racing' = racing /\ version < MaxVersion /\ version' = version + 1
  BY DEF activate_pause_entry, release_pause_entry, ActivatePolicy, UnderWay
<1>4. paused' \in BOOLEAN /\ racing' \subseteq Processes /\ version' \in Versions
  <2>1. paused \in BOOLEAN /\ racing \subseteq Processes /\ version \in Versions /\ UnderWay \subseteq Processes
    BY <1>1 DEF TypeOK, UnderWay
  <2>2. version' \in Versions
    BY <1>3, <2>1 DEF Versions
  <2>3. paused' \in BOOLEAN
    BY <1>3, <2>1
  <2>4. racing' \subseteq Processes
    BY <1>3, <2>1
  <2> QED BY <2>2, <2>3, <2>4
<1>5. TypeOK'
  BY <1>1, <1>2, <1>4 DEF TypeOK
<1>6. PauseStopsEntries'
  BY <1>1, <1>2, <1>3 DEF PauseStopsEntries, UnderWay, EntryUnderWay, Sells
<1>7. SettledTogether' /\ LocksKept /\ ApprovalSteps
  BY <1>2, ExecutionsAlone
<1>8. PlansKept /\ KindsSame
  BY <1>2 DEF PlansKept, KindsSame
<1>9. Quiet
  BY <1>2, <1>7, <1>8, OrdersAlone DEF Quiet
<1> QED BY <1>2, <1>5, <1>6, <1>7, <1>9, QuietStep, PositionsAlone

\* A reconciliation ends orders and writes a position that nobody has locked.
LEMMA ProjectStep ==
    ASSUME DecisionInv, NEW s \in Symbols, NEW ended \in SUBSET Keys, NEW managed \in 0..Shares,
           _project_positions(s, ended, managed)
    PROVE  DecisionInv'
<1>1. TypeOK
  BY DEF DecisionInv
<1>2. /\ PositionFree(s) /\ position[s].version < MaxPosition
      /\ ended \subseteq Orders
      /\ order' = [k \in Keys |-> IF k \in ended THEN [order[k] EXCEPT !.status = "DONE"] ELSE order[k]]
      /\ position' = [position EXCEPT ![s] = [managed |-> managed, version |-> position[s].version + 1]]
      /\ UNCHANGED <<version, paused, decision, execution, tx, racing>>
  BY DEF _project_positions
<1>3. ASSUME NEW k \in ended
      PROVE  /\ order[k] \in Order /\ order'[k] \in Order /\ order'[k].status = "DONE"
             /\ order'[k].decision = order[k].decision /\ order'[k].version = order[k].version
  <2>1. k \in Keys /\ order[k] \in Order
    BY <1>1, <1>2, OrderFields
  <2>2. order'[k] = [order[k] EXCEPT !.status = "DONE"]
    BY <1>2, <2>1
  <2> QED BY <2>1, <2>2 DEF Order
<1>4. \A k \in Keys : k \notin ended => order'[k] = order[k]
  BY <1>2
<1>5. OrdersKept(Keys)
  BY <1>3, <1>4 DEF OrdersKept
<1>6. order' \in [Keys -> Order \cup {NoOrder}]
  <2>1. order' = [k \in Keys |-> order'[k]]
    BY <1>2
  <2>2. \A k \in Keys : order'[k] \in Order \cup {NoOrder}
    BY <1>1, <1>3, <1>4 DEF TypeOK
  <2> QED BY <2>1, <2>2
<1>7. position' \in [Symbols -> Position] /\ \A x \in Symbols \ {s} : position'[x] = position[x]
  <2>1. position \in [Symbols -> Position] /\ position[s].version \in 1..MaxPosition
    BY <1>1 DEF TypeOK, Position
  <2>2. position[s].version + 1 \in 1..MaxPosition
    BY <1>2, <2>1
  <2>3. [managed |-> managed, version |-> position[s].version + 1] \in Position
    BY <2>2 DEF Position
  <2> QED BY <1>2, <2>1, <2>3
<1>8. PlansKept /\ tx' \in [Processes -> Tx] /\ racing' \subseteq Processes /\ PausesKept
  BY <1>1, <1>2, TxAlone
<1>9. TypeOK'
  BY <1>1, <1>2, <1>6, <1>7 DEF TypeOK
<1>10. SettledTogether' /\ LocksKept /\ ApprovalSteps
  BY <1>2, ExecutionsAlone
<1>11. KindsSame
  BY <1>2 DEF KindsSame
<1>12. Quiet
  BY <1>5, <1>8, <1>10, <1>11 DEF Quiet
<1>13. PauseStopsEntries'
  BY <1>8, <1>11, PauseStays
<1>14. PositionsKept
  <2>1. ASSUME NEW p \in Processes, tx[p].step \in {"ROUTED", "APPROVING"}, Sells(tx[p].decision)
        PROVE  position'[SymbolOf(tx[p].decision)] = position[SymbolOf(tx[p].decision)]
    <3>1. SymbolOf(tx[p].decision) # s
      BY <1>2, <2>1 DEF PositionFree
    <3>2. tx[p].decision \in Decisions
      BY <1>1, <2>1, PlanFields
    <3>3. SymbolOf(tx[p].decision) \in Symbols
      BY <1>1, <3>2 DEF TypeOK, Decision, SymbolOf
    <3> QED BY <1>7, <3>1, <3>3
  <2> QED BY <1>2, <2>1 DEF PositionsKept
<1> QED BY <1>9, <1>10, <1>12, <1>13, <1>14, QuietStep

\* The validity of a decision ends.
LEMMA ExpireStep ==
    ASSUME DecisionInv, NEW d \in Decisions, Expire(d)
    PROVE  DecisionInv'
<1>1. TypeOK
  BY DEF DecisionInv
<1>2. decision' = [decision EXCEPT ![d].life = "EXPIRED"] /\ UNCHANGED <<version, paused, position, execution, order, tx, racing>>
  BY DEF Expire
<1>3. decision[d] \in Decision
  BY <1>1 DEF TypeOK
<1>4. /\ [decision[d] EXCEPT !.life = "EXPIRED"] \in Decision
      /\ [decision[d] EXCEPT !.life = "EXPIRED"].action = decision[d].action
      /\ [decision[d] EXCEPT !.life = "EXPIRED"].symbol = decision[d].symbol
  BY <1>3 DEF Decision
<1>5. KindsSame /\ decision' \in [Decisions -> Decision]
  BY <1>1, <1>2, <1>4 DEF KindsSame, TypeOK
<1>6. TypeOK'
  BY <1>1, <1>2, <1>5 DEF TypeOK
<1>7. PlansKept /\ tx' \in [Processes -> Tx] /\ racing' \subseteq Processes /\ PausesKept
  BY <1>1, <1>2, TxAlone
<1>8. SettledTogether' /\ LocksKept /\ ApprovalSteps
  BY <1>2, ExecutionsAlone
<1>9. Quiet
  BY <1>2, <1>5, <1>7, <1>8, OrdersAlone DEF Quiet
<1>10. PauseStopsEntries'
  BY <1>5, <1>7, PauseStays
<1> QED BY <1>2, <1>6, <1>8, <1>9, <1>10, QuietStep, PositionsAlone

-----------------------------------------------------------------------------
(***************************************************************************)
(* The theorems.                                                           *)
(***************************************************************************)

\* The invariant holds at the start.
LEMMA InitEstablishesDecisionInv ==
    ASSUME Init
    PROVE  DecisionInv
<1>1. /\ version = 1 /\ paused = FALSE /\ racing = {}
      /\ position = [s \in Symbols |-> [managed |-> Shares, version |-> 1]]
      /\ decision \in [Decisions -> [life : {"ABSENT"}, action : Actions, symbol : Symbols]]
      /\ execution = [d \in Decisions |-> [v \in Versions |-> NoExecution]]
      /\ order = [k \in Keys |-> NoOrder]
      /\ tx = [p \in Processes |-> Idle]
  BY DEF Init
<1>2. TypeOK
  <2>1. version \in Versions
    BY <1>1 DEF Versions
  <2>2. [managed |-> Shares, version |-> 1] \in Position
    BY DEF Position
  <2>3. position \in [Symbols -> Position]
    BY <1>1, <2>2
  <2>4. decision \in [Decisions -> Decision]
    <3>1. [life : {"ABSENT"}, action : Actions, symbol : Symbols] \subseteq Decision
      BY DEF Decision
    <3> QED BY <1>1, <3>1
  <2>5. NoExecution \in Execution
    BY DEF NoExecution, Execution, ExecutionStates, ApprovalStates
  <2>6. execution \in [Decisions -> [Versions -> Execution]]
    BY <1>1, <2>5
  <2>7. order \in [Keys -> Order \cup {NoOrder}] /\ tx \in [Processes -> Tx]
    BY <1>1 DEF Tx
  <2> QED BY <1>1, <2>1, <2>3, <2>4, <2>6, <2>7 DEF TypeOK, Tx
<1>3. \A d \in Decisions, v \in Versions : execution[d][v].approval = "ABSENT" /\ execution[d][v].state = "ABSENT"
  BY <1>1 DEF NoExecution
<1>4. Orders = {}
  BY <1>1 DEF Orders
<1>5. \A p \in Processes : tx[p].step = "IDLE"
  BY <1>1 DEF Idle
<1>6. SettledTogether
  BY <1>3 DEF SettledTogether
<1>7. ApprovalLocks /\ SellLocks /\ SalesFit /\ PauseStopsEntries
  BY <1>5 DEF ApprovalLocks, Approves, SellLocks, SellsNow, Plans, SalesFit, PauseStopsEntries, EntryUnderWay
<1>8. NoneBefore /\ OneOrderPerApproval /\ OneActiveSell
  BY <1>3, <1>4 DEF NoneBefore, OneOrderPerApproval, OneActiveSell, MadeFor
<1>9. EntriesFit
  <2>1. Entries = {} /\ UnderWay = {}
    BY <1>4, <1>5 DEF Entries, UnderWay, EntryUnderWay
  <2>2. IsFiniteSet({}) /\ Cardinality({}) = 0
    BY FS_EmptySet
  <2>3. Cardinality(Processes) \in Nat /\ Cardinality(Processes) # 0
    BY FS_EmptySet, FS_CardinalityType
  <2>4. IsFiniteSet(Entries) /\ Cardinality(Entries) = 0 /\ Cardinality(UnderWay) = 0
    BY <2>1, <2>2, Zenon
  <2> QED BY <2>3, <2>4 DEF EntriesFit
<1> QED BY <1>2, <1>6, <1>7, <1>8, <1>9 DEF DecisionInv

\* Every step keeps the invariant.
LEMMA DecisionStep ==
    ASSUME DecisionInv, [Next]_vars
    PROVE  DecisionInv'
<1>1. CASE UNCHANGED vars
  <2>1. TypeOK'
    BY <1>1 DEF vars, DecisionInv, TypeOK
  <2>2. SettledTogether' /\ ApprovalLocks'
    BY <1>1 DEF vars, DecisionInv, SettledTogether, ApprovalLocks, Approves
  <2>3. NoneBefore' /\ OneOrderPerApproval'
    BY <1>1 DEF vars, DecisionInv, NoneBefore, OneOrderPerApproval, Orders, MadeFor
  <2>4. SellLocks'
    BY <1>1 DEF vars, DecisionInv, SellLocks, SellsNow, Plans, Sells, SymbolOf, Orders
  <2>5. SalesFit'
    BY <1>1 DEF vars, DecisionInv, SalesFit, Approves, Sells, SymbolOf
  <2>6. OneActiveSell'
    BY <1>1 DEF vars, DecisionInv, OneActiveSell, Sells, SymbolOf, Orders
  <2>7. PauseStopsEntries'
    BY <1>1 DEF vars, DecisionInv, PauseStopsEntries, EntryUnderWay, Sells
  <2>8. EntriesFit'
    BY <1>1 DEF vars, DecisionInv, EntriesFit, Entries, UnderWay, EntryUnderWay, Orders, Sells
  <2> QED BY <2>1, <2>2, <2>3, <2>4, <2>5, <2>6, <2>7, <2>8 DEF DecisionInv
<1>2. ASSUME NEW r \in Routers, RouterStep(r) PROVE DecisionInv'
  BY <1>2, TickStep, RouteStep, RouteEndsStep, RouteCommitsStep DEF RouterStep
<1>3. ASSUME NEW c \in Clients, ClientStep(c) PROVE DecisionInv'
  BY <1>3, ApproveStep, ApproveCommitsStep, RacedAndRejectStep DEF ClientStep
<1> QED BY <1>1, <1>2, <1>3, AbortStep, RacedAndRejectStep, ExpireStaleStep, PauseStep, ProjectStep, ExpireStep, Zenon
        DEF Next

\* The inductive invariant is an invariant.
LEMMA DecisionInvariant == Spec => []DecisionInv
<1>1. Init => DecisionInv
  BY InitEstablishesDecisionInv
<1>2. DecisionInv /\ [Next]_vars => DecisionInv'
  BY DecisionStep
<1> QED BY <1>1, <1>2, PTL DEF Spec

\* Type correctness: executions, orders and the open transactions are always
\* records of their kind.
THEOREM DecisionTypeCorrect == Spec => []TypeOK
<1>1. DecisionInv => TypeOK
  BY DEF DecisionInv
<1> QED BY <1>1, DecisionInvariant, PTL

\* An approval makes at most one order, APPROVED has one, and an approval that
\* is pending, rejected or expired has none (approve, create_order).
THEOREM ApprovalsMakeOneOrder == Spec => []OneOrderPerApproval
<1>1. DecisionInv => OneOrderPerApproval
  BY DEF DecisionInv
<1> QED BY <1>1, DecisionInvariant, PTL

\* approve, reject and expire_stale settle the execution with its approval.
THEOREM SettledAlways == Spec => []SettledTogether
<1>1. DecisionInv => SettledTogether
  BY DEF DecisionInv
<1> QED BY <1>1, DecisionInvariant, PTL

\* No two sales of a symbol are on their way: the position is locked from the
\* guard to the commit (route_trading_decision, approve).
THEOREM SalesAreExclusive == Spec => []OneActiveSell
<1>1. DecisionInv => OneActiveSell
  BY DEF DecisionInv
<1> QED BY <1>1, DecisionInvariant, PTL

\* Requests that race exceed the daily limit by fewer entries than there are
\* processes, however many decisions there are (_buy_guard_rules).
THEOREM EntriesStayBounded == Spec => []EntriesAreBounded
<1>1. DecisionInv => EntriesAreBounded
  <2> SUFFICES ASSUME DecisionInv PROVE EntriesAreBounded
    OBVIOUS
  <2>1. EntriesFit
    BY DEF DecisionInv
  <2>2. Cardinality(Entries) \in Nat /\ daily_entry_count = Cardinality(Entries)
    BY <2>1, FS_CardinalityType DEF EntriesFit, daily_entry_count, Entries
  <2> QED BY <2>1, <2>2, UnderWayFinite DEF EntriesFit, EntriesAreBounded
<1> QED BY <1>1, DecisionInvariant, PTL

\* While entries are paused only those that passed the guard before can still
\* be made (activate_pause_entry).
THEOREM PauseHolds == Spec => []PauseStopsEntries
<1>1. DecisionInv => PauseStopsEntries
  BY DEF DecisionInv
<1> QED BY <1>1, DecisionInvariant, PTL

\* A sale that was approved is made of the position the user saw and of shares
\* that are still managed (_evaluate_approval under the lock of the position).
THEOREM ApprovedSalesAreCovered == Spec => ApprovedSellIsCovered
<1> DEFINE Kept == \A k \in ClientKeys :
               Created(k) /\ Sells(order'[k].decision) =>
                   /\ Covered(k)
                   /\ order'[k].position = position[SymbolOf(order'[k].decision)].version
<1>1. DecisionInv /\ [Next]_vars => [Kept]_vars
  <2> SUFFICES ASSUME DecisionInv, Next, NEW k \in ClientKeys, Created(k), Sells(order'[k].decision)
               PROVE  Covered(k) /\ order'[k].position = position[SymbolOf(order'[k].decision)].version
    OBVIOUS
  <2>1. TypeOK /\ SalesFit /\ k \in Keys /\ k \notin Decisions
    BY DEF DecisionInv, Keys
  <2>2. ASSUME OrdersKept({k}) PROVE FALSE
    BY <2>1, <2>2, OrdersKeptFields DEF Created
  <2>3. ASSUME order' = order PROVE FALSE
    BY <2>3 DEF Created
  <2>4. ASSUME NEW r \in Routers, RouterStep(r) PROVE FALSE
    <3>1. order' = order \/ \E o : order' = [order EXCEPT ![tx[r].decision] = o] /\ tx[r].step = "ROUTED"
      BY <2>4 DEF RouterStep, run_analysis_tick, route_trading_decision, route_ends, route_commits,
                  create_approval, _create_automatic_order
    <3>2. r \in Processes
      BY DEF Processes
    <3>3. ASSUME NEW o, order' = [order EXCEPT ![tx[r].decision] = o], tx[r].step = "ROUTED" PROVE order'[k] = order[k]
      <4>1. tx[r].decision \in Decisions
        BY <2>1, <3>2, <3>3, PlanFields
      <4>2. tx[r].decision # k
        BY <2>1, <4>1
      <4> QED BY <2>1, <3>3, <4>2 DEF TypeOK
    <3> QED BY <2>3, <3>1, <3>3 DEF Created
  <2>5. ASSUME NEW c \in Clients, approve_commits(c), order' # order
        PROVE  Covered(k) /\ order'[k].position = position[SymbolOf(order'[k].decision)].version
    <3>1. c \in Processes /\ tx[c].step = "APPROVING"
      BY <2>5 DEF approve_commits, Processes
    <3>2. tx[c].decision \in Decisions /\ tx[c].version \in Versions /\ tx[c].key \in ClientKeys
      BY <2>1, <3>1, PlanFields
    <3>3. PICK d \in Decisions, v \in Versions, j \in ClientKeys :
              d = tx[c].decision /\ v = tx[c].version /\ j = tx[c].key
      BY <3>2
    <3>4. order' = [order EXCEPT ![j] = NewOrder(d, v, execution[d][v].quantity, execution[d][v].position)]
      BY <2>5, <3>3 DEF approve_commits
    <3>5. j = k
      BY <2>1, <3>4 DEF Created, TypeOK
    <3>6. order'[k] = NewOrder(d, v, execution[d][v].quantity, execution[d][v].position)
      BY <2>1, <3>4, <3>5 DEF TypeOK
    <3>7. order'[k].decision = d /\ order'[k].quantity = execution[d][v].quantity
          /\ order'[k].position = execution[d][v].position
      BY <3>6 DEF NewOrder
    <3>8. Sells(d)
      BY <3>7
    <3>9. /\ position[SymbolOf(d)].version = execution[d][v].position
          /\ execution[d][v].quantity <= position[SymbolOf(d)].managed
      BY <2>1, <3>1, <3>3, <3>8 DEF SalesFit, Approves
    <3> QED BY <3>7, <3>9 DEF Covered
  <2>6. ASSUME NEW c \in Clients, ClientStep(c), ~approve_commits(c) PROVE order' = order
    BY <2>6 DEF ClientStep, approve, approve_raced
  <2>7. ASSUME NEW s \in Symbols, NEW ended \in SUBSET Keys, NEW managed \in 0..Shares,
               _project_positions(s, ended, managed)
        PROVE  FALSE
    <3>1. order'[k] = order[k] \/ (k \in Orders)
      BY <2>1, <2>7 DEF _project_positions
    <3> QED BY <3>1 DEF Created, Orders
  <2>8. ASSUME \/ \E p \in Processes : Abort(p)
               \/ \E d \in Decisions, v \in Versions : reject(d, v)
               \/ expire_stale \/ activate_pause_entry \/ release_pause_entry \/ ActivatePolicy
               \/ \E d \in Decisions : Expire(d)
        PROVE  order' = order
    BY <2>8 DEF Abort, reject, expire_stale, activate_pause_entry, release_pause_entry, ActivatePolicy, Expire
  <2> QED BY <2>3, <2>4, <2>5, <2>6, <2>7, <2>8, Zenon DEF Next
<1> QED BY <1>1, DecisionInvariant, PTL DEF Spec, ApprovedSellIsCovered

=============================================================================
