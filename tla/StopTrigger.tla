---------------------------- MODULE StopTrigger ----------------------------
(***************************************************************************)
(* The fixed stop-loss triggers of stop_trigger.py, as the broker worker   *)
(* runs them every ten seconds: one transaction that evaluates every open  *)
(* position, then one that evaluates the pending exits again.              *)
(*                                                                         *)
(* stop_trigger.py looks for the active risk policy of the account alias,  *)
(* but policies belong to users, so the policy id of a trigger is always   *)
(* NULL and the unique constraint on it never refuses a row.  A trigger    *)
(* row carries no policy here.                                             *)
(*                                                                         *)
(* The database matters.  PostgreSQL checks the foreign key and the length *)
(* of columns that the rows written here do not respect.  SQLite, the      *)
(* default of the settings, checks neither; there a session that has       *)
(* written a row is the only writer until it commits, and what it read     *)
(* before may be stale.                                                    *)
(***************************************************************************)
EXTENDS Naturals, FiniteSets

CONSTANTS
    Positions,     \* position rows, one per symbol
    Evaluators,    \* worker processes that evaluate triggers
    AutoSell,      \* settings.execution_stage \in FIXED_STOP_AUTO_SELL_STAGES
    Shares,        \* bound on managed_quantity
    MaxVersion,    \* bound on the version of a position
    MaxTriggers    \* bound on the trigger rows

ASSUME StopAssumption ==
    /\ AutoSell \in BOOLEAN
    /\ Shares \in Nat \ {0}
    /\ MaxVersion \in Nat \ {0}
    /\ MaxTriggers \in Nat \ {0}
    /\ 0 \notin Positions

VARIABLES
    postgres,   \* the database is PostgreSQL, not SQLite
    position,   \* positions
    quote,      \* the current KRX snapshot of each symbol
    ready,      \* trading_gates.status = READY
    trigger,    \* stop_triggers with the state of their risk event
    order,      \* orders with the key fixed-stop:<trigger id>
    other,      \* the symbol has an active order of another origin
    tick        \* the transaction each evaluator is in

vars == <<postgres, position, quote, ready, trigger, order, other, tick>>

Ids == 1..MaxTriggers
ActiveStates == {"PENDING", "SHADOW_RECORDED", "EXIT_PENDING"}
States == ActiveStates \cup {"NONE", "SUPERSEDED", "FULFILLED"}

Position == [open : BOOLEAN, managed : 0..Shares, free : BOOLEAN, version : 1..MaxVersion]
Quote == [bid : {"none", "above", "hit"}, executable : BOOLEAN]
Trigger == [position : Positions \cup {0}, version : 0..MaxVersion, state : States,
            event : {"none", "ACTIVE", "RESOLVED"}]
Order == [status : {"none", "active", "ended"}, quantity : 0..Shares]

\* One evaluated trigger: the row it is about (0 for a new one), the row as
\* it was read, as it will be written, and the quantity to sell.
Item == [id : {0} \cup Ids, was : Trigger, new : Trigger, sell : 0..Shares]
Tick == [at : {"idle", "run", "between", "recover"}, items : SUBSET Item,
         stale : SUBSET Ids, todo : SUBSET Ids]

NoTrigger == [position |-> 0, version |-> 0, state |-> "NONE", event |-> "none"]
NoOrder == [status |-> "none", quantity |-> 0]
Idle == [at |-> "idle", items |-> {}, stale |-> {}, todo |-> {}]

TypeOK ==
    /\ postgres \in BOOLEAN
    /\ position \in [Positions -> Position]
    /\ quote \in [Positions -> Quote]
    /\ ready \in BOOLEAN
    /\ trigger \in [Ids -> Trigger]
    /\ order \in [Ids -> Order]
    /\ other \in [Positions -> BOOLEAN]
    /\ tick \in [Evaluators -> Tick]

Active(t) == trigger[t].state \in ActiveStates
Used == {t \in Ids : trigger[t].state # "NONE"}
Of(p) == {t \in Ids : trigger[t].position = p}

-----------------------------------------------------------------------------
(***************************************************************************)
(* The sell guard.  available_quantity against managed_quantity is the     *)
(* flag free; age, quality and trading status of the snapshot and the      *)
(* session are the flag executable.                                        *)
(***************************************************************************)
\* Mutant: the orders of the triggers themselves are not counted.
HasBlockingOrder_others_only(p) == other[p]

HasBlockingOrder(p) ==
    \/ other[p]
    \/ \E t \in Of(p) : order[t].status = "active"

\* The rules on the position row and the snapshot, read first.
RowsPass(p, version) ==
    /\ position[p].open
    /\ position[p].version = version
    /\ position[p].managed > 0
    /\ position[p].free
    /\ quote[p].executable

\* The rules on the gate and the orders of the symbol.
AccountPasses(p) == ready /\ ~HasBlockingOrder(p)

SellGuardPasses(p, version) == RowsPass(p, version) /\ AccountPasses(p)

ShouldTrigger(p) == quote[p].bid = "hit"

\* resolve_risk_event leaves a resolved event alone.
Resolved(event) == IF event = "none" THEN "none" ELSE "RESOLVED"

\* Mutant: a state the check constraint of the table does not know.
Supersede_cancels(r) == [r EXCEPT !.state = "CANCELLED", !.event = Resolved(@)]

Supersede(r) == [r EXCEPT !.state = "SUPERSEDED", !.event = Resolved(@)]

\* A row that the guard blocks: an event is created when the row has none.
Blocked(r) ==
    [r EXCEPT !.state = "EXIT_PENDING", !.event = IF @ = "none" THEN "ACTIVE" ELSE @]

\* Mutant: the recovered trigger waits for another evaluation.
Passed_stays_pending(p, r) == [r EXCEPT !.state = "EXIT_PENDING", !.event = Resolved(@)]

\* A row that the guard passes, up to the creation of the order.
Passed(p, r) ==
    [r EXCEPT !.state = IF ~AutoSell THEN "SHADOW_RECORDED"
                        ELSE IF quote[p].bid = "none" THEN "EXIT_PENDING" ELSE "FULFILLED",
              !.event = Resolved(@)]

ItemFor(p, t, r, new) ==
    [id |-> t, was |-> r, new |-> new,
     sell |-> IF new.state = "FULFILLED" THEN position[p].managed ELSE 0]

\* _re_evaluate_trigger: everything is read before the first write.
ReEvaluated(p, t, r) ==
    ItemFor(p, t, r, IF ~position[p].open THEN Supersede(r)
                     ELSE IF SellGuardPasses(p, r.version) THEN Passed(p, r) ELSE Blocked(r))

Fresh(p) ==
    [position |-> p, version |-> position[p].version, state |-> "PENDING", event |-> "none"]

\* A new trigger is inserted before gate and orders are read: what they say
\* is added when the transaction, then the only writer, commits.
NewlyFired(p) ==
    ItemFor(p, 0, Fresh(p), IF RowsPass(p, position[p].version) THEN Passed(p, Fresh(p))
                            ELSE Blocked(Fresh(p)))

Completed(i) ==
    IF i.id # 0 \/ AccountPasses(i.was.position) THEN i
    ELSE [i EXCEPT !.new = Blocked(i.was), !.sell = 0]

-----------------------------------------------------------------------------
(***************************************************************************)
(* run_fixed_stop_triggers.  Run reads everything, RunCommits writes it.   *)
(***************************************************************************)
\* Mutant: a pending exit is not found again.
ExistingActive_without_pending(p) ==
    {t \in Of(p) : trigger[t].version = position[p].version
                   /\ trigger[t].state \in {"PENDING", "SHADOW_RECORDED"}}

ExistingActive(p) ==
    {t \in Of(p) : trigger[t].version = position[p].version /\ Active(t)}

Opened == {p \in Positions : position[p].open}
Rechecked == {p \in Opened : ExistingActive(p) # {}}
Fired == {p \in Opened : ExistingActive(p) = {} /\ ShouldTrigger(p)}

\* pick is the row _existing_active_trigger happens to return.
Run(e) ==
    \E pick \in [Rechecked -> Ids] :
        /\ \A p \in Rechecked : pick[p] \in ExistingActive(p)
        /\ tick[e].at = "idle"
        /\ Cardinality(Used) + Cardinality(Fired) <= MaxTriggers
        /\ tick' = [tick EXCEPT ![e] =
               [at |-> "run",
                items |-> {ReEvaluated(p, pick[p], trigger[pick[p]]) : p \in Rechecked}
                          \cup {NewlyFired(p) : p \in Fired},
                stale |-> {t \in Ids : Active(t) /\ trigger[t].position \in Opened \ Rechecked},
                todo |-> {}]]
        /\ UNCHANGED <<postgres, position, quote, ready, trigger, order, other>>

\* The guard evaluation of a trigger names the trigger where a foreign key
\* wants a decision execution, and the correlation id "stop-" with a timestamp
\* to the microsecond is longer than its column: PostgreSQL refuses the rows,
\* and the transaction and the tick are over.
RunRefused(e) ==
    /\ tick[e].at = "run"
    /\ postgres /\ tick[e].items # {}
    /\ tick' = [tick EXCEPT ![e] = Idle]
    /\ UNCHANGED <<postgres, position, quote, ready, trigger, order, other>>

\* An UPDATE names only the columns that the session changed.
Written(now, i) ==
    [now EXCEPT !.state = IF i.new.state = i.was.state THEN @ ELSE i.new.state,
                !.event = IF i.new.event = i.was.event THEN @ ELSE i.new.event]

\* The order key is taken: create_order returns the order when the request
\* is the same and raises IDEMPOTENCY_CONFLICT when the price has changed.
Taken(i) == i.id # 0 /\ i.sell > 0 /\ order[i.id].status # "none"
Conflict(i) == [i EXCEPT !.new.state = "EXIT_PENDING"]

\* Rows after the items are written; items of new rows are numbered by ids.
Apply(items, stale, ids) ==
    LET At(i) == IF i.id = 0 THEN ids[i] ELSE i.id
        Sells(t) == {i \in items : At(i) = t /\ i.sell > 0 /\ ~Taken(i)}
    IN  /\ trigger' = [t \in Ids |->
               IF \E i \in items : At(i) = t
               THEN LET i == CHOOSE i \in items : At(i) = t
                    IN  IF i.id = 0 THEN i.new ELSE Written(trigger[t], i)
               ELSE IF t \in stale THEN Supersede(trigger[t]) ELSE trigger[t]]
        /\ order' = [t \in Ids |->
               IF Sells(t) = {} THEN order[t]
               ELSE [status |-> "active", quantity |-> (CHOOSE i \in Sells(t) : TRUE).sell]]

\* New rows take the unused ids in their order.
Numberings(items) ==
    LET new == {i \in items : i.id = 0}
        free == {t \in Ids : Cardinality(Used) < t /\ t <= Cardinality(Used) + Cardinality(new)}
    IN  {ids \in [new -> free] : \A i, j \in new : i # j => ids[i] # ids[j]}

RunCommits(e) ==
    LET items == {Completed(i) : i \in tick[e].items}
    IN  /\ tick[e].at = "run"
        /\ postgres => items = {}
        /\ \E clash \in SUBSET {i \in items : Taken(i)} :
               LET written == (items \ clash) \cup {Conflict(i) : i \in clash}
               IN  \E ids \in Numberings(written) : Apply(written, tick[e].stale, ids)
        /\ tick' = [tick EXCEPT ![e] = [Idle EXCEPT !.at = "between"]]
        /\ UNCHANGED <<postgres, position, quote, ready, other>>

(***************************************************************************)
(* recover_exit_pending: nothing unless the gate is READY, else every      *)
(* pending exit, one after the other, in one transaction.  The rows of     *)
(* different positions do not meet, and those of one position see what the *)
(* session wrote before, so each is written when it is evaluated.          *)
(***************************************************************************)
Recover(e) ==
    LET pending == IF ready THEN {t \in Ids : trigger[t].state = "EXIT_PENDING"} ELSE {}
    IN  /\ tick[e].at = "between"
        /\ tick' = [tick EXCEPT ![e] =
               IF pending = {} THEN Idle ELSE [Idle EXCEPT !.at = "recover", !.todo = pending]]
        /\ UNCHANGED <<postgres, position, quote, ready, trigger, order, other>>

\* The row was read with the list.
RecoverOne(e, t) ==
    LET r == [trigger[t] EXCEPT !.state = "EXIT_PENDING"]
    IN  /\ tick[e].at = "recover"
        /\ tick[e].items = {}
        /\ t \in tick[e].todo
        /\ tick' = [tick EXCEPT ![e].items = {ReEvaluated(trigger[t].position, t, r)},
                                ![e].todo = @ \ {t}]
        /\ UNCHANGED <<postgres, position, quote, ready, trigger, order, other>>

RecoverCommits(e) ==
    LET items == tick[e].items
    IN  /\ tick[e].at = "recover"
        /\ items # {}
        /\ \E clash \in SUBSET {i \in items : Taken(i)} :
               Apply((items \ clash) \cup {Conflict(i) : i \in clash}, {}, <<>>)
        /\ tick' = [tick EXCEPT ![e] =
               IF tick[e].todo = {} THEN Idle ELSE [tick[e] EXCEPT !.items = {}]]
        /\ UNCHANGED <<postgres, position, quote, ready, other>>

\* The process or its database connection ends; the transaction is gone.  A
\* crash in the recovery has the effect of one before it.
Crash(e) ==
    /\ tick[e].at \in {"run", "between"}
    /\ tick' = [tick EXCEPT ![e] = Idle]
    /\ UNCHANGED <<postgres, position, quote, ready, trigger, order, other>>

EvaluatorStep(e) ==
    \/ Run(e) \/ RunRefused(e) \/ RunCommits(e)
    \/ Recover(e) \/ RecoverCommits(e)
    \/ \E t \in Ids : RecoverOne(e, t)

-----------------------------------------------------------------------------
(***************************************************************************)
(* What the other components do: the projection of a broker snapshot, the  *)
(* market stream, the gate, and orders of other origin.                    *)
(***************************************************************************)
PositionProjected(p) ==
    /\ position[p].version < MaxVersion
    /\ \E new \in Position :
           /\ new.version = position[p].version + 1
           /\ ~new.open => new.managed = 0
           /\ <<new.open, new.managed, new.free>>
                  # <<position[p].open, position[p].managed, position[p].free>>
           /\ position' = [position EXCEPT ![p] = new]
    /\ UNCHANGED <<postgres, quote, ready, trigger, order, other, tick>>

QuoteArrives(p) ==
    /\ \E new \in Quote : new # quote[p] /\ quote' = [quote EXCEPT ![p] = new]
    /\ UNCHANGED <<postgres, position, ready, trigger, order, other, tick>>

GateChanges ==
    /\ ready' = ~ready
    /\ UNCHANGED <<postgres, position, quote, trigger, order, other, tick>>

\* A decision or an approval creates an order when its guard sees none.
OtherOrderCreated(p) ==
    /\ ~HasBlockingOrder(p)
    /\ other' = [other EXCEPT ![p] = TRUE]
    /\ UNCHANGED <<postgres, position, quote, ready, trigger, order, tick>>

OtherOrderEnds(p) ==
    /\ other[p]
    /\ other' = [other EXCEPT ![p] = FALSE]
    /\ UNCHANGED <<postgres, position, quote, ready, trigger, order, tick>>

\* The stop order is rejected, or cancelled unfilled.
StopOrderEnds(t) ==
    /\ order[t].status = "active"
    /\ order' = [order EXCEPT ![t].status = "ended"]
    /\ UNCHANGED <<postgres, position, quote, ready, trigger, other, tick>>

\* One projection closes the filled order and takes the shares away.
StopOrderFills(t) ==
    LET p == trigger[t].position
        left == IF order[t].quantity < position[p].managed
                THEN position[p].managed - order[t].quantity ELSE 0
    IN  /\ order[t].status = "active"
        /\ position[p].version < MaxVersion
        /\ position[p].open
        /\ order' = [order EXCEPT ![t].status = "ended"]
        /\ position' = [position EXCEPT ![p] =
               [open |-> left > 0, managed |-> left, free |-> TRUE,
                version |-> position[p].version + 1]]
        /\ UNCHANGED <<postgres, quote, ready, trigger, other, tick>>

Environment ==
    \/ GateChanges
    \/ \E p \in Positions : \/ PositionProjected(p) \/ QuoteArrives(p)
                            \/ OtherOrderCreated(p) \/ OtherOrderEnds(p)
    \/ \E t \in Ids : StopOrderEnds(t) \/ StopOrderFills(t)

Init ==
    /\ postgres \in BOOLEAN
    /\ position = [p \in Positions |-> [open |-> TRUE, managed |-> Shares, free |-> TRUE,
                                        version |-> 1]]
    /\ quote = [p \in Positions |-> [bid |-> "above", executable |-> TRUE]]
    /\ ready = TRUE
    /\ trigger = [t \in Ids |-> NoTrigger]
    /\ order = [t \in Ids |-> NoOrder]
    /\ other = [p \in Positions |-> FALSE]
    /\ tick = [e \in Evaluators |-> Idle]

Next ==
    \/ \E e \in Evaluators : EvaluatorStep(e) \/ Crash(e)
    \/ Environment

Spec == Init /\ [][Next]_vars

\* The worker starts a tick every ten seconds, and does not crash in every one
\* of them: a tick that begins again and again commits again and again.
FairSpec ==
    /\ Spec
    /\ \A e \in Evaluators :
           /\ WF_vars(EvaluatorStep(e))
           /\ SF_vars(RunCommits(e))
           /\ SF_vars(Recover(e))

-----------------------------------------------------------------------------
\* A trigger stops being active only with an order, or because its position
\* was closed or has moved to another version: a gap in the data, an outage
\* or a crash never erases a stop signal (EXE-053).
SignalIsKept ==
    [][\A t \in Ids : Active(t) /\ ~Active(t)' =>
           \/ order'[t].status # "none"
           \/ ~position[trigger[t].position].open
           \/ position[trigger[t].position].version # trigger[t].version]_vars

\* A position never has two active fixed-stop orders, so that the stop never
\* sells the managed quantity twice.
OneStopOrder ==
    \A t, u \in Ids :
        /\ order[t].status = "active" /\ order[u].status = "active"
        /\ trigger[t].position = trigger[u].position
        => t = u

\* The ticks of two workers do not overlap.  Nothing in the code sees to it.
TicksApart ==
    \A e, f \in Evaluators : tick[e].at # "idle" /\ tick[f].at # "idle" => e = f

\* As long as the ticks do not overlap, whichever worker runs them, OneStopOrder
\* holds: not two triggers of different versions, nor a row of the first
\* transaction and one of the recovery, nor a crash and a retry make two orders.
ApartTicksSellOnce == []TicksApart => []OneStopOrder

\* A pending exit does not stay pending while the guard would let it be sold
\* (_emit_fixed_stop_order: the next tick retries).
PendingExitIsSold ==
    \A t \in Ids :
        LET p == trigger[t].position
        IN  ~<>[](/\ trigger[t].state = "EXIT_PENDING"
                  /\ SellGuardPasses(p, trigger[t].version)
                  /\ quote[p].bid # "none")

-----------------------------------------------------------------------------
(***************************************************************************)
(* What the documents say and the code does not do.                        *)
(***************************************************************************)
Unfinished(t) == Active(t) \/ order[t].status = "active"

\* EXE-053: a stop that stays reached is recorded, by a trigger or an order
\* (as long as the bound on the trigger rows leaves room).
StopIsRecorded ==
    \A p \in Positions :
        ~<>[](/\ Used # Ids
              /\ position[p].open /\ quote[p].executable /\ ShouldTrigger(p)
              /\ \A t \in Of(p) : trigger[t].version = position[p].version => ~Unfinished(t))
=============================================================================
