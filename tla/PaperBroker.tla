---------------------------- MODULE PaperBroker ----------------------------
(***************************************************************************)
(* The deterministic simulator of trading/paper.py: orders, fills, cancels *)
(* and replacements of the PAPER account.  One caller drives it, and each  *)
(* of its functions is one transaction.                                    *)
(*                                                                         *)
(* An order row is named by its idempotency key and a fill by its source   *)
(* key: a request that repeats a key finds the row and changes nothing,    *)
(* whether it is answered with the row or with a conflict.  Prices, fees   *)
(* and the event ledger are left out.                                      *)
(***************************************************************************)
EXTENDS Naturals, FiniteSets, FiniteSetsExt

CONSTANTS
    Keys,      \* idempotency keys
    NoKey,     \* parent_order_id IS NULL
    FillKeys,  \* source keys of fills
    Symbols,
    Shares     \* bound on requested_quantity

ASSUME PaperAssumption ==
    /\ NoKey \notin Keys
    /\ IsFiniteSet(Keys) /\ IsFiniteSet(FillKeys)
    /\ Shares \in Nat

VARIABLES
    ready,       \* the gate of the account is READY
    row,         \* orders
    fill,        \* fills
    position,    \* quantity of each position, 0 without a row
    unreserved   \* history: a SELL fill took shares that no order had reserved

vars == <<ready, row, fill, position, unreserved>>

\* Statuses that outlive a transaction.
LockStates == {"UNKNOWN", "RECONCILING"}
ActiveSellStates ==
    {"OPEN", "PARTIALLY_FILLED", "CANCEL_PENDING", "REPLACE_PENDING"} \cup LockStates
Statuses == ActiveSellStates \cup {"ABSENT", "FILLED", "CANCELLED", "REPLACED"}

Row == [status : Statuses, symbol : Symbols, side : {"BUY", "SELL"}, parent : Keys \cup {NoKey},
        requested : 0..Shares, filled : 0..Shares, cancelled : 0..Shares, remaining : 0..Shares]
Fill == [order : Keys \cup {NoKey}, quantity : 0..Shares]

NoFill == [order |-> NoKey, quantity |-> 0]
NewRow(status, symbol, side, parent, quantity) ==
    [status |-> status, symbol |-> symbol, side |-> side, parent |-> parent,
     requested |-> quantity, filled |-> 0, cancelled |-> 0, remaining |-> quantity]

TypeOK ==
    /\ ready \in BOOLEAN
    /\ row \in [Keys -> Row]
    /\ fill \in [FillKeys -> Fill]
    /\ position \in [Symbols -> Nat]
    /\ unreserved \in BOOLEAN

Exists(k) == row[k].status # "ABSENT"
Lesser(m, n) == IF m < n THEN m ELSE n

-----------------------------------------------------------------------------
set_paper_gate(status) ==
    /\ ready' = status
    /\ UNCHANGED <<row, fill, position, unreserved>>

\* What the active SELL orders of a symbol may still take from its position.
Reserved(s) ==
    MapThenSumSet(LAMBDA k : row[k].remaining,
                  {k \in Keys : /\ row[k].symbol = s
                                /\ row[k].side = "SELL"
                                /\ row[k].status \in ActiveSellStates})

\* Mutant: the position is looked at without the orders that reserve it.
SellCovered_unreserved(s, quantity) == quantity <= position[s]

SellCovered(s, quantity) == Reserved(s) + quantity <= position[s]

_validate_request(s, side, quantity) ==
    /\ ready
    /\ \A k \in Keys : row[k].symbol = s => row[k].status \notin LockStates
    /\ side = "SELL" => SellCovered(s, quantity)

\* The simulator answers at once, or the answer is lost.
create_paper_order(k, s, side, quantity) ==
    /\ ~Exists(k)
    /\ _validate_request(s, side, quantity)
    /\ \E status \in {"OPEN", "UNKNOWN"} :
           row' = [row EXCEPT ![k] = NewRow(status, s, side, NoKey, quantity)]
    /\ UNCHANGED <<ready, fill, position, unreserved>>

-----------------------------------------------------------------------------
(***************************************************************************)
(* Fills.  A fill may come late: it then takes back cancelled shares, and  *)
(* when the order was replaced, the replacement has as many less to do.    *)
(***************************************************************************)
StatusAfterFill(r, left) ==
    IF r.status \in {"CANCEL_PENDING", "REPLACE_PENDING", "CANCELLED", "REPLACED"} THEN r.status
    ELSE IF left > 0 THEN "PARTIALLY_FILLED" ELSE "CANCELLED"

Filled(r, quantity) ==
    LET taken == Lesser(quantity, r.remaining)
    IN  [r EXCEPT !.remaining = @ - taken,
                  !.cancelled = @ - (quantity - taken),
                  !.filled = @ + quantity,
                  !.status = IF r.filled + quantity = r.requested THEN "FILLED"
                             ELSE StatusAfterFill(r, r.remaining - taken)]

\* Mutant: filled shares are looked at before the remaining ones.
StatusAfterLateFill_filled_first(r, left, quantity) ==
    IF r.remaining - left < quantity THEN "RECONCILING"
    ELSE IF r.filled = r.requested THEN "FILLED"
    ELSE IF r.filled > 0 THEN "PARTIALLY_FILLED"
    ELSE IF left = 0 THEN "CANCELLED" ELSE "OPEN"

StatusAfterLateFill(r, left, quantity) ==
    IF r.remaining - left < quantity THEN "RECONCILING"
    ELSE IF r.filled = r.requested THEN "FILLED"
    ELSE IF left = 0 THEN "CANCELLED"
    ELSE IF r.filled > 0 THEN "PARTIALLY_FILLED" ELSE "OPEN"

_adjust_replacement_child_for_late_fill(r, quantity) ==
    LET absorbed == Lesser(quantity, r.remaining)
        left == r.remaining - absorbed
    IN  [r EXCEPT !.remaining = left,
                  !.cancelled = @ + absorbed,
                  !.status = StatusAfterLateFill(r, left, quantity)]

_apply_position(r, quantity) ==
    position' = [position EXCEPT ![r.symbol] =
                    IF r.side = "BUY" THEN @ + quantity ELSE @ - quantity]

\* The replacements of k; there is never more than one (OneReplacement).
Children(k) == {c \in Keys : row[c].parent = k}

\* What a fill takes out of the remainders of the order and its replacement.
FromRemaining(k, quantity) ==
    IF row[k].status = "REPLACED"
    THEN \E c \in Children(k) : quantity <= row[c].remaining
    ELSE quantity <= row[k].remaining

\* Mutant: a fill that is delivered again is applied again.
IsNew_always(f) == TRUE

IsNew(f) == fill[f] = NoFill

\* Mutant: a SELL fill is not compared with the position.
Fillable_short(k, quantity) == quantity <= row[k].remaining + row[k].cancelled

Fillable(k, quantity) ==
    /\ quantity <= row[k].remaining + row[k].cancelled
    /\ row[k].side = "SELL" => quantity <= position[row[k].symbol]

apply_paper_fill(f, k, quantity) ==
    /\ IsNew(f)
    /\ Exists(k)
    /\ Fillable(k, quantity)
    /\ fill' = [fill EXCEPT ![f] = [order |-> k, quantity |-> quantity]]
    /\ row' = [c \in Keys |->
                  IF c = k THEN Filled(row[k], quantity)
                  ELSE IF row[k].status = "REPLACED" /\ c \in Children(k)
                  THEN _adjust_replacement_child_for_late_fill(row[c], quantity)
                  ELSE row[c]]
    /\ _apply_position(row[k], quantity)
    /\ unreserved' = (unreserved \/ (row[k].side = "SELL" /\ ~FromRemaining(k, quantity)))
    /\ UNCHANGED ready

-----------------------------------------------------------------------------
(***************************************************************************)
(* Cancels and replacements                                                *)
(***************************************************************************)
Requested(k, status) ==
    /\ row[k].status \in {"OPEN", "PARTIALLY_FILLED"}
    /\ row' = [row EXCEPT ![k].status = status]
    /\ UNCHANGED <<ready, fill, position, unreserved>>

request_paper_cancel(k) == Requested(k, "CANCEL_PENDING")

request_paper_replace(k) == Requested(k, "REPLACE_PENDING")

Cancelled(r) ==
    [r EXCEPT !.status = "CANCELLED", !.cancelled = @ + r.remaining, !.remaining = 0]

\* A filled order is returned as it is.
confirm_paper_cancel(k) ==
    /\ row[k].status = "CANCEL_PENDING"
    /\ row' = [row EXCEPT ![k] = Cancelled(row[k])]
    /\ UNCHANGED <<ready, fill, position, unreserved>>

\* Mutant: the original keeps its remainder.
Replaced_keeps_remaining(r) == [r EXCEPT !.status = "REPLACED"]

Replaced(r) ==
    [r EXCEPT !.status = "REPLACED", !.cancelled = @ + r.remaining, !.remaining = 0]

replace_paper_order(k, c) ==
    /\ ~Exists(c)
    /\ row[k].status = "REPLACE_PENDING"
    /\ row[k].remaining > 0
    /\ row' = [row EXCEPT
           ![k] = Replaced(row[k]),
           ![c] = NewRow("OPEN", row[k].symbol, row[k].side, k, row[k].remaining)]
    /\ UNCHANGED <<ready, fill, position, unreserved>>

-----------------------------------------------------------------------------
Init ==
    /\ ready = FALSE
    /\ row \in [Keys -> {NewRow("ABSENT", s, "BUY", NoKey, 0) : s \in Symbols}]
    /\ fill = [f \in FillKeys |-> NoFill]
    /\ position = [s \in Symbols |-> 0]
    /\ unreserved = FALSE

Next ==
    \/ \E status \in BOOLEAN : set_paper_gate(status)
    \/ \E k \in Keys, s \in Symbols, side \in {"BUY", "SELL"}, quantity \in 1..Shares :
           create_paper_order(k, s, side, quantity)
    \/ \E f \in FillKeys, k \in Keys, quantity \in 1..Shares : apply_paper_fill(f, k, quantity)
    \/ \E k \in Keys : request_paper_cancel(k) \/ confirm_paper_cancel(k)
    \/ \E k \in Keys : request_paper_replace(k)
    \/ \E k, c \in Keys : replace_paper_order(k, c)

Spec == Init /\ [][Next]_vars

-----------------------------------------------------------------------------
\* Requested, filled, cancelled and remaining shares add up, and the status
\* says what they say (STM-013, STM-030 to STM-033), after every order of
\* fills, late fills, cancels and replacements.
Adds(r) == r.requested = r.filled + r.cancelled + r.remaining

StatusFits(r) ==
    /\ r.status = "OPEN" => r.filled = 0 /\ r.remaining > 0
    /\ r.status = "PARTIALLY_FILLED" => r.filled > 0 /\ r.remaining > 0
    /\ r.status = "FILLED" => r.filled = r.requested
    /\ r.status = "CANCELLED" => r.remaining = 0 /\ r.cancelled > 0
    /\ r.status = "REPLACED" => r.remaining = 0 /\ r.cancelled > 0
    /\ r.status = "RECONCILING" => r.remaining = 0
    /\ r.status \in {"CANCEL_PENDING", "REPLACE_PENDING"} => r.filled < r.requested

QuantitiesFit == \A k \in Keys : Adds(row[k]) /\ StatusFits(row[k])

\* An order has at most one replacement and, once it has one, no shares left
\* to fill under its own number (STM-012, ORD-021).
OneReplacement ==
    \A c, d \in Keys :
        row[c].parent # NoKey =>
            /\ row[row[c].parent].remaining = 0
            /\ row[c].parent = row[d].parent => c = d

\* Every order has as many shares filled as its fills say, and a position is
\* what the fills of its symbol bought less what they sold: a repeated fill
\* is not counted again and a late one is not lost (STM-034, STM-035).
FillsOf(k) == MapThenSumSet(LAMBDA f : fill[f].quantity, {f \in FillKeys : fill[f].order = k})
Traded(s, side) ==
    MapThenSumSet(FillsOf, {k \in Keys : row[k].symbol = s /\ row[k].side = side})

FillsAreCounted ==
    /\ \A k \in Keys : row[k].filled = FillsOf(k)
    /\ \A s \in Symbols : position[s] + Traded(s, "SELL") = Traded(s, "BUY")

\* The SELL orders that may still be filled never ask for more than there is,
\* so that no fill of them is refused, as long as no late fill took shares
\* that had been cancelled (_validate_request).
ReservedIsCovered == ~unreserved => \A s \in Symbols : Reserved(s) <= position[s]
=============================================================================
