------------------------- MODULE CountingProofs -----------------------------
(***************************************************************************)
(* What is counted: the shares of the paper broker, for any number of      *)
(* orders, fills, symbols and shares, and the volume in the minute bars of *)
(* MarketWatch, for any number of trades and any length of minutes and     *)
(* days.  PaperInv is about single orders and replacements; SumInv adds    *)
(* the sums over fills and orders, and the part between the two shows what *)
(* a sum over a finite set is and how it changes.  WatchInv uses the same  *)
(* sums for the bars of a day.                                             *)
(***************************************************************************)
EXTENDS PaperBroker, MarketWatch, FiniteSetTheorems, TLAPS

\* A row that was replaced never becomes open again, and the row that
\* replaced it exists: without this an order could be replaced twice.
Done == {"REPLACED", "RECONCILING", "FILLED", "CANCELLED"}

ParentsAreDone ==
    \A c \in Keys :
        /\ row[c].status = "ABSENT" => row[c].parent = NoKey
        /\ row[c].parent # NoKey => row[row[c].parent].status \in Done

NoTwins ==
    \A c, d \in Keys : row[c].parent # NoKey /\ row[c].parent = row[d].parent => c = d

PaperInv == TypeOK /\ QuantitiesFit /\ ParentsAreDone /\ NoTwins

USE PaperAssumption

-----------------------------------------------------------------------------
\* The inductive invariant implies OneReplacement: a row in one of the states
\* of a replaced order has no shares left.
LEMMA PaperInvImpliesOneReplacement == PaperInv => OneReplacement
<1> SUFFICES ASSUME PaperInv,
                    NEW c \in Keys, NEW d \in Keys, row[c].parent # NoKey
             PROVE  /\ row[row[c].parent].remaining = 0
                    /\ row[c].parent = row[d].parent => c = d
  BY DEF OneReplacement
<1>1. row[c].parent = row[d].parent => c = d
  BY DEF PaperInv, NoTwins
<1> DEFINE p == row[c].parent
<1>2. p \in Keys /\ row[p] \in Row
  BY DEF PaperInv, TypeOK, Row
<1>3. row[p].status \in Done
  BY DEF PaperInv, ParentsAreDone
<1>4. Adds(row[p]) /\ StatusFits(row[p])
  BY <1>2 DEF PaperInv, QuantitiesFit
<1>5. row[p].remaining = 0
  <2>1. PICK r \in Row : r = row[p]
    BY <1>2
  <2>2. r.status \in Done /\ Adds(r) /\ StatusFits(r)
    BY <1>3, <1>4, <2>1
  <2>3. r.remaining = 0
    BY <2>2 DEF Done, Adds, StatusFits, Row
  <2> QED BY <2>1, <2>3
<1> QED BY <1>1, <1>5

\* What a fill makes of a row: it stays well-formed, and a row that is done
\* stays done.
LEMMA FilledFits ==
    ASSUME NEW r \in Row, NEW quantity \in 1..Shares,
           r.status # "ABSENT", Adds(r), StatusFits(r),
           quantity <= r.remaining + r.cancelled
    PROVE  /\ Filled(r, quantity) \in Row
           /\ Adds(Filled(r, quantity))
           /\ StatusFits(Filled(r, quantity))
           /\ Filled(r, quantity).status # "ABSENT"
           /\ Filled(r, quantity).parent = r.parent
           /\ r.status \in Done => Filled(r, quantity).status \in Done
<1> DEFINE taken == Lesser(quantity, r.remaining)
           n == Filled(r, quantity)
<1>1. /\ taken \in 0..Shares /\ taken <= quantity /\ taken <= r.remaining
      /\ taken = quantity \/ taken = r.remaining
  BY DEF Lesser, Row
<1> HIDE DEF taken
<1>2. /\ n.remaining = r.remaining - taken
      /\ n.cancelled = r.cancelled - (quantity - taken)
      /\ n.filled = r.filled + quantity
      /\ n.requested = r.requested
      /\ n.parent = r.parent
      /\ n.status = IF r.filled + quantity = r.requested THEN "FILLED"
                    ELSE StatusAfterFill(r, r.remaining - taken)
  BY DEF Filled, Row, taken
<1>3. /\ n.remaining \in 0..Shares /\ n.cancelled \in 0..Shares /\ n.filled \in 0..Shares
      /\ n.requested = n.filled + n.cancelled + n.remaining
  BY <1>1, <1>2 DEF Row, Adds
<1>4. n.status \in Statuses \ {"ABSENT"}
  BY <1>2 DEF StatusAfterFill, Statuses, ActiveSellStates
<1>5. n = [r EXCEPT !.remaining = n.remaining, !.cancelled = n.cancelled,
                    !.filled = n.filled, !.status = n.status]
  BY DEF Filled, Row
<1>6. n.status = "FILLED" \/ n.filled < n.requested
  <2>1. r.filled + quantity # r.requested => n.filled < n.requested
    BY <1>2, <1>3 DEF Row
  <2> QED BY <1>2, <2>1
<1>7. StatusFits(n)
  <2>1. CASE r.filled + quantity = r.requested
    BY <2>1, <1>2 DEF StatusFits
  <2>2. CASE /\ r.filled + quantity # r.requested
             /\ r.status \in {"CANCEL_PENDING", "REPLACE_PENDING"}
    <3>1. n.status = r.status
      BY <2>2, <1>2 DEF StatusAfterFill
    <3>2. n.filled < n.requested
      BY <2>2, <1>2, <1>3 DEF Row
    <3> QED BY <2>2, <3>1, <3>2 DEF StatusFits
  <2>3. CASE /\ r.filled + quantity # r.requested
             /\ r.status \in {"CANCELLED", "REPLACED"}
    <3>1. n.status = r.status
      BY <2>3, <1>2 DEF StatusAfterFill
    <3>2. r.remaining = 0
      BY <2>3 DEF StatusFits
    <3>3. n.remaining = 0
      BY <3>2, <1>1, <1>2, <1>3
    <3>4. n.cancelled > 0
      BY <2>3, <3>3, <1>2, <1>3 DEF Row
    <3> QED BY <2>3, <3>1, <3>3, <3>4 DEF StatusFits
  <2>4. CASE /\ r.filled + quantity # r.requested
             /\ r.status \notin {"CANCEL_PENDING", "REPLACE_PENDING", "CANCELLED", "REPLACED"}
    <3>1. n.status = IF n.remaining > 0 THEN "PARTIALLY_FILLED" ELSE "CANCELLED"
      BY <2>4, <1>2 DEF StatusAfterFill
    <3>2. n.filled > 0
      BY <1>2 DEF Row
    <3>3. n.remaining = 0 => n.cancelled > 0
      BY <2>4, <1>2, <1>3 DEF Row
    <3> QED BY <3>1, <3>2, <3>3, <1>3 DEF StatusFits
  <2> QED BY <2>1, <2>2, <2>3, <2>4
<1>8. r.status \in Done => n.status \in Done
  <2>1. r.status \in Done => r.remaining = 0
    BY DEF Done, StatusFits, Adds, Row
  <2>2. r.status \in Done => n.remaining = 0
    BY <2>1, <1>1, <1>2, <1>3
  <2> QED BY <2>2, <1>2 DEF Done, StatusAfterFill
<1>9. n \in Row
  BY <1>3, <1>4, <1>5 DEF Row
<1>10. Adds(n)
  BY <1>3 DEF Adds
<1> HIDE DEF n
<1> QED BY <1>2, <1>4, <1>7, <1>8, <1>9, <1>10 DEF n

\* The same for the replacement of a row that was filled late.
LEMMA AdjustedFits ==
    ASSUME NEW r \in Row, NEW quantity \in 1..Shares, Adds(r), StatusFits(r)
    PROVE  LET n == _adjust_replacement_child_for_late_fill(r, quantity)
           IN  /\ n \in Row
               /\ Adds(n)
               /\ StatusFits(n)
               /\ n.status # "ABSENT"
               /\ n.parent = r.parent
               /\ r.status \in Done => n.status \in Done
<1> DEFINE absorbed == Lesser(quantity, r.remaining)
           left == r.remaining - absorbed
           n == _adjust_replacement_child_for_late_fill(r, quantity)
<1>1. /\ absorbed \in 0..Shares /\ absorbed <= quantity /\ absorbed <= r.remaining
      /\ absorbed = quantity \/ absorbed = r.remaining
  BY DEF Lesser, Row
<1>2. /\ n.remaining = left
      /\ n.cancelled = r.cancelled + absorbed
      /\ n.filled = r.filled
      /\ n.requested = r.requested
      /\ n.parent = r.parent
      /\ n.status = StatusAfterLateFill(r, left, quantity)
  BY DEF _adjust_replacement_child_for_late_fill, Row
<1>3. n = [r EXCEPT !.remaining = n.remaining, !.cancelled = n.cancelled, !.status = n.status]
  BY DEF _adjust_replacement_child_for_late_fill, Row
<1> HIDE DEF absorbed, n
<1>4. /\ n.remaining \in 0..Shares /\ n.cancelled \in 0..Shares
      /\ n.requested = n.filled + n.cancelled + n.remaining
  BY <1>1, <1>2 DEF Row, Adds
<1>5. r.remaining - left = absorbed /\ left \in 0..Shares
  BY <1>1 DEF Row
<1> HIDE DEF left
<1>6. n.status = IF absorbed < quantity THEN "RECONCILING"
                 ELSE IF r.filled = r.requested THEN "FILLED"
                 ELSE IF left = 0 THEN "CANCELLED"
                 ELSE IF r.filled > 0 THEN "PARTIALLY_FILLED" ELSE "OPEN"
  BY <1>2, <1>5 DEF StatusAfterLateFill
<1>7. n.status \in Statuses \ {"ABSENT"}
  BY <1>6 DEF Statuses, ActiveSellStates, LockStates
<1>8. StatusFits(n)
  <2>1. CASE absorbed < quantity
    <3>1. left = 0
      BY <2>1, <1>1, <1>5 DEF Row
    <3> QED BY <2>1, <3>1, <1>2, <1>6 DEF StatusFits
  <2>2. CASE absorbed = quantity
    <3>1. n.cancelled > 0
      BY <2>2, <1>2 DEF Row
    <3> QED BY <2>2, <3>1, <1>2, <1>5, <1>6 DEF StatusFits, Row
  <2> QED BY <2>1, <2>2, <1>1
<1>9. r.status \in Done => n.status \in Done
  <2>1. r.status \in Done => r.remaining = 0
    BY DEF Done, StatusFits, Adds, Row
  <2>2. r.status \in Done => absorbed < quantity
    BY <2>1, <1>1
  <2> QED BY <2>2, <1>6 DEF Done
<1>10. n \in Row
  BY <1>3, <1>4, <1>7 DEF Row
<1>11. Adds(n)
  BY <1>4 DEF Adds
<1> QED BY <1>2, <1>7, <1>8, <1>9, <1>10, <1>11 DEF n

-----------------------------------------------------------------------------
\* A step that changes one row, not its parent, and keeps the row well-formed
\* and done if it was done, preserves the part of the invariant about rows.
LEMMA OneRowStep ==
    ASSUME PaperInv, NEW k \in Keys, NEW n \in Row,
           row' = [row EXCEPT ![k] = n],
           Adds(n), StatusFits(n), n.parent = row[k].parent, n.status # "ABSENT",
           row[k].status \in Done => n.status \in Done
    PROVE  row' \in [Keys -> Row] /\ QuantitiesFit' /\ ParentsAreDone' /\ NoTwins'
<1>1. row \in [Keys -> Row]
  BY DEF PaperInv, TypeOK
<1>2. row' \in [Keys -> Row] /\ \A c \in Keys : row'[c] = IF c = k THEN n ELSE row[c]
  BY <1>1
<1>3. QuantitiesFit'
  BY <1>2 DEF PaperInv, QuantitiesFit
<1>4. \A c \in Keys : row'[c].parent = row[c].parent
  BY <1>2
<1>5. ParentsAreDone'
  <2> SUFFICES ASSUME NEW c \in Keys
               PROVE  /\ row'[c].status = "ABSENT" => row'[c].parent = NoKey
                      /\ row'[c].parent # NoKey => row'[row'[c].parent].status \in Done
    BY DEF ParentsAreDone
  <2>1. row'[c].status = "ABSENT" => row'[c].parent = NoKey
    BY <1>2, <1>4 DEF PaperInv, ParentsAreDone
  <2>2. ASSUME row'[c].parent # NoKey
        PROVE  row'[row'[c].parent].status \in Done
    <3>1. row[c].parent \in Keys
      BY <2>2, <1>1, <1>4 DEF Row
    <3>2. row[row[c].parent].status \in Done
      BY <2>2, <1>4 DEF PaperInv, ParentsAreDone
    <3> QED BY <3>1, <3>2, <1>2, <1>4
  <2> QED BY <2>1, <2>2
<1>6. NoTwins'
  BY <1>4 DEF PaperInv, NoTwins
<1> QED BY <1>2, <1>3, <1>5, <1>6

LEMMA PaperInit == Init => PaperInv
<1> SUFFICES ASSUME Init PROVE PaperInv
  OBVIOUS
<1>1. \A k \in Keys :
        \E s \in Symbols : row[k] = NewRow("ABSENT", s, "BUY", NoKey, 0)
  BY DEF Init
<1>2. \A k \in Keys :
        /\ row[k] \in Row
        /\ row[k].status = "ABSENT" /\ row[k].parent = NoKey
        /\ row[k].requested = 0 /\ row[k].filled = 0
        /\ row[k].cancelled = 0 /\ row[k].remaining = 0
  <2> SUFFICES ASSUME NEW k \in Keys, NEW s \in Symbols,
                      row[k] = NewRow("ABSENT", s, "BUY", NoKey, 0)
               PROVE  /\ row[k] \in Row
                      /\ row[k].status = "ABSENT" /\ row[k].parent = NoKey
                      /\ row[k].requested = 0 /\ row[k].filled = 0
                      /\ row[k].cancelled = 0 /\ row[k].remaining = 0
    BY <1>1
  <2>1. "ABSENT" \in Statuses
    BY DEF Statuses
  <2> QED BY <2>1 DEF NewRow, Row
<1>3. TypeOK
  <2>1. row \in [Keys -> Row]
    BY <1>2 DEF Init
  <2>2. fill \in [FillKeys -> Fill]
    BY DEF Init, NoFill, Fill
  <2>3. position \in [Symbols -> Nat] /\ ready \in BOOLEAN /\ unreserved \in BOOLEAN
    BY DEF Init
  <2> QED BY <2>1, <2>2, <2>3 DEF TypeOK
<1>4. QuantitiesFit
  BY <1>2 DEF QuantitiesFit, Adds, StatusFits
<1>5. ParentsAreDone /\ NoTwins
  BY <1>2 DEF ParentsAreDone, NoTwins
<1> QED BY <1>3, <1>4, <1>5 DEF PaperInv

-----------------------------------------------------------------------------
\* One lemma per operation.
LEMMA CreateStep ==
    ASSUME PaperInv, NEW k \in Keys, NEW s \in Symbols, NEW side \in {"BUY", "SELL"},
           NEW quantity \in 1..Shares, create_paper_order(k, s, side, quantity)
    PROVE  PaperInv'
<1> PICK status \in {"OPEN", "UNKNOWN"} :
        row' = [row EXCEPT ![k] = NewRow(status, s, side, NoKey, quantity)]
  BY DEF create_paper_order
<1> DEFINE n == NewRow(status, s, side, NoKey, quantity)
<1>1. status \in Statuses
  BY DEF Statuses, ActiveSellStates, LockStates
<1>2. n \in Row
  BY <1>1 DEF NewRow, Row
<1>3. Adds(n) /\ StatusFits(n)
  BY DEF NewRow, Adds, StatusFits
<1>4. n.parent = row[k].parent
  <2>1. row[k].status = "ABSENT"
    BY DEF create_paper_order, Exists
  <2> QED BY <2>1 DEF NewRow, PaperInv, ParentsAreDone
<1>5. row[k].status \notin Done /\ n.status # "ABSENT"
  BY DEF create_paper_order, Exists, Done, NewRow
<1> HIDE DEF n
<1>6. row' \in [Keys -> Row] /\ QuantitiesFit' /\ ParentsAreDone' /\ NoTwins'
  BY <1>2, <1>3, <1>4, <1>5, OneRowStep DEF n
<1>7. TypeOK'
  BY <1>6 DEF create_paper_order, PaperInv, TypeOK
<1> QED BY <1>6, <1>7 DEF PaperInv

LEMMA RequestStep ==
    ASSUME PaperInv, NEW k \in Keys, NEW status \in {"CANCEL_PENDING", "REPLACE_PENDING"},
           Requested(k, status)
    PROVE  PaperInv'
<1> DEFINE n == [row[k] EXCEPT !.status = status]
<1>1. row[k] \in Row /\ row \in [Keys -> Row]
  BY DEF PaperInv, TypeOK
<1>2. status \in Statuses
  BY DEF Statuses, ActiveSellStates
<1>3. n \in Row /\ row' = [row EXCEPT ![k] = n]
  BY <1>1, <1>2 DEF Requested, Row
<1>4. /\ n.requested = row[k].requested /\ n.filled = row[k].filled
      /\ n.cancelled = row[k].cancelled /\ n.remaining = row[k].remaining
      /\ n.parent = row[k].parent /\ n.status = status
  BY <1>1 DEF Row
<1>5. Adds(row[k]) /\ StatusFits(row[k]) /\ row[k].status \in {"OPEN", "PARTIALLY_FILLED"}
  BY DEF PaperInv, QuantitiesFit, Requested
<1> HIDE DEF n
<1>6. Adds(n) /\ StatusFits(n)
  BY <1>1, <1>4, <1>5 DEF Adds, StatusFits, Row
<1>7. row' \in [Keys -> Row] /\ QuantitiesFit' /\ ParentsAreDone' /\ NoTwins'
  BY <1>3, <1>4, <1>5, <1>6, OneRowStep DEF Done
<1>8. TypeOK'
  BY <1>7 DEF Requested, PaperInv, TypeOK
<1> QED BY <1>7, <1>8 DEF PaperInv

LEMMA ConfirmStep ==
    ASSUME PaperInv, NEW k \in Keys, confirm_paper_cancel(k)
    PROVE  PaperInv'
<1> DEFINE n == Cancelled(row[k])
<1>1. row[k] \in Row /\ row' = [row EXCEPT ![k] = n] /\ row[k].status = "CANCEL_PENDING"
  BY DEF PaperInv, TypeOK, confirm_paper_cancel
<1>2. Adds(row[k]) /\ StatusFits(row[k])
  BY DEF PaperInv, QuantitiesFit
<1>3. /\ n.requested = row[k].requested /\ n.filled = row[k].filled
      /\ n.cancelled = row[k].cancelled + row[k].remaining /\ n.remaining = 0
      /\ n.parent = row[k].parent /\ n.status = "CANCELLED"
  BY <1>1 DEF Cancelled, Row
<1>4. n = [row[k] EXCEPT !.status = n.status, !.cancelled = n.cancelled, !.remaining = n.remaining]
  BY <1>1 DEF Cancelled, Row
<1> HIDE DEF n
<1>5. n.cancelled \in 0..Shares /\ n.remaining \in 0..Shares /\ n.cancelled > 0
  BY <1>1, <1>2, <1>3 DEF Adds, StatusFits, Row
<1>6. n.status \in Statuses
  BY <1>3 DEF Statuses
<1>7. n \in Row
  BY <1>1, <1>4, <1>5, <1>6 DEF Row
<1>8. Adds(n) /\ StatusFits(n)
  BY <1>1, <1>2, <1>3, <1>5 DEF Adds, StatusFits, Row
<1>9. row' \in [Keys -> Row] /\ QuantitiesFit' /\ ParentsAreDone' /\ NoTwins'
  BY <1>1, <1>3, <1>7, <1>8, OneRowStep DEF Done
<1>10. TypeOK'
  BY <1>9 DEF confirm_paper_cancel, PaperInv, TypeOK
<1> QED BY <1>9, <1>10 DEF PaperInv

\* A fill changes its order and, if that was replaced, the replacement; both
\* keep their parents.
LEMMA FillStep ==
    ASSUME PaperInv, NEW f \in FillKeys, NEW k \in Keys, NEW quantity \in 1..Shares,
           apply_paper_fill(f, k, quantity)
    PROVE  PaperInv'
<1>1. row \in [Keys -> Row] /\ row[k] \in Row /\ row[k].status # "ABSENT"
  BY DEF PaperInv, TypeOK, apply_paper_fill, Exists
<1>2. \A c \in Keys : Adds(row[c]) /\ StatusFits(row[c])
  BY DEF PaperInv, QuantitiesFit
<1>3. quantity <= row[k].remaining + row[k].cancelled
  BY DEF apply_paper_fill, Fillable
<1>4. \A c \in Keys :
        /\ row'[c] \in Row
        /\ Adds(row'[c])
        /\ StatusFits(row'[c])
        /\ row'[c].parent = row[c].parent
        /\ row'[c].status = "ABSENT" => row[c].status = "ABSENT"
        /\ row[c].status \in Done => row'[c].status \in Done
  <2> SUFFICES ASSUME NEW c \in Keys
               PROVE  /\ row'[c] \in Row
                      /\ Adds(row'[c])
                      /\ StatusFits(row'[c])
                      /\ row'[c].parent = row[c].parent
                      /\ row'[c].status = "ABSENT" => row[c].status = "ABSENT"
                      /\ row[c].status \in Done => row'[c].status \in Done
    OBVIOUS
  <2>1. row'[c] = IF c = k THEN Filled(row[k], quantity)
                  ELSE IF row[k].status = "REPLACED" /\ c \in Children(k)
                  THEN _adjust_replacement_child_for_late_fill(row[c], quantity)
                  ELSE row[c]
    BY DEF apply_paper_fill
  <2>2. CASE c = k
    <3>1. row'[c] = Filled(row[c], quantity)
      BY <2>1, <2>2
    <3> QED BY <3>1, <2>2, <1>1, <1>2, <1>3, FilledFits
  <2>3. CASE c # k /\ row[k].status = "REPLACED" /\ c \in Children(k)
    <3>1. row'[c] = _adjust_replacement_child_for_late_fill(row[c], quantity)
      BY <2>1, <2>3
    <3>2. row[c] \in Row /\ Adds(row[c]) /\ StatusFits(row[c])
      BY <1>1, <1>2
    <3> QED BY <3>1, <3>2, AdjustedFits
  <2>4. CASE c # k /\ ~(row[k].status = "REPLACED" /\ c \in Children(k))
    <3>1. row'[c] = row[c]
      BY <2>1, <2>4
    <3> QED BY <3>1, <1>1, <1>2
  <2> QED BY <2>2, <2>3, <2>4
<1>5. row' \in [Keys -> Row]
  <2>1. row' = [c \in Keys |-> row'[c]]
    BY DEF apply_paper_fill
  <2> QED BY <2>1, <1>4
<1>6. QuantitiesFit'
  BY <1>4 DEF QuantitiesFit
<1>7. ParentsAreDone'
  <2> SUFFICES ASSUME NEW c \in Keys
               PROVE  /\ row'[c].status = "ABSENT" => row'[c].parent = NoKey
                      /\ row'[c].parent # NoKey => row'[row'[c].parent].status \in Done
    BY DEF ParentsAreDone
  <2>1. row'[c].status = "ABSENT" => row'[c].parent = NoKey
    BY <1>4 DEF PaperInv, ParentsAreDone
  <2>2. ASSUME row'[c].parent # NoKey
        PROVE  row'[row'[c].parent].status \in Done
    <3>1. row[c].parent \in Keys /\ row'[c].parent = row[c].parent
      BY <2>2, <1>1, <1>4 DEF Row
    <3>2. row[row[c].parent].status \in Done
      BY <2>2, <3>1 DEF PaperInv, ParentsAreDone
    <3> QED BY <3>1, <3>2, <1>4
  <2> QED BY <2>1, <2>2
<1>8. NoTwins'
  BY <1>4 DEF PaperInv, NoTwins
<1>9. position' \in [Symbols -> Nat]
  <2> DEFINE s == row[k].symbol
  <2>1. s \in Symbols /\ position \in [Symbols -> Nat] /\ row[k].side \in {"BUY", "SELL"}
    BY <1>1 DEF PaperInv, TypeOK, Row
  <2>2. row[k].side = "SELL" => quantity <= position[s]
    BY DEF apply_paper_fill, Fillable
  <2>3. position' = [position EXCEPT ![s] =
                        IF row[k].side = "BUY" THEN @ + quantity ELSE @ - quantity]
    BY DEF apply_paper_fill, _apply_position
  <2> HIDE DEF s
  <2>4. (IF row[k].side = "BUY" THEN position[s] + quantity ELSE position[s] - quantity) \in Nat
    BY <2>1, <2>2
  <2> QED BY <2>1, <2>3, <2>4
<1>10. fill' \in [FillKeys -> Fill] /\ ready' \in BOOLEAN /\ unreserved' \in BOOLEAN
  <2>1. [order |-> k, quantity |-> quantity] \in Fill
    BY DEF Fill
  <2>2. fill' \in [FillKeys -> Fill]
    BY <2>1 DEF apply_paper_fill, PaperInv, TypeOK
  <2>3. ready' \in BOOLEAN
    BY DEF apply_paper_fill, PaperInv, TypeOK
  <2>4. unreserved' \in BOOLEAN
    BY DEF apply_paper_fill
  <2> QED BY <2>2, <2>3, <2>4
<1>11. TypeOK'
  BY <1>5, <1>9, <1>10 DEF TypeOK
<1> QED BY <1>6, <1>7, <1>8, <1>11 DEF PaperInv

\* A replacement is the only child of its parent, because an order that may
\* still be replaced is not done.
LEMMA ReplaceStep ==
    ASSUME PaperInv, NEW k \in Keys, NEW c \in Keys, replace_paper_order(k, c)
    PROVE  PaperInv'
<1> DEFINE old == Replaced(row[k])
           new == NewRow("OPEN", row[k].symbol, row[k].side, k, row[k].remaining)
<1>1. /\ row \in [Keys -> Row] /\ row[k] \in Row
      /\ row[k].status = "REPLACE_PENDING" /\ row[k].remaining > 0
      /\ row[c].status = "ABSENT" /\ c # k
  BY DEF PaperInv, TypeOK, replace_paper_order, Exists
<1>2. Adds(row[k]) /\ StatusFits(row[k])
  BY DEF PaperInv, QuantitiesFit
<1>3. /\ old.requested = row[k].requested /\ old.filled = row[k].filled
      /\ old.cancelled = row[k].cancelled + row[k].remaining /\ old.remaining = 0
      /\ old.parent = row[k].parent /\ old.status = "REPLACED"
  BY <1>1 DEF Replaced, Row
<1>4. old = [row[k] EXCEPT !.status = old.status, !.cancelled = old.cancelled,
                           !.remaining = old.remaining]
  BY <1>1 DEF Replaced, Row
<1>5. new \in Row /\ Adds(new) /\ StatusFits(new) /\ new.parent = k /\ new.status = "OPEN"
  <2>1. "OPEN" \in Statuses
    BY DEF Statuses, ActiveSellStates
  <2>2. new \in Row
    BY <2>1, <1>1 DEF NewRow, Row
  <2> QED BY <2>2, <1>1 DEF NewRow, Adds, StatusFits, Row
<1>6. row' = [row EXCEPT ![k] = old, ![c] = new]
  BY DEF replace_paper_order
<1> HIDE DEF old, new
<1>7. old \in Row
  <2>1. old.cancelled \in 0..Shares /\ old.remaining \in 0..Shares
    BY <1>1, <1>2, <1>3 DEF Adds, Row
  <2>2. old.status \in Statuses
    BY <1>3 DEF Statuses
  <2> QED BY <2>1, <2>2, <1>1, <1>4 DEF Row
<1>8. Adds(old) /\ StatusFits(old)
  BY <1>1, <1>2, <1>3 DEF Adds, StatusFits, Row
<1>9. /\ row' \in [Keys -> Row]
      /\ \A d \in Keys : row'[d] = IF d = c THEN new ELSE IF d = k THEN old ELSE row[d]
  BY <1>1, <1>5, <1>6, <1>7
<1>10. QuantitiesFit'
  BY <1>5, <1>8, <1>9 DEF PaperInv, QuantitiesFit
<1>11. \A d \in Keys : row[d].parent # k
  <2>1. k # NoKey /\ row[k].status \notin Done
    BY <1>1 DEF Done
  <2> QED BY <2>1 DEF PaperInv, ParentsAreDone
<1>12. \A d \in Keys : row'[d].parent = IF d = c THEN k ELSE row[d].parent
  BY <1>3, <1>5, <1>9
<1>13. NoTwins'
  BY <1>11, <1>12 DEF PaperInv, NoTwins
<1>14. ParentsAreDone'
  <2> SUFFICES ASSUME NEW d \in Keys
               PROVE  /\ row'[d].status = "ABSENT" => row'[d].parent = NoKey
                      /\ row'[d].parent # NoKey => row'[row'[d].parent].status \in Done
    BY DEF ParentsAreDone
  <2>1. CASE d = c
    BY <2>1, <1>1, <1>3, <1>5, <1>9 DEF Done
  <2>2. CASE d # c
    <3>1. row'[d].status = "ABSENT" => row[d].status = "ABSENT"
      BY <2>2, <1>3, <1>9
    <3>2. row'[d].parent = row[d].parent
      BY <2>2, <1>12
    <3>3. ASSUME row[d].parent # NoKey
          PROVE  row'[row[d].parent].status \in Done
      <4>1. row[d].parent \in Keys /\ row[row[d].parent].status \in Done
        BY <3>3, <1>1 DEF PaperInv, ParentsAreDone, Row
      <4>2. row[d].parent # c /\ row[d].parent # k
        BY <4>1, <1>1 DEF Done
      <4> QED BY <4>1, <4>2, <1>9
    <3>4. row[d].status = "ABSENT" => row[d].parent = NoKey
      BY DEF PaperInv, ParentsAreDone
    <3> QED BY <3>1, <3>2, <3>3, <3>4
  <2> QED BY <2>1, <2>2
<1>15. TypeOK'
  BY <1>9 DEF replace_paper_order, PaperInv, TypeOK
<1> QED BY <1>10, <1>13, <1>14, <1>15 DEF PaperInv

LEMMA GateStep ==
    ASSUME PaperInv, NEW status \in BOOLEAN, set_paper_gate(status)
    PROVE  PaperInv'
  BY DEF set_paper_gate, PaperInv, TypeOK, QuantitiesFit, ParentsAreDone, NoTwins

-----------------------------------------------------------------------------
\* PaperInv holds in every reachable state.
THEOREM PaperInvariant == Spec => []PaperInv
<1>1. Init => PaperInv
  BY PaperInit
<1>2. PaperInv /\ [Next]_vars => PaperInv'
  <2> SUFFICES ASSUME PaperInv, [Next]_vars PROVE PaperInv'
    OBVIOUS
  <2>1. CASE \E status \in BOOLEAN : set_paper_gate(status)
    BY <2>1, GateStep
  <2>2. CASE \E k \in Keys, s \in Symbols, side \in {"BUY", "SELL"}, quantity \in 1..Shares :
                create_paper_order(k, s, side, quantity)
    BY <2>2, CreateStep
  <2>3. CASE \E f \in FillKeys, k \in Keys, quantity \in 1..Shares :
                apply_paper_fill(f, k, quantity)
    BY <2>3, FillStep
  <2>4. CASE \E k \in Keys : request_paper_cancel(k) \/ confirm_paper_cancel(k)
    BY <2>4, RequestStep, ConfirmStep DEF request_paper_cancel
  <2>5. CASE \E k \in Keys : request_paper_replace(k)
    BY <2>5, RequestStep DEF request_paper_replace
  <2>6. CASE \E k, c \in Keys : replace_paper_order(k, c)
    BY <2>6, ReplaceStep
  <2>7. CASE UNCHANGED vars
    BY <2>7 DEF vars, PaperInv, TypeOK, QuantitiesFit, ParentsAreDone, NoTwins
  <2> QED BY <2>1, <2>2, <2>3, <2>4, <2>5, <2>6, <2>7 DEF Next
<1> QED BY <1>1, <1>2, PTL DEF Spec

\* Type correctness of the simulator.
THEOREM PaperTypeCorrect == Spec => []TypeOK
<1>1. PaperInv => TypeOK
  BY DEF PaperInv
<1> QED BY <1>1, PaperInvariant, PTL

\* Quantities add up and statuses agree with them after every sequence of
\* creations, fills, late fills, cancels and replacements (apply_paper_fill,
\* confirm_paper_cancel, replace_paper_order).
THEOREM PaperQuantitiesFit == Spec => []QuantitiesFit
<1>1. PaperInv => QuantitiesFit
  BY DEF PaperInv
<1> QED BY <1>1, PaperInvariant, PTL

\* An order has at most one replacement and no remainder beside it
\* (replace_paper_order, _adjust_replacement_child_for_late_fill).
THEOREM PaperOneReplacement == Spec => []OneReplacement
<1> QED BY PaperInvImpliesOneReplacement, PaperInvariant, PTL
-----------------------------------------------------------------------------
(***************************************************************************)
(* Sums over finite sets.  Total(v, S) is the sum of the values v[x] for x *)
(* in S; the folds of the model are shown to be such sums below.           *)
(***************************************************************************)

\* The element a fold takes next, and the equations of its partial sums.
Pick(s) == CHOOSE x \in s : TRUE

Sums(g, v, S) ==
    \A s \in SUBSET S : g[s] = IF s = {} THEN 0 ELSE v[Pick(s)] + g[s \ {Pick(s)}]

IsSum(g, v, S) == g \in [SUBSET S -> Nat] /\ Sums(g, v, S)

SumFcn(v, S) == CHOOSE g : IsSum(g, v, S)
Total(v, S) == SumFcn(v, S)[S]

\* Induction over a finite set: a property that fails for some subset fails
\* for one all of whose proper subsets have it.
LEMMA MinimalSubset ==
    ASSUME NEW S, IsFiniteSet(S), NEW T, T \subseteq SUBSET S, T # {}
    PROVE  \E x \in T : \A y \in T : y \subseteq x => y = x
<1>1. IsWellFoundedOn(StrictSubsetOrdering(S), SUBSET S)
  BY FS_StrictSubsetOrderingWellFounded, FS_FiniteSubsetsOfFinite
<1>2. \E x \in T : \A y \in T : ~(<<y, x>> \in StrictSubsetOrdering(S))
  BY <1>1, WFMin
<1>3. PICK x \in T : \A y \in T : ~(<<y, x>> \in StrictSubsetOrdering(S))
  BY <1>2
<1>4. ASSUME NEW y \in T, y \subseteq x
      PROVE  y = x
  BY <1>3, <1>4 DEF StrictSubsetOrdering
<1>5. QED
  BY <1>4

LEMMA PickIn == ASSUME NEW s, s # {} PROVE Pick(s) \in s
BY DEF Pick

\* The recursive equations have at most one solution.
LEMMA SumUnique ==
    ASSUME NEW S, IsFiniteSet(S), NEW v, NEW U, NEW W, U \subseteq S, W \subseteq S,
           NEW g, NEW h, Sums(g, v, U), Sums(h, v, W)
    PROVE  \A s \in SUBSET (U \cap W) : g[s] = h[s]
<1> DEFINE Bad == {s \in SUBSET (U \cap W) : g[s] # h[s]}
<1>1. SUFFICES ASSUME Bad # {}
               PROVE  FALSE
  OBVIOUS
<1>2. Bad \subseteq SUBSET S
  OBVIOUS
<1>3. PICK s \in Bad : \A y \in Bad : y \subseteq s => y = s
  <2> HIDE DEF Bad
  <2>1. QED
    BY <1>1, <1>2, MinimalSubset
<1>4. s \in SUBSET U /\ s \in SUBSET W /\ g[s] # h[s]
  OBVIOUS
<1>5. s # {}
  BY <1>4 DEF Sums
<1>6. Pick(s) \in s
  BY <1>5, PickIn
<1>7. PICK r : r = s \ {Pick(s)}
  OBVIOUS
<1>8. r \in SUBSET U /\ r \in SUBSET W /\ r # s /\ r \subseteq s
  BY <1>4, <1>6, <1>7
<1>9. g[r] = h[r]
  BY <1>3, <1>8
<1>10. g[s] = v[Pick(s)] + g[r] /\ h[s] = v[Pick(s)] + h[r]
  BY <1>4, <1>5, <1>7 DEF Sums
<1>11. QED
  BY <1>4, <1>9, <1>10

\* And they have one.
LEMMA SumExists ==
    ASSUME NEW S, IsFiniteSet(S), NEW v, \A x \in S : v[x] \in Nat, NEW U, U \subseteq S
    PROVE  IsSum(SumFcn(v, U), v, U)
<1>0. ASSUME NEW W, NEW g, IsSum(g, v, W)
      PROVE  IsSum(SumFcn(v, W), v, W)
  BY <1>0 DEF SumFcn
<1> DEFINE Bad == {W \in SUBSET S : ~IsSum(SumFcn(v, W), v, W)}
<1>1. SUFFICES ASSUME Bad # {}
               PROVE  FALSE
  OBVIOUS
<1>2. PICK W \in Bad : \A y \in Bad : y \subseteq W => y = W
  <2>1. Bad \subseteq SUBSET S
    OBVIOUS
  <2> HIDE DEF Bad
  <2>2. QED
    BY <1>1, <2>1, MinimalSubset
<1>3. \A y \in SUBSET W : y # W => IsSum(SumFcn(v, y), v, y)
  BY <1>2
<1> DEFINE Less(s) == s \ {Pick(s)}
           g == [s \in SUBSET W |-> IF s = {} THEN 0 ELSE v[Pick(s)] + Total(v, Less(s))]
<1>4. ASSUME NEW s \in SUBSET W, s # {}
      PROVE  /\ Pick(s) \in s /\ Less(s) \in SUBSET W /\ Less(s) # W /\ Less(s) \subseteq S
             /\ v[Pick(s)] \in Nat /\ Total(v, Less(s)) \in Nat
  <2>1. Pick(s) \in s
    BY <1>4, PickIn
  <2>2. Less(s) \in SUBSET W /\ Less(s) # W /\ Less(s) \subseteq S
    BY <1>2, <1>4, <2>1
  <2>3. IsSum(SumFcn(v, Less(s)), v, Less(s))
    BY <1>3, <2>2
  <2>4. Total(v, Less(s)) \in Nat
    BY <2>3 DEF IsSum, Sums, Total
  <2>5. QED
    BY <1>2, <1>4, <2>1, <2>2, <2>4
<1>5. g \in [SUBSET W -> Nat]
  BY <1>4
<1>6. ASSUME NEW s \in SUBSET W, s # W
      PROVE  g[s] = Total(v, s)
  <2>1. IsSum(SumFcn(v, s), v, s)
    BY <1>3, <1>6
  <2>2. CASE s = {}
    <3>1. Total(v, s) = 0
      BY <2>1, <2>2 DEF IsSum, Sums, Total
    <3>2. QED
      BY <2>2, <3>1
  <2>3. CASE s # {}
    <3>1. Total(v, s) = v[Pick(s)] + SumFcn(v, s)[Less(s)]
      BY <2>1, <2>3 DEF IsSum, Sums, Total
    <3>2. IsSum(SumFcn(v, Less(s)), v, Less(s))
      BY <1>3, <1>4, <2>3
    <3>3. Less(s) \in SUBSET (s \cap Less(s)) /\ s \subseteq S
      BY <1>2
    <3>4. SumFcn(v, s)[Less(s)] = SumFcn(v, Less(s))[Less(s)]
      BY <1>4, <2>1, <2>3, <3>2, <3>3, SumUnique DEF IsSum
    <3>5. QED
      BY <2>3, <3>1, <3>4 DEF Total
  <2>4. QED
    BY <2>2, <2>3
<1>7. ASSUME NEW s \in SUBSET W
      PROVE  g[s] = IF s = {} THEN 0 ELSE v[Pick(s)] + g[Less(s)]
  BY <1>4, <1>6
<1>8. IsSum(g, v, W)
  <2> HIDE DEF g
  <2>1. QED
    BY <1>5, <1>7 DEF IsSum, Sums
<1>9. QED
  BY <1>0, <1>2, <1>8

LEMMA TotalStep ==
    ASSUME NEW S, IsFiniteSet(S), NEW v, \A x \in S : v[x] \in Nat, NEW W, W \subseteq S
    PROVE  /\ Total(v, W) \in Nat
           /\ W = {} => Total(v, W) = 0
           /\ W # {} => Total(v, W) = v[Pick(W)] + Total(v, W \ {Pick(W)})
<1>1. IsSum(SumFcn(v, W), v, W)
  BY SumExists
<1>2. PICK r : r = W \ {Pick(W)}
  OBVIOUS
<1>3. r \subseteq S /\ r \in SUBSET W
  BY <1>2
<1>4. IsSum(SumFcn(v, r), v, r)
  BY <1>3, SumExists
<1>5. SumFcn(v, W)[r] = SumFcn(v, r)[r]
  <2>1. r \in SUBSET (W \cap r)
    BY <1>3
  <2>2. QED
    BY <1>1, <1>3, <1>4, <2>1, SumUnique DEF IsSum
<1>6. QED
  BY <1>1, <1>2, <1>5 DEF IsSum, Sums, Total

\* Any element may be taken out of a sum, not only the one that is picked.
LEMMA TotalWithout ==
    ASSUME NEW S, IsFiniteSet(S), NEW v, \A x \in S : v[x] \in Nat,
           NEW W, W \subseteq S, NEW x \in W
    PROVE  Total(v, W) = v[x] + Total(v, W \ {x})
<1> DEFINE Bad == {U \in SUBSET S : \E y \in U : Total(v, U) # v[y] + Total(v, U \ {y})}
<1>1. SUFFICES ASSUME Bad # {}
               PROVE  FALSE
  OBVIOUS
<1>2. PICK U \in Bad : \A y \in Bad : y \subseteq U => y = U
  <2>1. Bad \subseteq SUBSET S
    OBVIOUS
  <2> HIDE DEF Bad
  <2>2. QED
    BY <1>1, <2>1, MinimalSubset
<1>3. PICK y \in U : Total(v, U) # v[y] + Total(v, U \ {y})
  BY <1>2
<1>4. PICK z : z = Pick(U)
  OBVIOUS
<1>5. U \subseteq S /\ z \in U /\ Total(v, U) = v[z] + Total(v, U \ {z})
  BY <1>2, <1>3, <1>4, PickIn, TotalStep
<1>6. z # y
  BY <1>3, <1>5
<1>7. Total(v, U \ {z}) = v[y] + Total(v, (U \ {z}) \ {y})
  <2>1. U \ {z} \notin Bad /\ U \ {z} \in SUBSET S /\ y \in U \ {z}
    BY <1>2, <1>3, <1>5, <1>6
  <2>2. QED
    BY <2>1
<1>8. Total(v, U \ {y}) = v[z] + Total(v, (U \ {y}) \ {z})
  <2>1. U \ {y} \notin Bad /\ U \ {y} \in SUBSET S /\ z \in U \ {y}
    BY <1>2, <1>3, <1>5, <1>6
  <2>2. QED
    BY <2>1
<1>9. (U \ {y}) \ {z} = (U \ {z}) \ {y}
  OBVIOUS
<1>10. PICK rest : rest = Total(v, (U \ {y}) \ {z})
  OBVIOUS
<1>11. rest \in Nat /\ v[y] \in Nat /\ v[z] \in Nat
  <2>1. (U \ {y}) \ {z} \subseteq S
    BY <1>5
  <2>2. rest \in Nat
    BY <1>10, <2>1, TotalStep
  <2>3. QED
    BY <1>3, <1>5, <2>2
<1>12. PICK a \in Nat, b \in Nat : a = v[y] /\ b = v[z]
  BY <1>11
<1>13. Total(v, U) = b + (a + rest) /\ Total(v, U \ {y}) = b + rest
  BY <1>5, <1>7, <1>8, <1>9, <1>10, <1>12
<1>14. QED
  BY <1>3, <1>11, <1>12, <1>13

\* A sum depends on the values of its elements only.
LEMMA TotalSame ==
    ASSUME NEW S, IsFiniteSet(S), NEW v, \A x \in S : v[x] \in Nat,
           NEW u, \A x \in S : u[x] = v[x]
    PROVE  Total(u, S) = Total(v, S)
<1> DEFINE Bad == {W \in SUBSET S : Total(u, W) # Total(v, W)}
<1>1. SUFFICES ASSUME Bad # {}
               PROVE  FALSE
  OBVIOUS
<1>2. PICK W \in Bad : \A y \in Bad : y \subseteq W => y = W
  <2>1. Bad \subseteq SUBSET S
    OBVIOUS
  <2> HIDE DEF Bad
  <2>2. QED
    BY <1>1, <2>1, MinimalSubset
<1>3. W \subseteq S /\ Total(u, W) # Total(v, W) /\ \A x \in S : u[x] \in Nat
  BY <1>2
<1>4. W # {}
  BY <1>3, TotalStep
<1>5. /\ Pick(W) \in W
      /\ Total(u, W) = u[Pick(W)] + Total(u, W \ {Pick(W)})
      /\ Total(v, W) = v[Pick(W)] + Total(v, W \ {Pick(W)})
  BY <1>3, <1>4, PickIn, TotalStep
<1>6. PICK r : r = W \ {Pick(W)}
  OBVIOUS
<1>7. r \in SUBSET S /\ r \subseteq W /\ r # W
  BY <1>3, <1>5, <1>6
<1>8. Total(u, r) = Total(v, r)
  BY <1>2, <1>7
<1>9. QED
  BY <1>3, <1>5, <1>6, <1>8

\* Elements of value 0 do not matter.
LEMMA TotalOfPart ==
    ASSUME NEW S, IsFiniteSet(S), NEW v, \A x \in S : v[x] \in Nat,
           NEW W, W \subseteq S, \A x \in S \ W : v[x] = 0
    PROVE  Total(v, W) = Total(v, S)
<1> DEFINE Bad == {U \in SUBSET S : W \subseteq U /\ Total(v, U) # Total(v, W)}
<1>1. SUFFICES ASSUME Bad # {}
               PROVE  FALSE
  OBVIOUS
<1>2. PICK U \in Bad : \A y \in Bad : y \subseteq U => y = U
  <2>1. Bad \subseteq SUBSET S
    OBVIOUS
  <2> HIDE DEF Bad
  <2>2. QED
    BY <1>1, <2>1, MinimalSubset
<1>3. U \subseteq S /\ W \subseteq U /\ Total(v, U) # Total(v, W)
  BY <1>2
<1>4. PICK x \in U : x \notin W
  BY <1>3
<1>5. PICK rest : rest = U \ {x}
  OBVIOUS
<1>6. rest \in SUBSET S /\ W \subseteq rest /\ rest \subseteq U /\ rest # U
  BY <1>3, <1>4, <1>5
<1>7. Total(v, rest) = Total(v, W)
  BY <1>2, <1>6
<1>8. Total(v, U) = v[x] + Total(v, rest) /\ v[x] = 0
  BY <1>3, <1>4, <1>5, TotalWithout
<1>9. Total(v, rest) \in Nat
  BY <1>6, TotalStep
<1>10. QED
  BY <1>3, <1>7, <1>8, <1>9

\* One value changes, and the sum by as much.
LEMMA TotalChange ==
    ASSUME NEW S, IsFiniteSet(S), NEW u, NEW v, \A y \in S : u[y] \in Nat /\ v[y] \in Nat,
           NEW x \in S, \A y \in S \ {x} : u[y] = v[y]
    PROVE  Total(u, S) \in Nat /\ Total(v, S) \in Nat /\ Total(u, S) + v[x] = Total(v, S) + u[x]
<1>1. PICK rest : rest = S \ {x}
  OBVIOUS
<1>2. rest \subseteq S /\ IsFiniteSet(rest)
  BY <1>1, FS_Subset
<1>3. Total(u, rest) = Total(v, rest)
  BY <1>1, <1>2, TotalSame
<1>4. Total(v, rest) \in Nat /\ Total(u, S) \in Nat /\ Total(v, S) \in Nat
  BY <1>2, TotalStep
<1>5. Total(u, S) = u[x] + Total(u, rest) /\ Total(v, S) = v[x] + Total(v, rest)
  BY <1>1, TotalWithout
<1>6. PICK a \in Nat, b \in Nat : a = u[x] /\ b = v[x]
  OBVIOUS
<1>7. QED
  BY <1>3, <1>4, <1>5, <1>6

\* The solution that a fold picks is such a sum too.
LEMMA SolutionIsTotal ==
    ASSUME NEW S, IsFiniteSet(S), NEW v, \A x \in S : v[x] \in Nat, NEW g, Sums(g, v, S)
    PROVE  g[S] = Total(v, S)
<1>1. IsSum(SumFcn(v, S), v, S)
  BY SumExists
<1>2. S \in SUBSET (S \cap S)
  OBVIOUS
<1>3. QED
  BY <1>1, <1>2, SumUnique DEF IsSum, Total

-----------------------------------------------------------------------------
\* The folds of the paper broker are totals.  The argument is the same for each;
\* it cannot be made once, since the value that is summed is an operator.
LEMMA RemainingIsTotal ==
    ASSUME NEW S, IsFiniteSet(S), NEW v, \A x \in S : v[x] \in Nat /\ v[x] = row[x].remaining
    PROVE  MapThenSumSet(LAMBDA x : row[x].remaining, S) = Total(v, S)
<1> DEFINE Body(g) == [s \in SUBSET S |-> IF s = {} THEN 0
                          ELSE LET x == CHOOSE x \in s : TRUE
                               IN  row[x].remaining + g[s \ {x}]]
           Sum == CHOOSE g : g = Body(g)
<1>1. MapThenSumSet(LAMBDA x : row[x].remaining, S) = Sum[S]
  BY Zenon DEF MapThenSumSet, MapThenFoldSet
<1>2. ASSUME NEW s \in SUBSET S, s # {}
      PROVE  v[Pick(s)] = row[CHOOSE x \in s : TRUE].remaining
  BY <1>2, PickIn DEF Pick
<1>3. PICK g : g = SumFcn(v, S)
  OBVIOUS
<1>4. g \in [SUBSET S -> Nat] /\ Sums(g, v, S)
  BY <1>3, SumExists DEF IsSum
<1>5. g = Body(g)
  <2>1. ASSUME NEW s \in SUBSET S
        PROVE  g[s] = Body(g)[s]
    BY <1>2, <1>4 DEF Sums, Pick
  <2>2. QED
    BY <1>4, <2>1
<1>6. Sum = Body(Sum)
  <2> HIDE DEF Body
  <2>1. QED
    BY <1>5, Zenon
<1>7. PICK h : h = Sum
  OBVIOUS
<1>8. h = Body(h)
  <2> HIDE DEF Body, Sum
  <2>1. QED
    BY <1>6, <1>7, Zenon
<1>9. Sums(h, v, S)
  BY <1>2, <1>8 DEF Sums, Pick
<1> HIDE DEF Sum
<1>10. QED
  BY <1>1, <1>7, <1>9, SolutionIsTotal

LEMMA QuantityIsTotal ==
    ASSUME NEW S, IsFiniteSet(S), NEW v, \A x \in S : v[x] \in Nat /\ v[x] = fill[x].quantity
    PROVE  MapThenSumSet(LAMBDA x : fill[x].quantity, S) = Total(v, S)
<1> DEFINE Body(g) == [s \in SUBSET S |-> IF s = {} THEN 0
                          ELSE LET x == CHOOSE x \in s : TRUE
                               IN  fill[x].quantity + g[s \ {x}]]
           Sum == CHOOSE g : g = Body(g)
<1>1. MapThenSumSet(LAMBDA x : fill[x].quantity, S) = Sum[S]
  BY Zenon DEF MapThenSumSet, MapThenFoldSet
<1>2. ASSUME NEW s \in SUBSET S, s # {}
      PROVE  v[Pick(s)] = fill[CHOOSE x \in s : TRUE].quantity
  BY <1>2, PickIn DEF Pick
<1>3. PICK g : g = SumFcn(v, S)
  OBVIOUS
<1>4. g \in [SUBSET S -> Nat] /\ Sums(g, v, S)
  BY <1>3, SumExists DEF IsSum
<1>5. g = Body(g)
  <2>1. ASSUME NEW s \in SUBSET S
        PROVE  g[s] = Body(g)[s]
    BY <1>2, <1>4 DEF Sums, Pick
  <2>2. QED
    BY <1>4, <2>1
<1>6. Sum = Body(Sum)
  <2> HIDE DEF Body
  <2>1. QED
    BY <1>5, Zenon
<1>7. PICK h : h = Sum
  OBVIOUS
<1>8. h = Body(h)
  <2> HIDE DEF Body, Sum
  <2>1. QED
    BY <1>6, <1>7, Zenon
<1>9. Sums(h, v, S)
  BY <1>2, <1>8 DEF Sums, Pick
<1> HIDE DEF Sum
<1>10. QED
  BY <1>1, <1>7, <1>9, SolutionIsTotal

LEMMA FillsIsTotal ==
    ASSUME NEW S, IsFiniteSet(S), NEW v, \A x \in S : v[x] \in Nat /\ v[x] = FillsOf(x)
    PROVE  MapThenSumSet(FillsOf, S) = Total(v, S)
<1> DEFINE Body(g) == [s \in SUBSET S |-> IF s = {} THEN 0
                          ELSE LET x == CHOOSE x \in s : TRUE
                               IN  FillsOf(x) + g[s \ {x}]]
           Sum == CHOOSE g : g = Body(g)
<1>1. MapThenSumSet(FillsOf, S) = Sum[S]
  BY Zenon DEF MapThenSumSet, MapThenFoldSet
<1>2. ASSUME NEW s \in SUBSET S, s # {}
      PROVE  v[Pick(s)] = FillsOf(CHOOSE x \in s : TRUE)
  BY <1>2, PickIn DEF Pick
<1>3. PICK g : g = SumFcn(v, S)
  OBVIOUS
<1>4. g \in [SUBSET S -> Nat] /\ Sums(g, v, S)
  BY <1>3, SumExists DEF IsSum
<1>5. g = Body(g)
  <2>1. ASSUME NEW s \in SUBSET S
        PROVE  g[s] = Body(g)[s]
    BY <1>2, <1>4 DEF Sums, Pick
  <2>2. QED
    BY <1>4, <2>1
<1>6. Sum = Body(Sum)
  <2> HIDE DEF Body
  <2>1. QED
    BY <1>5, Zenon
<1>7. PICK h : h = Sum
  OBVIOUS
<1>8. h = Body(h)
  <2> HIDE DEF Body, Sum
  <2>1. QED
    BY <1>6, <1>7, Zenon
<1>9. Sums(h, v, S)
  BY <1>2, <1>8 DEF Sums, Pick
<1> HIDE DEF Sum
<1>10. QED
  BY <1>1, <1>7, <1>9, SolutionIsTotal

-----------------------------------------------------------------------------
(***************************************************************************)
(* What the sums are over: the fills of an order, the filled shares of the *)
(* orders of a symbol and a side, and what the orders of a symbol reserve. *)
(***************************************************************************)
Booked(k) == [f \in FillKeys |-> IF fill[f].order = k THEN fill[f].quantity ELSE 0]
Moved(s, side) ==
    [k \in Keys |-> IF row[k].symbol = s /\ row[k].side = side THEN row[k].filled ELSE 0]
Reserves(r, s) == r.symbol = s /\ r.side = "SELL" /\ r.status \in ActiveSellStates
Held(s) == [k \in Keys |-> IF Reserves(row[k], s) THEN row[k].remaining ELSE 0]

\* The order rows and the fills agree, and a position with the order rows;
\* a row without an order has no shares, and an order the symbol and the side
\* of the one it replaced, or a late fill would move another position than
\* the one its replacement reserves.
Counted == \A k \in Keys : row[k].filled = Total(Booked(k), FillKeys)
Balanced ==
    \A s \in Symbols :
        position[s] + Total(Moved(s, "SELL"), Keys) = Total(Moved(s, "BUY"), Keys)
Covered == ~unreserved => \A s \in Symbols : Total(Held(s), Keys) <= position[s]
AbsentIsEmpty == \A k \in Keys : row[k].status = "ABSENT" => row[k].filled = 0 /\ row[k].remaining = 0
LikeParent ==
    \A c \in Keys : row[c].parent # NoKey =>
        /\ row[c].symbol = row[row[c].parent].symbol
        /\ row[c].side = row[row[c].parent].side

SumInv == PaperInv /\ Counted /\ Balanced /\ Covered /\ AbsentIsEmpty /\ LikeParent

LEMMA FillsOfTotal ==
    ASSUME TypeOK, NEW k \in Keys
    PROVE  FillsOf(k) = Total(Booked(k), FillKeys)
<1>1. PICK v : v = Booked(k)
  OBVIOUS
<1>2. \A f \in FillKeys : v[f] \in Nat /\ v[f] = IF fill[f].order = k THEN fill[f].quantity ELSE 0
  BY <1>1 DEF Booked, TypeOK, Fill
<1>3. PICK S : S = {f \in FillKeys : fill[f].order = k}
  OBVIOUS
<1>4. S \subseteq FillKeys /\ IsFiniteSet(S)
  BY <1>3, FS_Subset
<1>5. \A x \in S : v[x] \in Nat /\ v[x] = fill[x].quantity
  BY <1>2, <1>3
<1>6. \A x \in FillKeys \ S : v[x] = 0
  BY <1>2, <1>3
<1>7. MapThenSumSet(LAMBDA x : fill[x].quantity, S) = Total(v, S)
  BY <1>4, <1>5, QuantityIsTotal, Zenon
<1>8. Total(v, S) = Total(v, FillKeys)
  BY <1>2, <1>4, <1>6, TotalOfPart
<1>9. FillsOf(k) = MapThenSumSet(LAMBDA x : fill[x].quantity, S)
  BY <1>3, Zenon DEF FillsOf
<1>10. QED
  BY <1>1, <1>7, <1>8, <1>9

LEMMA TradedTotal ==
    ASSUME TypeOK, Counted, NEW s \in Symbols, NEW side \in {"BUY", "SELL"}
    PROVE  Traded(s, side) = Total(Moved(s, side), Keys)
<1>1. PICK v : v = Moved(s, side)
  OBVIOUS
<1>2. PICK S : S = {k \in Keys : row[k].symbol = s /\ row[k].side = side}
  OBVIOUS
<1>3. S \subseteq Keys /\ IsFiniteSet(S)
  BY <1>2, FS_Subset
<1>4. \A k \in Keys : v[k] \in Nat /\ v[k] = IF k \in S THEN row[k].filled ELSE 0
  BY <1>1, <1>2 DEF Moved, TypeOK, Row
<1>5. \A k \in Keys : row[k].filled = FillsOf(k)
  BY FillsOfTotal DEF Counted
<1>6. \A x \in S : v[x] \in Nat /\ v[x] = FillsOf(x)
  BY <1>3, <1>4, <1>5
<1>7. MapThenSumSet(FillsOf, S) = Total(v, S)
  BY <1>3, <1>6, FillsIsTotal
<1>8. Total(v, S) = Total(v, Keys)
  BY <1>3, <1>4, TotalOfPart
<1>9. Traded(s, side) = MapThenSumSet(FillsOf, S)
  BY <1>2, Zenon DEF Traded
<1>10. QED
  BY <1>1, <1>7, <1>8, <1>9

LEMMA ReservedTotal ==
    ASSUME TypeOK, NEW s \in Symbols
    PROVE  Reserved(s) = Total(Held(s), Keys)
<1>1. PICK v : v = Held(s)
  OBVIOUS
<1>2. PICK S : S = {k \in Keys : /\ row[k].symbol = s
                                 /\ row[k].side = "SELL"
                                 /\ row[k].status \in ActiveSellStates}
  OBVIOUS
<1>3. S \subseteq Keys /\ IsFiniteSet(S)
  BY <1>2, FS_Subset
<1>4. \A k \in Keys : v[k] \in Nat /\ v[k] = IF k \in S THEN row[k].remaining ELSE 0
  BY <1>1, <1>2 DEF Held, Reserves, TypeOK, Row
<1>5. MapThenSumSet(LAMBDA x : row[x].remaining, S) = Total(v, S)
  <2>1. \A x \in S : v[x] \in Nat /\ v[x] = row[x].remaining
    BY <1>3, <1>4
  <2>2. QED
    BY <1>3, <2>1, RemainingIsTotal, Zenon
<1>6. Total(v, S) = Total(v, Keys)
  BY <1>3, <1>4, TotalOfPart
<1>7. Reserved(s) = MapThenSumSet(LAMBDA x : row[x].remaining, S)
  BY <1>2, Zenon DEF Reserved
<1>8. QED
  BY <1>1, <1>5, <1>6, <1>7

LEMMA SumInvImplies == SumInv => FillsAreCounted /\ ReservedIsCovered
<1> SUFFICES ASSUME SumInv PROVE FillsAreCounted /\ ReservedIsCovered
  OBVIOUS
<1>1. TypeOK /\ Counted /\ Balanced /\ Covered
  BY DEF SumInv, PaperInv
<1>2. \A k \in Keys : row[k].filled = FillsOf(k)
  BY <1>1, FillsOfTotal DEF Counted
<1>3. \A s \in Symbols : position[s] + Traded(s, "SELL") = Traded(s, "BUY")
  BY <1>1, TradedTotal DEF Balanced
<1>4. ReservedIsCovered
  BY <1>1, ReservedTotal DEF Covered, ReservedIsCovered
<1>5. QED
  BY <1>2, <1>3, <1>4 DEF FillsAreCounted
-----------------------------------------------------------------------------
\* The values are natural numbers, before and after a step.
LEMMA Values ==
    ASSUME TypeOK
    PROVE  /\ \A k \in Keys, f \in FillKeys : Booked(k)[f] \in Nat
           /\ \A s \in Symbols, side \in {"BUY", "SELL"}, k \in Keys : Moved(s, side)[k] \in Nat
           /\ \A s \in Symbols, k \in Keys : Held(s)[k] \in Nat
  BY DEF TypeOK, Row, Fill, Booked, Moved, Held

LEMMA ValuesNext ==
    ASSUME TypeOK'
    PROVE  /\ \A k \in Keys, f \in FillKeys : Booked(k)'[f] \in Nat
           /\ \A s \in Symbols, side \in {"BUY", "SELL"}, k \in Keys : Moved(s, side)'[k] \in Nat
           /\ \A s \in Symbols, k \in Keys : Held(s)'[k] \in Nat
  BY DEF TypeOK, Row, Fill, Booked, Moved, Held

\* A step that books no fill and leaves every filled share where it is.
QuietStep ==
    /\ UNCHANGED <<fill, position>>
    /\ \A k \in Keys :
          /\ row'[k].filled = row[k].filled
          /\ row[k].status # "ABSENT" =>
                 row'[k].symbol = row[k].symbol /\ row'[k].side = row[k].side

LEMMA QuietSums ==
    ASSUME SumInv, QuietStep, PaperInv'
    PROVE  Counted' /\ Balanced'
<1>1. \A k \in Keys : Booked(k)' = Booked(k)
  BY DEF QuietStep, Booked
<1>2. Counted'
  BY <1>1 DEF SumInv, Counted, QuietStep
<1>3. \A s \in Symbols, side \in {"BUY", "SELL"} : Moved(s, side)' = Moved(s, side)
  <2> SUFFICES ASSUME NEW s \in Symbols, NEW side \in {"BUY", "SELL"}, NEW k \in Keys
               PROVE  /\ (row'[k].symbol = s /\ row'[k].side = side) /\ row'[k].filled # 0
                            <=> (row[k].symbol = s /\ row[k].side = side) /\ row[k].filled # 0
                      /\ row'[k].filled = row[k].filled
    BY DEF Moved
  <2> QED BY DEF SumInv, AbsentIsEmpty, QuietStep
<1>4. Balanced'
  BY <1>3 DEF SumInv, Balanced, QuietStep
<1>5. QED
  BY <1>2, <1>4

\* A value moves from one element to another.
LEMMA TotalMove ==
    ASSUME NEW S, IsFiniteSet(S), NEW u, NEW v, \A y \in S : u[y] \in Nat /\ v[y] \in Nat,
           NEW a \in S, NEW b \in S, a # b, \A y \in S \ {a, b} : u[y] = v[y],
           v[b] = 0, u[a] = 0, u[b] = v[a]
    PROVE  Total(u, S) = Total(v, S)
<1>1. PICK w : w = [y \in S |-> IF y = a THEN 0 ELSE v[y]]
  OBVIOUS
<1>2. \A y \in S : w[y] \in Nat /\ w[y] = IF y = a THEN 0 ELSE v[y]
  BY <1>1
<1>3. Total(w, S) \in Nat /\ Total(v, S) \in Nat /\ Total(w, S) + v[a] = Total(v, S) + w[a]
  <2>1. \A y \in S \ {a} : w[y] = v[y]
    BY <1>2
  <2> QED BY <1>2, <2>1, TotalChange
<1>4. Total(u, S) \in Nat /\ Total(u, S) + w[b] = Total(w, S) + u[b]
  <2>1. \A y \in S \ {b} : u[y] = w[y]
    BY <1>2
  <2> QED BY <1>2, <2>1, TotalChange
<1>5. w[a] = 0 /\ w[b] = 0
  BY <1>2
<1>6. PICK n \in Nat : n = v[a]
  OBVIOUS
<1>7. QED
  BY <1>3, <1>4, <1>5, <1>6

\* What the reservations of a symbol come to when they change at one order.
LEMMA HeldChange ==
    ASSUME TypeOK, TypeOK', NEW s \in Symbols, NEW c \in Keys,
           \A k \in Keys \ {c} : Held(s)'[k] = Held(s)[k]
    PROVE  /\ Total(Held(s), Keys) \in Nat /\ Total(Held(s)', Keys) \in Nat
           /\ Held(s)[c] \in Nat /\ Held(s)'[c] \in Nat
           /\ Total(Held(s)', Keys) + Held(s)[c] = Total(Held(s), Keys) + Held(s)'[c]
<1>1. PICK u, v : u = Held(s)' /\ v = Held(s)
  OBVIOUS
<1>2. \A y \in Keys : u[y] \in Nat /\ v[y] \in Nat
  BY <1>1, Values, ValuesNext
<1>3. \A y \in Keys \ {c} : u[y] = v[y]
  BY <1>1
<1>4. Total(u, Keys) \in Nat /\ Total(v, Keys) \in Nat /\ Total(u, Keys) + v[c] = Total(v, Keys) + u[c]
  BY <1>2, <1>3, TotalChange
<1>5. QED
  BY <1>1, <1>2, <1>4

LEMMA HeldAt ==
    ASSUME TypeOK, TypeOK', NEW s \in Symbols, NEW k \in Keys
    PROVE  /\ Held(s)[k] = IF Reserves(row[k], s) THEN row[k].remaining ELSE 0
           /\ Held(s)'[k] = IF Reserves(row'[k], s) THEN row'[k].remaining ELSE 0
  BY DEF Held, Reserves

\* A step that leaves the positions and does not raise what one order
\* reserves keeps the positions covered.
LEMMA CoveredStep ==
    ASSUME SumInv, TypeOK', UNCHANGED <<position, unreserved>>, NEW c \in Keys,
           \A k \in Keys \ {c} : row'[k] = row[k],
           \A s \in Symbols : Held(s)'[c] <= Held(s)[c]
    PROVE  Covered'
<1> SUFFICES ASSUME ~unreserved, NEW s \in Symbols
             PROVE  Total(Held(s)', Keys) <= position[s]
  BY DEF Covered
<1>1. TypeOK
  BY DEF SumInv, PaperInv
<1>2. \A k \in Keys \ {c} : Held(s)'[k] = Held(s)[k]
  BY <1>1, HeldAt
<1>3. Total(Held(s), Keys) <= position[s] /\ position[s] \in Nat
  BY <1>1 DEF SumInv, Covered, TypeOK
<1>4. PICK a, b, m, n : a = Total(Held(s), Keys) /\ b = Total(Held(s)', Keys)
                        /\ m = Held(s)[c] /\ n = Held(s)'[c]
  OBVIOUS
<1>5. a \in Nat /\ b \in Nat /\ m \in Nat /\ n \in Nat /\ b + m = a + n /\ n <= m
  BY <1>1, <1>2, <1>4, HeldChange
<1>6. QED
  BY <1>3, <1>4, <1>5

-----------------------------------------------------------------------------
\* One lemma per operation again.
LEMMA CreateSums ==
    ASSUME SumInv, NEW k \in Keys, NEW s \in Symbols, NEW side \in {"BUY", "SELL"},
           NEW quantity \in 1..Shares, create_paper_order(k, s, side, quantity), PaperInv'
    PROVE  SumInv'
<1>0. TypeOK /\ TypeOK' /\ row \in [Keys -> Row] /\ position \in [Symbols -> Nat]
  BY DEF SumInv, PaperInv, TypeOK
<1>1. PICK status \in {"OPEN", "UNKNOWN"} :
        row' = [row EXCEPT ![k] = NewRow(status, s, side, NoKey, quantity)]
  BY DEF create_paper_order
<1>2. /\ row'[k].status = status /\ row'[k].symbol = s /\ row'[k].side = side
      /\ row'[k].parent = NoKey /\ row'[k].filled = 0 /\ row'[k].remaining = quantity
      /\ row[k].status = "ABSENT" /\ row[k].filled = 0
      /\ \A d \in Keys \ {k} : row'[d] = row[d]
  BY <1>0, <1>1 DEF NewRow, create_paper_order, Exists, SumInv, AbsentIsEmpty
<1>3. UNCHANGED <<fill, position, unreserved>>
  BY DEF create_paper_order
<1>4. QuietStep
  BY <1>2, <1>3 DEF QuietStep
<1>5. Counted' /\ Balanced'
  BY <1>4, QuietSums
<1>6. AbsentIsEmpty'
  BY <1>2 DEF SumInv, AbsentIsEmpty
<1>7. LikeParent'
  <2> SUFFICES ASSUME NEW c \in Keys, row'[c].parent # NoKey
               PROVE  /\ row'[c].symbol = row'[row'[c].parent].symbol
                      /\ row'[c].side = row'[row'[c].parent].side
    BY DEF LikeParent
  <2>1. c # k /\ row'[c] = row[c]
    BY <1>2
  <2>2. row[c].parent \in Keys /\ row[c].parent # k
    BY <1>0, <1>2, <2>1 DEF SumInv, PaperInv, ParentsAreDone, Done, Row
  <2> QED BY <1>2, <2>1, <2>2 DEF SumInv, LikeParent
<1>8. Covered'
  <2> SUFFICES ASSUME ~unreserved, NEW t \in Symbols
               PROVE  Total(Held(t)', Keys) <= position[t]
    BY <1>3 DEF Covered
  <2>1. \A d \in Keys \ {k} : Held(t)'[d] = Held(t)[d]
    BY <1>0, <1>2, HeldAt
  <2>2. Held(t)[k] = 0
    BY <1>0, <1>2, HeldAt DEF Reserves, ActiveSellStates, LockStates
  <2>3. Held(t)'[k] = IF t = s /\ side = "SELL" THEN quantity ELSE 0
    BY <1>0, <1>2, HeldAt DEF Reserves, ActiveSellStates, LockStates
  <2>4. t = s /\ side = "SELL" => Total(Held(t), Keys) + quantity <= position[t]
    BY <1>0, ReservedTotal DEF create_paper_order, _validate_request, SellCovered
  <2>5. Total(Held(t), Keys) <= position[t]
    BY DEF SumInv, Covered
  <2>6. PICK a, b : a = Total(Held(t), Keys) /\ b = Total(Held(t)', Keys)
    OBVIOUS
  <2>7. a \in Nat /\ b \in Nat /\ b + 0 = a + Held(t)'[k]
    BY <1>0, <2>1, <2>2, <2>6, HeldChange
  <2>8. CASE t = s /\ side = "SELL"
    BY <2>3, <2>4, <2>6, <2>7, <2>8
  <2>9. CASE ~(t = s /\ side = "SELL")
    BY <2>3, <2>5, <2>6, <2>7, <2>9
  <2> QED BY <2>8, <2>9
<1> QED BY <1>5, <1>6, <1>7, <1>8 DEF SumInv

\* The steps that change one order and leave its symbol, side, parent and
\* filled shares.
LEMMA OneOrderSums ==
    ASSUME SumInv, PaperInv', UNCHANGED <<fill, position, unreserved>>, NEW k \in Keys,
           \A d \in Keys \ {k} : row'[d] = row[d],
           row[k].status # "ABSENT", row'[k].status # "ABSENT",
           row'[k].symbol = row[k].symbol, row'[k].side = row[k].side,
           row'[k].parent = row[k].parent, row'[k].filled = row[k].filled,
           row[k].status \in ActiveSellStates, row'[k].remaining <= row[k].remaining
    PROVE  SumInv'
<1>0. TypeOK /\ TypeOK' /\ row \in [Keys -> Row]
  BY DEF SumInv, PaperInv, TypeOK
<1>1. Counted' /\ Balanced'
  BY QuietSums DEF QuietStep
<1>2. AbsentIsEmpty'
  BY DEF SumInv, AbsentIsEmpty
<1>3. \A d \in Keys : /\ row'[d].symbol = row[d].symbol /\ row'[d].side = row[d].side
                      /\ row'[d].parent = row[d].parent
  OBVIOUS
<1>4. LikeParent'
  BY <1>0, <1>3 DEF SumInv, LikeParent, Row
<1>5. \A s \in Symbols : Held(s)'[k] <= Held(s)[k]
  <2> SUFFICES ASSUME NEW s \in Symbols PROVE Held(s)'[k] <= Held(s)[k]
    OBVIOUS
  <2>1. Reserves(row'[k], s) => Reserves(row[k], s)
    BY DEF Reserves
  <2>2. Held(s)[k] \in Nat
    BY <1>0, Values
  <2> QED BY <1>0, <2>1, <2>2, HeldAt
<1>6. Covered'
  BY <1>0, <1>5, CoveredStep
<1> QED BY <1>1, <1>2, <1>4, <1>6 DEF SumInv

LEMMA RequestSums ==
    ASSUME SumInv, NEW k \in Keys, NEW status \in {"CANCEL_PENDING", "REPLACE_PENDING"},
           Requested(k, status), PaperInv'
    PROVE  SumInv'
<1>0. row[k] \in Row /\ row \in [Keys -> Row]
  BY DEF SumInv, PaperInv, TypeOK
<1>1. /\ row'[k] = [row[k] EXCEPT !.status = status]
      /\ \A d \in Keys \ {k} : row'[d] = row[d]
      /\ UNCHANGED <<fill, position, unreserved>>
      /\ row[k].status \in {"OPEN", "PARTIALLY_FILLED"}
  BY <1>0 DEF Requested
<1>2. /\ row'[k].status = status
      /\ row'[k].symbol = row[k].symbol /\ row'[k].side = row[k].side
      /\ row'[k].parent = row[k].parent /\ row'[k].filled = row[k].filled
      /\ row'[k].remaining = row[k].remaining /\ row[k].remaining \in Nat
  BY <1>0, <1>1 DEF Row
<1>3. row[k].status \in ActiveSellStates
  BY <1>1 DEF ActiveSellStates
<1>4. row'[k].remaining <= row[k].remaining
  BY <1>2
<1> QED BY <1>1, <1>2, <1>3, <1>4, OneOrderSums

LEMMA ConfirmSums ==
    ASSUME SumInv, NEW k \in Keys, confirm_paper_cancel(k), PaperInv'
    PROVE  SumInv'
<1>0. row[k] \in Row /\ row \in [Keys -> Row]
  BY DEF SumInv, PaperInv, TypeOK
<1>1. /\ row'[k] = Cancelled(row[k])
      /\ \A d \in Keys \ {k} : row'[d] = row[d]
      /\ UNCHANGED <<fill, position, unreserved>>
      /\ row[k].status = "CANCEL_PENDING"
  BY <1>0 DEF confirm_paper_cancel
<1>2. /\ row'[k].status = "CANCELLED"
      /\ row'[k].symbol = row[k].symbol /\ row'[k].side = row[k].side
      /\ row'[k].parent = row[k].parent /\ row'[k].filled = row[k].filled
      /\ row'[k].remaining = 0 /\ row[k].remaining \in Nat
  BY <1>0, <1>1 DEF Row, Cancelled
<1>3. row[k].status \in ActiveSellStates
  BY <1>1 DEF ActiveSellStates
<1>4. row'[k].remaining <= row[k].remaining
  BY <1>2
<1> QED BY <1>1, <1>2, <1>3, <1>4, OneOrderSums

LEMMA ReplaceSums ==
    ASSUME SumInv, NEW k \in Keys, NEW c \in Keys, replace_paper_order(k, c), PaperInv'
    PROVE  SumInv'
<1>0. TypeOK /\ TypeOK' /\ row \in [Keys -> Row] /\ row[k] \in Row
  BY DEF SumInv, PaperInv, TypeOK
<1>1. k # c /\ row[c].status = "ABSENT" /\ row[k].status = "REPLACE_PENDING"
  BY DEF replace_paper_order, Exists
<1>2. /\ row'[k] = Replaced(row[k])
      /\ row'[c] = NewRow("OPEN", row[k].symbol, row[k].side, k, row[k].remaining)
      /\ \A d \in Keys \ {k, c} : row'[d] = row[d]
      /\ UNCHANGED <<fill, position, unreserved>>
  BY <1>0, <1>1 DEF replace_paper_order
<1>3. /\ row'[k].status = "REPLACED"
      /\ row'[k].symbol = row[k].symbol /\ row'[k].side = row[k].side
      /\ row'[k].parent = row[k].parent /\ row'[k].filled = row[k].filled
      /\ row'[k].remaining = 0
  BY <1>0, <1>2 DEF Row, Replaced
<1>4. /\ row'[c].status = "OPEN"
      /\ row'[c].symbol = row[k].symbol /\ row'[c].side = row[k].side
      /\ row'[c].parent = k /\ row'[c].filled = 0
      /\ row'[c].remaining = row[k].remaining /\ row[c].filled = 0
  BY <1>1, <1>2 DEF NewRow, SumInv, AbsentIsEmpty
<1>5. Counted' /\ Balanced'
  <2>1. QuietStep
    BY <1>1, <1>2, <1>3, <1>4 DEF QuietStep
  <2> QED BY <2>1, QuietSums
<1>6. AbsentIsEmpty'
  BY <1>2, <1>3, <1>4 DEF SumInv, AbsentIsEmpty
<1>7. LikeParent'
  <2> SUFFICES ASSUME NEW d \in Keys, row'[d].parent # NoKey
               PROVE  /\ row'[d].symbol = row'[row'[d].parent].symbol
                      /\ row'[d].side = row'[row'[d].parent].side
    BY DEF LikeParent
  <2>1. CASE d = c
    BY <2>1, <1>3, <1>4
  <2>2. CASE d # c
    <3>1. /\ row'[d].symbol = row[d].symbol /\ row'[d].side = row[d].side
          /\ row'[d].parent = row[d].parent
      BY <2>2, <1>2, <1>3
    <3>2. row[d].parent \in Keys /\ row[d].parent # c
      BY <1>0, <1>1, <3>1 DEF SumInv, PaperInv, ParentsAreDone, Done, Row
    <3>3. row'[row[d].parent].symbol = row[row[d].parent].symbol
          /\ row'[row[d].parent].side = row[row[d].parent].side
      BY <3>2, <1>2, <1>3
    <3> QED BY <3>1, <3>3 DEF SumInv, LikeParent
  <2> QED BY <2>1, <2>2
<1>8. Covered'
  <2> SUFFICES ASSUME ~unreserved, NEW s \in Symbols
               PROVE  Total(Held(s)', Keys) <= position[s]
    BY <1>2 DEF Covered
  <2>1. PICK u, v : u = Held(s)' /\ v = Held(s)
    OBVIOUS
  <2>2. \A y \in Keys : u[y] \in Nat /\ v[y] \in Nat
    BY <1>0, <2>1, Values, ValuesNext
  <2>3. \A y \in Keys \ {k, c} : u[y] = v[y]
    BY <1>0, <1>2, <2>1, HeldAt
  <2>4. v[c] = 0 /\ u[k] = 0
    BY <1>0, <1>1, <1>3, <2>1, HeldAt DEF Reserves, ActiveSellStates, LockStates
  <2>5. u[c] = v[k]
    <3>1. Reserves(row'[c], s) <=> Reserves(row[k], s)
      BY <1>1, <1>4 DEF Reserves, ActiveSellStates
    <3> QED BY <1>0, <1>4, <2>1, <3>1, HeldAt
  <2>6. Total(u, Keys) = Total(v, Keys)
    BY <1>1, <2>2, <2>3, <2>4, <2>5, TotalMove
  <2> QED BY <2>1, <2>6 DEF SumInv, Covered
<1> QED BY <1>5, <1>6, <1>7, <1>8 DEF SumInv

\* What a fill does to every order row: only its own order has more filled
\* shares, and no row changes its symbol, side or parent.
LEMMA FillRows ==
    ASSUME SumInv, NEW f \in FillKeys, NEW k \in Keys, NEW quantity \in 1..Shares,
           apply_paper_fill(f, k, quantity), NEW c \in Keys
    PROVE  /\ row'[c].symbol = row[c].symbol /\ row'[c].side = row[c].side
           /\ row'[c].parent = row[c].parent
           /\ row'[c].filled = IF c = k THEN row[c].filled + quantity ELSE row[c].filled
           /\ row'[c].status = "ABSENT" => row'[c] = row[c]
<1>1. row[c] \in Row /\ row[k] \in Row /\ row[k].status # "ABSENT"
  BY DEF SumInv, PaperInv, TypeOK, apply_paper_fill, Exists
<1>2. \A d \in Keys : Adds(row[d]) /\ StatusFits(row[d])
  BY DEF SumInv, PaperInv, QuantitiesFit
<1>3. row'[c] = IF c = k THEN Filled(row[k], quantity)
                ELSE IF row[k].status = "REPLACED" /\ c \in Children(k)
                THEN _adjust_replacement_child_for_late_fill(row[c], quantity)
                ELSE row[c]
  BY DEF apply_paper_fill
<1>4. CASE c = k
  <2>1. row'[c] = Filled(row[c], quantity)
    BY <1>3, <1>4
  <2>2. Filled(row[c], quantity).status # "ABSENT"
    BY <1>1, <1>2, <1>4, FilledFits DEF apply_paper_fill, Fillable
  <2>3. /\ row'[c].symbol = row[c].symbol /\ row'[c].side = row[c].side
        /\ row'[c].parent = row[c].parent
        /\ row'[c].filled = row[c].filled + quantity
    BY <1>1, <2>1 DEF Filled, Row
  <2> QED BY <1>4, <2>1, <2>2, <2>3
<1>5. CASE c # k /\ row[k].status = "REPLACED" /\ c \in Children(k)
  <2>1. row'[c] = _adjust_replacement_child_for_late_fill(row[c], quantity)
    BY <1>3, <1>5
  <2>2. _adjust_replacement_child_for_late_fill(row[c], quantity).status # "ABSENT"
    BY <1>1, <1>2, AdjustedFits
  <2>3. /\ row'[c].symbol = row[c].symbol /\ row'[c].side = row[c].side
        /\ row'[c].parent = row[c].parent
        /\ row'[c].filled = row[c].filled
    BY <1>1, <2>1 DEF _adjust_replacement_child_for_late_fill, Row
  <2> QED BY <1>5, <2>1, <2>2, <2>3
<1>6. CASE c # k /\ ~(row[k].status = "REPLACED" /\ c \in Children(k))
  BY <1>3, <1>6
<1> QED BY <1>4, <1>5, <1>6

\* The fill is new, and counted once.
LEMMA FillCounted ==
    ASSUME SumInv, NEW f \in FillKeys, NEW k \in Keys, NEW quantity \in 1..Shares,
           apply_paper_fill(f, k, quantity), PaperInv'
    PROVE  Counted'
<1> SUFFICES ASSUME NEW c \in Keys
             PROVE  row'[c].filled = Total(Booked(c)', FillKeys)
  BY DEF Counted
<1>0. TypeOK /\ TypeOK' /\ row[c] \in Row
  BY DEF SumInv, PaperInv, TypeOK
<1>1. PICK u, v : u = Booked(c)' /\ v = Booked(c)
  OBVIOUS
<1>2. \A y \in FillKeys : u[y] \in Nat /\ v[y] \in Nat
  BY <1>0, <1>1, Values, ValuesNext
<1>3. /\ fill'[f] = [order |-> k, quantity |-> quantity] /\ fill[f] = NoFill
      /\ \A y \in FillKeys \ {f} : fill'[y] = fill[y]
  BY <1>0 DEF TypeOK, apply_paper_fill, IsNew
<1>4. \A y \in FillKeys \ {f} : u[y] = v[y]
  BY <1>1, <1>3 DEF Booked
<1>5. u[f] = IF c = k THEN quantity ELSE 0
  BY <1>1, <1>3 DEF Booked
<1>6. v[f] = 0
  BY <1>1, <1>3 DEF Booked, NoFill
<1>7. PICK a, b : a = Total(u, FillKeys) /\ b = Total(v, FillKeys)
  OBVIOUS
<1>8. a \in Nat /\ b \in Nat /\ a + 0 = b + u[f]
  BY <1>2, <1>4, <1>6, <1>7, TotalChange
<1>9. row[c].filled = b /\ row'[c].filled = IF c = k THEN row[c].filled + quantity ELSE row[c].filled
  BY <1>1, <1>7, FillRows DEF SumInv, Counted
<1>10. row'[c].filled = a
  BY <1>5, <1>8, <1>9
<1> QED BY <1>1, <1>7, <1>10

\* The position and the filled shares of one side move together.
LEMMA FillMoved ==
    ASSUME SumInv, NEW f \in FillKeys, NEW k \in Keys, NEW quantity \in 1..Shares,
           apply_paper_fill(f, k, quantity), PaperInv',
           NEW s \in Symbols, NEW side \in {"BUY", "SELL"}
    PROVE  /\ Total(Moved(s, side), Keys) \in Nat
           /\ Total(Moved(s, side)', Keys) =
                  IF row[k].symbol = s /\ row[k].side = side
                  THEN Total(Moved(s, side), Keys) + quantity
                  ELSE Total(Moved(s, side), Keys)
<1>0. TypeOK /\ TypeOK' /\ row[k] \in Row
  BY DEF SumInv, PaperInv, TypeOK
<1>1. PICK u, v : u = Moved(s, side)' /\ v = Moved(s, side)
  OBVIOUS
<1>2. \A y \in Keys : u[y] \in Nat /\ v[y] \in Nat
  BY <1>0, <1>1, Values, ValuesNext
<1>3. \A y \in Keys :
        /\ u[y] = IF row'[y].symbol = s /\ row'[y].side = side THEN row'[y].filled ELSE 0
        /\ v[y] = IF row[y].symbol = s /\ row[y].side = side THEN row[y].filled ELSE 0
  BY <1>1 DEF Moved
<1>4. \A y \in Keys \ {k} : u[y] = v[y]
  BY <1>3, FillRows
<1>5. u[k] = IF row[k].symbol = s /\ row[k].side = side THEN v[k] + quantity ELSE v[k]
  BY <1>3, FillRows
<1>6. PICK a, b, n : a = Total(u, Keys) /\ b = Total(v, Keys) /\ n = v[k]
  OBVIOUS
<1>7. a \in Nat /\ b \in Nat /\ n \in Nat /\ a + n = b + u[k]
  BY <1>2, <1>4, <1>6, TotalChange
<1>8. a = IF row[k].symbol = s /\ row[k].side = side THEN b + quantity ELSE b
  <2>1. CASE row[k].symbol = s /\ row[k].side = side
    <3>1. u[k] = n + quantity
      BY <2>1, <1>5, <1>6
    <3> QED BY <2>1, <3>1, <1>7
  <2>2. CASE ~(row[k].symbol = s /\ row[k].side = side)
    <3>1. u[k] = n
      BY <2>2, <1>5, <1>6
    <3> QED BY <2>2, <3>1, <1>7
  <2> QED BY <2>1, <2>2
<1> QED BY <1>1, <1>6, <1>7, <1>8

LEMMA FillPosition ==
    ASSUME SumInv, NEW f \in FillKeys, NEW k \in Keys, NEW quantity \in 1..Shares,
           apply_paper_fill(f, k, quantity), NEW s \in Symbols
    PROVE  /\ position[s] \in Nat
           /\ row[k].symbol # s => position'[s] = position[s]
           /\ row[k].symbol = s /\ row[k].side = "BUY" => position'[s] = position[s] + quantity
           /\ row[k].symbol = s /\ row[k].side = "SELL" =>
                  position'[s] = position[s] - quantity /\ quantity <= position[s]
<1>1. position \in [Symbols -> Nat] /\ row[k] \in Row
  BY DEF SumInv, PaperInv, TypeOK
<1>2. position' = [position EXCEPT ![row[k].symbol] =
                      IF row[k].side = "BUY" THEN @ + quantity ELSE @ - quantity]
  BY DEF apply_paper_fill, _apply_position
<1>3. row[k].side = "SELL" => quantity <= position[row[k].symbol]
  BY DEF apply_paper_fill, Fillable
<1>4. row[k].symbol \in Symbols /\ row[k].side \in {"BUY", "SELL"}
  BY <1>1 DEF Row
<1>5. position'[s] = IF s = row[k].symbol
                     THEN IF row[k].side = "BUY" THEN position[s] + quantity
                                                 ELSE position[s] - quantity
                     ELSE position[s]
  BY <1>1, <1>2, <1>4
<1> QED BY <1>1, <1>3, <1>4, <1>5

LEMMA FillBalanced ==
    ASSUME SumInv, NEW f \in FillKeys, NEW k \in Keys, NEW quantity \in 1..Shares,
           apply_paper_fill(f, k, quantity), PaperInv'
    PROVE  Balanced'
<1> SUFFICES ASSUME NEW s \in Symbols
             PROVE  position'[s] + Total(Moved(s, "SELL")', Keys) = Total(Moved(s, "BUY")', Keys)
  BY DEF Balanced
<1>1. PICK p, sold, bought : /\ p = position[s]
                             /\ sold = Total(Moved(s, "SELL"), Keys)
                             /\ bought = Total(Moved(s, "BUY"), Keys)
  OBVIOUS
<1>2. p \in Nat /\ sold \in Nat /\ bought \in Nat /\ p + sold = bought
  BY <1>1, FillMoved, FillPosition DEF SumInv, Balanced
<1>3. row[k].side \in {"BUY", "SELL"}
  BY DEF SumInv, PaperInv, TypeOK, Row
<1>4. PICK p2, sold2, bought2 : /\ p2 = position'[s]
                                /\ sold2 = Total(Moved(s, "SELL")', Keys)
                                /\ bought2 = Total(Moved(s, "BUY")', Keys)
  OBVIOUS
<1>5. CASE row[k].symbol # s
  <2>1. p2 = p /\ sold2 = sold /\ bought2 = bought
    BY <1>1, <1>4, <1>5, FillMoved, FillPosition
  <2> QED BY <1>2, <1>4, <2>1
<1>6. CASE row[k].symbol = s /\ row[k].side = "BUY"
  <2>1. p2 = p + quantity /\ sold2 = sold /\ bought2 = bought + quantity
    BY <1>1, <1>4, <1>6, FillMoved, FillPosition
  <2> QED BY <1>2, <1>4, <2>1
<1>7. CASE row[k].symbol = s /\ row[k].side = "SELL"
  <2>1. p2 = p - quantity /\ sold2 = sold + quantity /\ bought2 = bought
    BY <1>1, <1>4, <1>7, FillMoved, FillPosition
  <2> QED BY <1>2, <1>4, <2>1
<1> QED BY <1>3, <1>5, <1>6, <1>7

\* An order that still has shares to do reserves them.
LEMMA RemainingIsActive ==
    ASSUME NEW r \in Row, Adds(r), StatusFits(r), r.status # "ABSENT", r.remaining > 0
    PROVE  r.status \in ActiveSellStates
<1>1. r.status # "CANCELLED" /\ r.status # "REPLACED"
  BY DEF StatusFits, Row
<1>2. r.status # "FILLED"
  BY DEF StatusFits, Adds, Row
<1> QED BY <1>1, <1>2 DEF Row, Statuses

\* A SELL fill out of the remainders takes from one order what it takes from
\* the position: from its own or, if that was replaced, from the replacement.
LEMMA FillTakes ==
    ASSUME SumInv, NEW f \in FillKeys, NEW k \in Keys, NEW quantity \in 1..Shares,
           apply_paper_fill(f, k, quantity), PaperInv',
           NEW s \in Symbols, row[k].symbol = s, row[k].side = "SELL", FromRemaining(k, quantity)
    PROVE  \E x \in Keys : /\ \A y \in Keys \ {x} : Held(s)'[y] = Held(s)[y]
                           /\ Held(s)'[x] + quantity <= Held(s)[x]
<1>0. /\ TypeOK /\ TypeOK'
      /\ \A c \in Keys : row[c] \in Row /\ Adds(row[c]) /\ StatusFits(row[c])
  BY DEF SumInv, PaperInv, TypeOK, QuantitiesFit, Row
<1>1. \A c \in Keys :
        row'[c] = IF c = k THEN Filled(row[k], quantity)
                  ELSE IF row[k].status = "REPLACED" /\ c \in Children(k)
                  THEN _adjust_replacement_child_for_late_fill(row[c], quantity)
                  ELSE row[c]
  BY DEF apply_paper_fill
<1>2. CASE row[k].status # "REPLACED"
  <2>1. \A y \in Keys \ {k} : Held(s)'[y] = Held(s)[y]
    BY <1>0, <1>1, <1>2, HeldAt
  <2>2. quantity <= row[k].remaining /\ row[k].remaining \in Nat
    BY <1>0, <1>2 DEF FromRemaining, Row
  <2>3. row[k].status \in ActiveSellStates
    <3>1. row[k].remaining > 0 /\ row[k].status # "ABSENT"
      BY <2>2 DEF apply_paper_fill, Exists
    <3> QED BY <1>0, <3>1, RemainingIsActive
  <2>4. Held(s)[k] = row[k].remaining
    BY <1>0, <2>3, HeldAt DEF Reserves
  <2>5. row'[k].remaining = row[k].remaining - quantity
    <3>1. PICK r \in Row : r = row[k]
      BY <1>0
    <3>2. row'[k] = Filled(r, quantity)
      BY <1>1, <3>1
    <3>3. Lesser(quantity, r.remaining) = quantity
      BY <2>2, <3>1 DEF Lesser
    <3>4. Filled(r, quantity).remaining = r.remaining - Lesser(quantity, r.remaining)
      BY DEF Filled, Row
    <3> QED BY <3>1, <3>2, <3>3, <3>4
  <2>6. Held(s)'[k] = row'[k].remaining \/ Held(s)'[k] = 0
    BY <1>0, HeldAt
  <2>7. Held(s)'[k] + quantity <= Held(s)[k]
    BY <2>2, <2>4, <2>5, <2>6
  <2> QED BY <2>1, <2>7
<1>3. CASE row[k].status = "REPLACED"
  <2>1. PICK c \in Keys : row[c].parent = k /\ quantity <= row[c].remaining
    BY <1>3 DEF FromRemaining, Children
  <2>2. row[c].remaining \in Nat /\ row[k].remaining = 0 /\ row[c].remaining > 0 /\ c # k
    BY <1>0, <1>3, <2>1 DEF StatusFits, Row
  <2>3. \A d \in Keys : d \in Children(k) => d = c
    BY <2>1 DEF Children, SumInv, PaperInv, NoTwins
  <2>4. /\ row'[c] = _adjust_replacement_child_for_late_fill(row[c], quantity)
        /\ row'[k] = Filled(row[k], quantity)
        /\ \A d \in Keys \ {c, k} : row'[d] = row[d]
    BY <1>1, <1>3, <2>1, <2>2, <2>3 DEF Children
  <2>5. Held(s)[k] = 0 /\ Held(s)'[k] = 0
    <3>1. row'[k].status \in {"FILLED", "REPLACED"}
      BY <1>0, <1>3, <2>4 DEF Filled, StatusAfterFill, Row
    <3> QED BY <1>0, <1>3, <3>1, HeldAt DEF Reserves, ActiveSellStates, LockStates
  <2>6. \A y \in Keys \ {c} : Held(s)'[y] = Held(s)[y]
    BY <1>0, <2>4, <2>5, HeldAt
  <2>7. Held(s)[c] = row[c].remaining
    <3>1. row[c].status # "ABSENT"
      BY <2>1 DEF SumInv, PaperInv, ParentsAreDone
    <3>2. row[c].status \in ActiveSellStates
      BY <1>0, <2>2, <3>1, RemainingIsActive
    <3>3. row[c].symbol = s /\ row[c].side = "SELL"
      BY <2>1 DEF SumInv, LikeParent
    <3> QED BY <1>0, <3>2, <3>3, HeldAt DEF Reserves
  <2>8. row'[c].remaining = row[c].remaining - quantity
    <3>1. PICK r \in Row : r = row[c]
      BY <1>0
    <3>2. Lesser(quantity, r.remaining) = quantity
      BY <2>1, <2>2, <3>1 DEF Lesser
    <3>3. _adjust_replacement_child_for_late_fill(r, quantity).remaining
             = r.remaining - Lesser(quantity, r.remaining)
      BY DEF _adjust_replacement_child_for_late_fill, Row
    <3> QED BY <2>4, <3>1, <3>2, <3>3
  <2>9. Held(s)'[c] = row'[c].remaining \/ Held(s)'[c] = 0
    BY <1>0, HeldAt
  <2>10. Held(s)'[c] + quantity <= Held(s)[c]
    BY <2>1, <2>2, <2>7, <2>8, <2>9
  <2> QED BY <2>6, <2>10
<1> QED BY <1>2, <1>3

LEMMA FillCovered ==
    ASSUME SumInv, NEW f \in FillKeys, NEW k \in Keys, NEW quantity \in 1..Shares,
           apply_paper_fill(f, k, quantity), PaperInv'
    PROVE  Covered'
<1> SUFFICES ASSUME ~unreserved', NEW s \in Symbols
             PROVE  Total(Held(s)', Keys) <= position'[s]
  BY DEF Covered
<1>0. TypeOK /\ TypeOK' /\ row[k].side \in {"BUY", "SELL"}
  BY DEF SumInv, PaperInv, TypeOK, Row
<1>1. ~unreserved /\ (row[k].side = "SELL" => FromRemaining(k, quantity))
  BY DEF apply_paper_fill
<1>2. PICK a, b, p, q : /\ a = Total(Held(s), Keys) /\ b = Total(Held(s)', Keys)
                        /\ p = position[s] /\ q = position'[s]
  OBVIOUS
<1>3. a <= p /\ p \in Nat
  BY <1>1, <1>2, FillPosition DEF SumInv, Covered
<1>4. CASE row[k].symbol = s /\ row[k].side = "SELL"
  <2>1. PICK x \in Keys : /\ \A y \in Keys \ {x} : Held(s)'[y] = Held(s)[y]
                          /\ Held(s)'[x] + quantity <= Held(s)[x]
    BY <1>1, <1>4, FillTakes
  <2>2. PICK m, n : m = Held(s)[x] /\ n = Held(s)'[x]
    OBVIOUS
  <2>3. a \in Nat /\ b \in Nat /\ m \in Nat /\ n \in Nat /\ b + m = a + n /\ n + quantity <= m
    BY <1>0, <1>2, <2>1, <2>2, HeldChange
  <2>4. q = p - quantity
    BY <1>2, <1>4, FillPosition
  <2> QED BY <1>2, <1>3, <2>3, <2>4
<1>5. CASE ~(row[k].symbol = s /\ row[k].side = "SELL")
  <2>1. \A c \in Keys : Held(s)'[c] = Held(s)[c]
    <3> SUFFICES ASSUME NEW c \in Keys PROVE Held(s)'[c] = Held(s)[c]
      OBVIOUS
    <3>1. row'[c].symbol = row[c].symbol /\ row'[c].side = row[c].side
      BY FillRows
    <3>2. CASE row'[c] = row[c]
      BY <1>0, <3>2, HeldAt
    <3>3. CASE row'[c] # row[c]
      <4>1. c = k \/ row[c].parent = k
        BY <3>3 DEF apply_paper_fill, Children
      <4>2. row[c].symbol = row[k].symbol /\ row[c].side = row[k].side
        BY <4>1 DEF SumInv, LikeParent
      <4> QED BY <1>0, <1>5, <3>1, <4>2, HeldAt DEF Reserves
    <3> QED BY <3>2, <3>3
  <2>2. a \in Nat /\ b \in Nat /\ b + Held(s)[k] = a + Held(s)[k] /\ Held(s)[k] \in Nat
    BY <1>0, <1>2, <2>1, HeldChange
  <2>3. b = a
    BY <2>2
  <2>4. q = p \/ q = p + quantity
    BY <1>0, <1>2, <1>5, FillPosition
  <2> QED BY <1>2, <1>3, <2>2, <2>3, <2>4
<1> QED BY <1>4, <1>5

LEMMA FillSums ==
    ASSUME SumInv, NEW f \in FillKeys, NEW k \in Keys, NEW quantity \in 1..Shares,
           apply_paper_fill(f, k, quantity), PaperInv'
    PROVE  SumInv'
<1>1. Counted' /\ Balanced' /\ Covered'
  BY FillCounted, FillBalanced, FillCovered
<1>2. AbsentIsEmpty'
  BY FillRows DEF SumInv, AbsentIsEmpty
<1>3. row \in [Keys -> Row]
  BY DEF SumInv, PaperInv, TypeOK
<1>4. \A c \in Keys : /\ row'[c].symbol = row[c].symbol /\ row'[c].side = row[c].side
                      /\ row'[c].parent = row[c].parent
  BY FillRows
<1>5. LikeParent'
  BY <1>3, <1>4 DEF SumInv, LikeParent, Row
<1> QED BY <1>1, <1>2, <1>5 DEF SumInv

LEMMA UnchangedSums ==
    ASSUME SumInv, UNCHANGED <<row, fill, position, unreserved>>, PaperInv'
    PROVE  SumInv'
<1>1. /\ \A k \in Keys : Booked(k)' = Booked(k)
      /\ \A s \in Symbols : /\ Held(s)' = Held(s)
                            /\ \A side \in {"BUY", "SELL"} : Moved(s, side)' = Moved(s, side)
  BY DEF Booked, Held, Moved, Reserves
<1>2. Counted' /\ Balanced' /\ Covered'
  BY <1>1 DEF SumInv, Counted, Balanced, Covered
<1>3. AbsentIsEmpty' /\ LikeParent'
  BY DEF SumInv, AbsentIsEmpty, LikeParent
<1> QED BY <1>2, <1>3 DEF SumInv

LEMMA SumInit == Init => SumInv
<1> SUFFICES ASSUME Init PROVE SumInv
  OBVIOUS
<1>1. PaperInv /\ TypeOK
  BY PaperInit DEF PaperInv
<1>2. \A k \in Keys :
        /\ row[k].parent = NoKey
        /\ row[k].filled = 0 /\ row[k].remaining = 0
  <2> SUFFICES ASSUME NEW k \in Keys, NEW s \in Symbols,
                      row[k] = NewRow("ABSENT", s, "BUY", NoKey, 0)
               PROVE  row[k].parent = NoKey /\ row[k].filled = 0 /\ row[k].remaining = 0
    BY DEF Init
  <2> QED BY DEF NewRow
<1>3. /\ \A k \in Keys, f \in FillKeys : Booked(k)[f] = 0
      /\ \A s \in Symbols, side \in {"BUY", "SELL"}, k \in Keys : Moved(s, side)[k] = 0
      /\ \A s \in Symbols, k \in Keys : Held(s)[k] = 0
  BY <1>2 DEF Booked, Moved, Held, Init, NoFill
<1>4. ASSUME NEW S, IsFiniteSet(S), NEW v, \A x \in S : v[x] = 0
      PROVE  Total(v, S) = 0
  <2>1. {} \subseteq S /\ \A x \in S : v[x] \in Nat
    BY <1>4
  <2>2. Total(v, {}) = Total(v, S)
    BY <1>4, <2>1, TotalOfPart
  <2>3. Total(v, {}) = 0
    BY <1>4, <2>1, TotalStep
  <2> QED BY <2>2, <2>3
<1>5. Counted
  BY <1>2, <1>3, <1>4 DEF Counted
<1>6. Balanced /\ Covered
  BY <1>3, <1>4 DEF Balanced, Covered, Init
<1> QED BY <1>1, <1>2, <1>5, <1>6 DEF SumInv, AbsentIsEmpty, LikeParent

-----------------------------------------------------------------------------
\* SumInv holds in every reachable state.
THEOREM PaperSums == Spec => []SumInv
<1>1. Init => SumInv
  BY SumInit
<1>2. SumInv /\ [Next]_vars /\ PaperInv' => SumInv'
  <2> SUFFICES ASSUME SumInv, [Next]_vars, PaperInv' PROVE SumInv'
    OBVIOUS
  <2>1. CASE \E status \in BOOLEAN : set_paper_gate(status)
    BY <2>1, UnchangedSums DEF set_paper_gate
  <2>2. CASE \E k \in Keys, s \in Symbols, side \in {"BUY", "SELL"}, quantity \in 1..Shares :
                create_paper_order(k, s, side, quantity)
    BY <2>2, CreateSums
  <2>3. CASE \E f \in FillKeys, k \in Keys, quantity \in 1..Shares :
                apply_paper_fill(f, k, quantity)
    BY <2>3, FillSums
  <2>4. CASE \E k \in Keys : request_paper_cancel(k) \/ confirm_paper_cancel(k)
    BY <2>4, RequestSums, ConfirmSums DEF request_paper_cancel
  <2>5. CASE \E k \in Keys : request_paper_replace(k)
    BY <2>5, RequestSums DEF request_paper_replace
  <2>6. CASE \E k, c \in Keys : replace_paper_order(k, c)
    BY <2>6, ReplaceSums
  <2>7. CASE UNCHANGED vars
    BY <2>7, UnchangedSums DEF vars
  <2> QED BY <2>1, <2>2, <2>3, <2>4, <2>5, <2>6, <2>7 DEF Next
<1> QED BY <1>1, <1>2, PaperInvariant, PTL DEF Spec

\* Every order has as many filled shares as its fills say, and every position
\* is what was bought less what was sold: apply_paper_fill counts a fill once,
\* in the order and in the position, whatever was cancelled or replaced before.
THEOREM PaperFillsAreCounted == Spec => []FillsAreCounted
<1> QED BY SumInvImplies, PaperSums, PTL

\* The active SELL orders of a symbol never ask for more than its position
\* holds, as _validate_request promises, until a late fill takes shares that
\* had been cancelled.
THEOREM PaperReservedIsCovered == Spec => []ReservedIsCovered
<1> QED BY SumInvImplies, PaperSums, PTL

-----------------------------------------------------------------------------
(***************************************************************************)
(* The minute bars of MarketWatch.  Days and minutes are quotients.        *)
(***************************************************************************)
LEMMA DivMono ==
    ASSUME NEW d \in Nat \ {0}, NEW a \in Nat, NEW b \in Nat, a <= b
    PROVE  a \div d \in Nat /\ b \div d \in Nat /\ a \div d <= b \div d
OBVIOUS

LEMMA DivFloor ==
    ASSUME NEW d \in Nat \ {0}, NEW a \in Nat
    PROVE  a \div d \in Nat /\ (a \div d) * d \in Nat /\ (a \div d) * d <= a
OBVIOUS

LEMMA DatesGrow ==
    ASSUME NEW t \in Nat \ {0}, NEW u \in Nat \ {0}, t <= u
    PROVE  /\ trading_date(t) \in Nat /\ trading_date(u) \in Nat
           /\ trading_date(t) <= trading_date(u)
<1>1. t - 1 \in Nat /\ u - 1 \in Nat /\ t - 1 <= u - 1 /\ PerDay \in Nat \ {0}
  BY WatchAssumption
<1>2. QED
  BY <1>1, DivMono DEF trading_date

\* A minute begins at the latest with the second that is in it.
Start(m) == m * PerMinute + 1

LEMMA MinuteStart ==
    ASSUME NEW t \in Nat \ {0}
    PROVE  /\ Minute(t) \in Nat /\ Start(Minute(t)) \in Nat \ {0} /\ Start(Minute(t)) <= t
           /\ trading_date(Start(Minute(t))) \in Nat /\ trading_date(t) \in Nat
           /\ trading_date(Start(Minute(t))) <= trading_date(t)
<1>1. t - 1 \in Nat /\ PerMinute \in Nat \ {0}
  BY WatchAssumption
<1>2. Minute(t) \in Nat /\ Minute(t) * PerMinute \in Nat /\ Minute(t) * PerMinute <= t - 1
  BY <1>1, DivFloor DEF Minute
<1>3. Start(Minute(t)) \in Nat \ {0} /\ Start(Minute(t)) <= t
  BY <1>2 DEF Start
<1>4. QED
  BY <1>2, <1>3, DatesGrow

LEMMA MinutesFinite == IsFiniteSet(Minutes)
<1>1. IsFiniteSet(Times)
  BY WatchAssumption, FS_Interval DEF Times
<1>2. PICK f : f = [t \in Times |-> Minute(t)]
  OBVIOUS
<1>3. f \in Surjection(Times, Minutes)
  BY <1>2 DEF Surjection, Minutes
<1>4. QED
  BY <1>1, <1>3, FS_Surjection

LEMMA BarsIsTotal ==
    ASSUME NEW S, IsFiniteSet(S), NEW v, \A x \in S : v[x] \in Nat /\ v[x] = bars[x]
    PROVE  MapThenSumSet(LAMBDA m : bars[m], S) = Total(v, S)
<1> DEFINE Body(g) == [s \in SUBSET S |-> IF s = {} THEN 0
                          ELSE LET x == CHOOSE x \in s : TRUE
                               IN  bars[x] + g[s \ {x}]]
           Sum == CHOOSE g : g = Body(g)
<1>1. MapThenSumSet(LAMBDA m : bars[m], S) = Sum[S]
  BY Zenon DEF MapThenSumSet, MapThenFoldSet
<1>2. ASSUME NEW s \in SUBSET S, s # {}
      PROVE  v[Pick(s)] = bars[CHOOSE x \in s : TRUE]
  BY <1>2, PickIn DEF Pick
<1>3. PICK g : g = SumFcn(v, S)
  OBVIOUS
<1>4. g \in [SUBSET S -> Nat] /\ Sums(g, v, S)
  BY <1>3, SumExists DEF IsSum
<1>5. g = Body(g)
  <2>1. ASSUME NEW s \in SUBSET S
        PROVE  g[s] = Body(g)[s]
    BY <1>2, <1>4 DEF Sums, Pick
  <2>2. QED
    BY <1>4, <2>1
<1>6. Sum = Body(Sum)
  <2> HIDE DEF Body
  <2>1. QED
    BY <1>5, Zenon
<1>7. PICK h : h = Sum
  OBVIOUS
<1>8. h = Body(h)
  <2> HIDE DEF Body, Sum
  <2>1. QED
    BY <1>6, <1>7, Zenon
<1>9. Sums(h, v, S)
  BY <1>2, <1>8 DEF Sums, Pick
<1> HIDE DEF Sum
<1>10. QED
  BY <1>1, <1>7, <1>9, SolutionIsTotal

-----------------------------------------------------------------------------
\* The trade in the cache was published, and its time is its own unless a trade
\* was misdated.
CacheFits ==
    \/ trade_cache = NoTrade
    \/ /\ trade_cache.trade \in 1..Len(trades)
       /\ trade_cache.event_at \in Nat \ {0}
       /\ ~misdated => trade_cache.event_at = trades[trade_cache.trade].at

\* The stream is not ahead of the clock, nor of the trades of its day.
TradedThat(t, volume) == \E v \in DayVolumes(trading_date(t)) : volume <= v

StreamFollows ==
    /\ stream.event_at <= now
    /\ Known /\ ~misdated => TradedThat(stream.event_at, stream.cumulative_volume)

\* Nothing is counted for a day after that of the stream.
AheadIsEmpty ==
    \A m \in Minutes :
        (Known => trading_date(Start(m)) > trading_date(stream.event_at)) => bars[m] = 0

\* The bars of the day are covered by what the stream has seen of it.
Today ==
    [m \in Minutes |-> IF trading_date(Start(m)) = trading_date(stream.event_at) THEN bars[m] ELSE 0]
BarsCounted == Known /\ ~misdated => opening + Total(Today, Minutes) <= stream.cumulative_volume

\* There is a day before that of the clock, as _event_time needs it.
WatchInv ==
    /\ WatchTypeOK /\ PerDay < now
    /\ CacheFits /\ StreamFollows /\ AheadIsEmpty /\ BarsCounted

\* The types, element by element.
LEMMA WatchTypes ==
    ASSUME WatchTypeOK
    PROVE  /\ now \in 1..MaxTime /\ now \in Nat \ {0} /\ opening \in Nat
           /\ Len(trades) \in Nat
           /\ stream.event_at \in Nat /\ stream.cumulative_volume \in Nat
           /\ \A m \in Minutes : bars[m] \in Nat
           /\ \A k \in 1..Len(trades) : /\ trades[k].at \in Times /\ trades[k].at \in Nat \ {0}
                                        /\ trades[k].volume \in Nat
<1>1. PICK T : T = [at : Times, volume : Nat]
  OBVIOUS
<1>2. trades \in Seq(T)
  BY <1>1 DEF WatchTypeOK
<1>3. Len(trades) \in Nat /\ \A k \in 1..Len(trades) : trades[k] \in T
  BY <1>2
<1>4. \A t \in Times : t \in Nat \ {0}
  BY WatchAssumption DEF Times
<1>5. \A k \in 1..Len(trades) : trades[k].at \in Times /\ trades[k].volume \in Nat
  BY <1>1, <1>3
<1>6. stream.event_at \in Nat /\ stream.cumulative_volume \in Nat
  BY DEF WatchTypeOK, Stream
<1>7. now \in 1..MaxTime /\ now \in Nat \ {0} /\ opening \in Nat /\ \A m \in Minutes : bars[m] \in Nat
  BY WatchAssumption DEF WatchTypeOK
<1>8. QED
  BY <1>3, <1>4, <1>5, <1>6, <1>7

LEMMA MinuteDates == \A m \in Minutes : trading_date(Start(m)) \in Nat
<1>1. \A t \in Times : t \in Nat \ {0}
  BY WatchAssumption DEF Times
<1>2. QED
  BY <1>1, MinuteStart DEF Minutes

LEMMA TodayTotal ==
    ASSUME WatchTypeOK
    PROVE  LET S == {m \in Minutes : trading_date(Start(m)) = trading_date(stream.event_at)}
           IN  /\ MapThenSumSet(LAMBDA m : bars[m], S) = Total(Today, Minutes)
               /\ Total(Today, Minutes) \in Nat
<1>1. PICK S : S = {m \in Minutes : trading_date(Start(m)) = trading_date(stream.event_at)}
  OBVIOUS
<1>2. PICK v : v = Today
  OBVIOUS
<1>3. S \subseteq Minutes /\ IsFiniteSet(Minutes) /\ IsFiniteSet(S)
  BY <1>1, MinutesFinite, FS_Subset
<1>4. \A m \in Minutes : v[m] \in Nat /\ v[m] = IF m \in S THEN bars[m] ELSE 0
  BY <1>1, <1>2 DEF Today, WatchTypeOK
<1>5. MapThenSumSet(LAMBDA m : bars[m], S) = Total(v, S)
  <2>1. \A x \in S : v[x] \in Nat /\ v[x] = bars[x]
    BY <1>3, <1>4
  <2>2. QED
    BY <1>3, <2>1, BarsIsTotal, Zenon
<1>6. Total(v, S) = Total(v, Minutes) /\ Total(v, Minutes) \in Nat
  BY <1>3, <1>4, TotalOfPart, TotalStep
<1>7. QED
  BY <1>1, <1>2, <1>5, <1>6

\* What was traded on a day.
LEMMA DayVolumesAre ==
    ASSUME WatchTypeOK
    PROVE  /\ \A d : DayVolumes(d) \subseteq Nat /\ 0 \in DayVolumes(d)
           /\ \A k \in 1..Len(trades) : trades[k].volume \in DayVolumes(trading_date(trades[k].at))
<1>1. \A k \in 1..Len(trades) : trades[k].volume \in Nat
  BY WatchTypes
<1>2. QED
  BY <1>1 DEF DayVolumes

LEMMA WatchInvImplies ==
    ASSUME WatchInv
    PROVE  VolumeIsNotCountedTwice
<1>1. SUFFICES ASSUME ~misdated, Known
               PROVE  \E v \in DayVolumes(trading_date(stream.event_at)) : opening + CountedToday <= v
  BY DEF VolumeIsNotCountedTwice, BarsFitDay
<1>2. PICK n : n = CountedToday
  OBVIOUS
<1>3. n = Total(Today, Minutes) /\ n \in Nat
  BY <1>2, TodayTotal, Zenon DEF WatchInv, CountedToday, Start
<1>4. PICK v \in DayVolumes(trading_date(stream.event_at)) : stream.cumulative_volume <= v
  BY <1>1 DEF WatchInv, StreamFollows, TradedThat
<1>5. opening + n <= stream.cumulative_volume
  BY <1>1, <1>3 DEF WatchInv, BarsCounted
<1>6. opening \in Nat /\ stream.cumulative_volume \in Nat /\ v \in Nat
  BY WatchTypes, DayVolumesAre DEF WatchInv
<1>7. opening + n <= v
  BY <1>3, <1>4, <1>5, <1>6
<1>8. QED
  BY <1>2, <1>7

-----------------------------------------------------------------------------
(***************************************************************************)
(* The date of a frame.                                                    *)
(***************************************************************************)
\* A second is its date and its time of day.
LEMMA DivMod ==
    ASSUME NEW d \in Nat \ {0}, NEW a \in Nat
    PROVE  /\ a \div d \in Nat /\ (a \div d) * d \in Nat
           /\ a % d \in 0..(d - 1)
           /\ a = (a \div d) * d + (a % d)
OBVIOUS

LEMMA DateAndTime ==
    ASSUME NEW t \in Nat \ {0}
    PROVE  /\ trading_date(t) \in Nat /\ trading_date(t) * PerDay \in Nat
           /\ TimeOfDay(t) \in 0..(PerDay - 1)
           /\ t = trading_date(t) * PerDay + TimeOfDay(t) + 1
<1>1. PICK a \in Nat : a = t - 1 /\ t = a + 1
  OBVIOUS
<1>2. PerDay \in Nat \ {0}
  BY WatchAssumption
<1>3. PICK q, r, p : q = a \div PerDay /\ r = a % PerDay /\ p = q * PerDay
  OBVIOUS
<1>4. q \in Nat /\ p \in Nat /\ r \in 0..(PerDay - 1) /\ a = p + r
  BY <1>2, <1>3, DivMod
<1>5. trading_date(t) = q /\ TimeOfDay(t) = r
  BY <1>1, <1>3, Zenon DEF trading_date, TimeOfDay
<1>6. t = p + r + 1
  BY <1>1, <1>2, <1>4
<1>7. QED
  BY <1>3, <1>4, <1>5, <1>6, Zenon

LEMMA EventTimeIs ==
    ASSUME NEW timeOfDay, NEW received, NEW day,
           day = trading_date(received) * PerDay + timeOfDay + 1
    PROVE  _event_time(timeOfDay, received) = IF day > received + Leeway THEN day - PerDay ELSE day
<1>1. CASE day > received + Leeway
  BY <1>1, Zenon DEF _event_time
<1>2. CASE ~(day > received + Leeway)
  BY <1>2, Zenon DEF _event_time
<1>3. QED
  BY <1>1, <1>2, Zenon

\* The time that a frame is given is a second, once there is a day before.
LEMMA EventTimeIsSecond ==
    ASSUME NEW t \in Nat \ {0}, NEW received \in Nat \ {0}, PerDay < received
    PROVE  _event_time(TimeOfDay(t), received) \in Nat \ {0}
<1>1. PICK d, o, r : d = trading_date(received) /\ o = TimeOfDay(received) /\ r = TimeOfDay(t)
  OBVIOUS
<1>2. /\ PerDay \in Nat \ {0} /\ d \in Nat /\ d * PerDay \in Nat /\ o \in 0..(PerDay - 1)
      /\ r \in 0..(PerDay - 1) /\ received = d * PerDay + o + 1
  BY <1>1, DateAndTime, WatchAssumption
<1>3. d # 0
  <2>1. SUFFICES ASSUME d = 0 PROVE FALSE
    OBVIOUS
  <2>2. received = o + 1
    BY <1>2, <2>1
  <2>3. QED
    BY <1>2, <2>2
<1>4. d * PerDay >= PerDay
  <2>1. PICK c \in Nat : d = c + 1
    <3>1. d - 1 \in Nat /\ d = (d - 1) + 1
      BY <1>2, <1>3
    <3>2. QED
      BY <3>1
  <2>2. d * PerDay = c * PerDay + PerDay /\ c * PerDay \in Nat
    BY <1>2, <2>1
  <2>3. QED
    BY <1>2, <2>2
<1>5. PICK day : day = d * PerDay + r + 1
  OBVIOUS
<1>6. day \in Nat \ {0} /\ day - PerDay \in Nat \ {0}
  <2>1. PICK s \in Nat : s = d * PerDay
    BY <1>2
  <2>2. QED
    BY <1>2, <1>4, <1>5, <2>1
<1>7. _event_time(TimeOfDay(t), received) = IF day > received + Leeway THEN day - PerDay ELSE day
  BY <1>1, <1>5, EventTimeIs, Zenon
<1>8. QED
  BY <1>6, <1>7

\* _event_time gives a trade its own time when it is received on its day and
\* its clock is at most the leeway ahead, or on the next day while its time of
\* day is still more than the leeway ahead.  Every other trade it misdates.
THEOREM EventTimeIsRight ==
    ASSUME NEW at \in Nat \ {0}, NEW received \in Nat \ {0}
    PROVE  _event_time(TimeOfDay(at), received) = at <=>
               \/ trading_date(at) = trading_date(received) /\ at <= received + Leeway
               \/ trading_date(at) + 1 = trading_date(received) /\ at + PerDay > received + Leeway
<1>1. PICK d, e, r, P : /\ d = trading_date(received) /\ e = trading_date(at) /\ r = TimeOfDay(at)
                        /\ P = PerDay
  OBVIOUS
<1>2. /\ P \in Nat \ {0} /\ Leeway \in Nat /\ d \in Nat /\ e \in Nat /\ d * P \in Nat
      /\ e * P \in Nat /\ r \in 0..(P - 1) /\ at = e * P + r + 1
  BY <1>1, DateAndTime, WatchAssumption
<1>3. PICK x \in Nat, y \in Nat : x = d * P /\ y = e * P
  BY <1>2
<1>4. PICK day, given : day = x + r + 1 /\ given = _event_time(TimeOfDay(at), received)
  OBVIOUS
<1>5. given = IF day > received + Leeway THEN day - P ELSE day
  BY <1>1, <1>3, <1>4, EventTimeIs, Zenon
<1>6. at = y + r + 1
  BY <1>2, <1>3
<1>7. P \in Nat \ {0} /\ Leeway \in Nat /\ d \in Nat /\ e \in Nat /\ r \in Nat
  BY <1>2
<1>8. SUFFICES given = at <=>
          \/ e = d /\ at <= received + Leeway
          \/ e + 1 = d /\ at + P > received + Leeway
  BY <1>1, <1>4, Zenon
<1>9. CASE d = e
  <2>1. x = y
    BY <1>3, <1>9
  <2>2. QED
    BY <1>4, <1>5, <1>6, <1>7, <1>9, <2>1
<1>10. CASE d = e + 1
  <2>1. x = y + P
    BY <1>2, <1>3, <1>10
  <2>2. QED
    BY <1>4, <1>5, <1>6, <1>7, <1>10, <2>1
<1>11. CASE d > e + 1
  <2>1. PICK c \in Nat : d = e + 2 + c
    <3>1. d - e - 2 \in Nat /\ d = e + 2 + (d - e - 2)
      BY <1>2, <1>11
    <3>2. QED
      BY <3>1
  <2>2. x = y + P + P + c * P /\ c * P \in Nat
    BY <1>2, <1>3, <2>1
  <2>3. x > y + P
    BY <1>2, <2>2
  <2>4. QED
    BY <1>4, <1>5, <1>6, <1>7, <1>11, <2>3
<1>12. CASE d < e
  <2>1. PICK c \in Nat : e = d + 1 + c
    <3>1. e - d - 1 \in Nat /\ e = d + 1 + (e - d - 1)
      BY <1>2, <1>12
    <3>2. QED
      BY <3>1
  <2>2. y = x + P + c * P /\ c * P \in Nat
    BY <1>2, <1>3, <2>1
  <2>3. x < y
    BY <1>2, <2>2
  <2>4. QED
    BY <1>4, <1>5, <1>6, <1>7, <1>12, <2>3
<1>13. QED
  BY <1>7, <1>8, <1>9, <1>10, <1>11, <1>12

-----------------------------------------------------------------------------
(***************************************************************************)
(* ingest_quote: an event either leaves time, volume and bars alone or is  *)
(* accepted, and then it is not older than the stream.                     *)
(***************************************************************************)
EventFits(e) ==
    /\ e.source \in {"KIWOOM_WS", "KIWOOM_REST_KA10001"}
    /\ e.event_at \in Nat \ {0}
    /\ e.cumulative_volume \in Nat
    /\ e.recovery_snapshot \in BOOLEAN
    /\ e.recovery_snapshot => /\ e.event_at = now
                              /\ misdated \/ ~volume_regression(e)

Ignored ==
    /\ UNCHANGED <<bars, verified, opening>>
    /\ stream' \in Stream
    /\ stream'.event_at = stream.event_at
    /\ stream'.cumulative_volume = stream.cumulative_volume

Accepted(e) ==
    /\ e.event_at <= now
    /\ stream.event_at <= e.event_at
    /\ misdated \/ ~volume_regression(e)
    /\ update_market_analysis(e)
    /\ stream' \in Stream
    /\ stream'.event_at = e.event_at
    /\ stream'.cumulative_volume = e.cumulative_volume
    /\ verified' \in 0..MaxTime
    /\ opening' = IF same_trading_date(e) THEN opening ELSE e.cumulative_volume

LEMMA Ingests ==
    ASSUME WatchInv, NEW e, EventFits(e), ingest_quote(e)
    PROVE  Ignored \/ Accepted(e)
<1>1. /\ WatchTypeOK /\ stream.event_at \in Nat /\ now \in 1..MaxTime
      /\ e.event_at \in Nat \ {0} /\ stream.event_at <= now /\ stream \in Stream
  <2>1. e.event_at \in Nat \ {0}
    BY DEF EventFits
  <2>2. QED
    BY <2>1, WatchTypes DEF WatchInv, StreamFollows, WatchTypeOK
<1>2. CASE UNCHANGED <<stream, bars, verified, opening>>
  BY <1>1, <1>2 DEF Ignored
<1>3. CASE /\ stream' = [stream EXCEPT !.quality = "GAP_DETECTED"]
           /\ UNCHANGED <<bars, verified, opening>>
  <2>1. /\ stream' \in Stream /\ stream'.event_at = stream.event_at
        /\ stream'.cumulative_volume = stream.cumulative_volume
    BY <1>1, <1>3 DEF Stream
  <2>2. QED
    BY <1>3, <2>1 DEF Ignored
<1>4. CASE /\ ~Discards(e) /\ quality(e) = "NORMAL"
           /\ update_market_analysis(e)
           /\ stream' = [source |-> e.source, event_at |-> e.event_at,
                         cumulative_volume |-> e.cumulative_volume, quality |-> "NORMAL"]
           /\ verified' = IF Market = "NXT" THEN e.event_at ELSE verified
           /\ opening' = IF same_trading_date(e) THEN opening ELSE e.cumulative_volume
  <2>1. e.event_at <= now
    BY <1>1, <1>4 DEF Discards
  <2>2. stream.event_at <= e.event_at /\ (misdated \/ ~volume_regression(e))
    <3>1. CASE e.recovery_snapshot
      BY <1>1, <3>1 DEF EventFits
    <3>2. CASE ~e.recovery_snapshot
      <4>1. ~late(e) /\ ~volume_regression(e)
        BY <1>4, <3>2 DEF quality
      <4>2. QED
        BY <1>1, <4>1 DEF late, Known
    <3>3. QED
      BY <3>1, <3>2
  <2>3. /\ stream' \in Stream /\ stream'.event_at = e.event_at
        /\ stream'.cumulative_volume = e.cumulative_volume
    BY <1>1, <1>4 DEF Stream, EventFits
  <2>4. verified' \in 0..MaxTime
    <3>1. e.event_at \in 0..MaxTime
      BY <1>1, <2>1, WatchAssumption
    <3>2. QED
      BY <1>1, <1>4, <3>1 DEF WatchTypeOK
  <2>5. QED
    BY <1>4, <2>1, <2>2, <2>3, <2>4 DEF Accepted
<1>5. QED
  BY <1>2, <1>3, <1>4 DEF ingest_quote

\* What an accepted event makes of the bars: at most the new volume is added,
\* to the minute of the event.
LEMMA AcceptedBars ==
    ASSUME WatchInv, NEW e, EventFits(e), Accepted(e)
    PROVE  /\ bars' \in [Minutes -> Nat]
           /\ \A m \in Minutes \ {Minute(e.event_at)} : bars'[m] = bars[m]
           /\ ~same_trading_date(e) => bars' = bars
           /\ same_trading_date(e) =>
                  /\ Minute(e.event_at) \in Minutes
                  /\ ~misdated => stream.cumulative_volume <= e.cumulative_volume
                  /\ ~misdated => bars'[Minute(e.event_at)] <=
                         bars[Minute(e.event_at)] + (e.cumulative_volume - stream.cumulative_volume)
<1>1. PICK n, new, old : /\ n = Minute(e.event_at) /\ new = e.cumulative_volume
                         /\ old = stream.cumulative_volume
  OBVIOUS
<1>2. /\ n \in Minutes /\ new \in Nat /\ old \in Nat /\ bars \in [Minutes -> Nat] /\ bars[n] \in Nat
  <2>1. n \in Minutes /\ new \in Nat
    <3>1. e.event_at \in Nat \ {0} /\ e.event_at <= now /\ now \in 1..MaxTime
      BY WatchTypes DEF EventFits, Accepted, WatchInv
    <3>2. e.event_at \in Times
      BY <3>1, WatchAssumption DEF Times
    <3>3. QED
      BY <1>1, <3>2 DEF EventFits, Minutes
  <2>2. QED
    BY <1>1, <2>1, WatchTypes DEF WatchInv, WatchTypeOK
<1>3. same_trading_date(e) /\ ~misdated => old <= new
  BY <1>1, <1>2 DEF Accepted, volume_regression
<1>4. CASE bars' = bars
  BY <1>1, <1>2, <1>3, <1>4
<1>5. CASE same_trading_date(e) /\ new > old /\ bars' = [bars EXCEPT ![n] = bars[n] + new - old]
  <2>1. bars[n] + new - old \in Nat
    BY <1>2, <1>3, <1>5
  <2>2. bars' \in [Minutes -> Nat] /\ bars'[n] = bars[n] + new - old
    BY <1>2, <1>5, <2>1
  <2>3. \A m \in Minutes \ {n} : bars'[m] = bars[m]
    BY <1>2, <1>5
  <2>4. QED
    BY <1>1, <1>2, <1>3, <1>5, <2>2, <2>3
<1>6. QED
  BY <1>1, <1>4, <1>5 DEF Accepted, update_market_analysis

LEMMA AcceptedAhead ==
    ASSUME WatchInv, NEW e, EventFits(e), Accepted(e)
    PROVE  AheadIsEmpty'
<1>1. SUFFICES ASSUME NEW m \in Minutes,
                      stream'.event_at > 0 => trading_date(Start(m)) > trading_date(stream'.event_at)
               PROVE  bars'[m] = 0
  BY DEF AheadIsEmpty, Known
<1>2. /\ e.event_at \in Nat \ {0} /\ stream'.event_at = e.event_at /\ stream.event_at \in Nat
      /\ stream.event_at <= e.event_at
  BY WatchTypes, SMTT(40) DEF EventFits, Accepted, WatchInv
<1>3. trading_date(Start(m)) > trading_date(e.event_at)
  BY <1>1, <1>2
<1>4. m # Minute(e.event_at)
  <2>1. /\ trading_date(Start(Minute(e.event_at))) \in Nat /\ trading_date(e.event_at) \in Nat
        /\ trading_date(Start(Minute(e.event_at))) <= trading_date(e.event_at)
    BY <1>2, MinuteStart
  <2>2. QED
    BY <1>3, <2>1
<1>5. bars'[m] = bars[m]
  BY <1>4, AcceptedBars
<1>6. Known => trading_date(Start(m)) > trading_date(stream.event_at)
  <2>1. SUFFICES ASSUME Known
                 PROVE  trading_date(Start(m)) > trading_date(stream.event_at)
    OBVIOUS
  <2>2. stream.event_at \in Nat \ {0}
    BY <1>2, <2>1 DEF Known
  <2>3. /\ trading_date(stream.event_at) \in Nat /\ trading_date(e.event_at) \in Nat
        /\ trading_date(stream.event_at) <= trading_date(e.event_at)
    BY <1>2, <2>2, DatesGrow
  <2>4. QED
    BY <1>3, <2>3, MinuteDates
<1>7. QED
  BY <1>5, <1>6 DEF WatchInv, AheadIsEmpty

\* An event of another day than the stream finds the bars of its day empty.
LEMMA AcceptedNewDay ==
    ASSUME WatchInv, NEW e, EventFits(e), Accepted(e), ~same_trading_date(e)
    PROVE  BarsCounted'
<1>1. /\ e.event_at \in Nat \ {0} /\ stream.event_at \in Nat /\ stream.event_at <= e.event_at
      /\ stream'.event_at = e.event_at /\ stream'.cumulative_volume = e.cumulative_volume
      /\ e.cumulative_volume \in Nat /\ opening' = e.cumulative_volume
  BY WatchTypes, SMTT(40) DEF EventFits, Accepted, WatchInv
<1>2. bars' = bars
  BY AcceptedBars
<1>3. PICK v : v = Today'
  OBVIOUS
<1>4. \A m \in Minutes : v[m] = IF trading_date(Start(m)) = trading_date(e.event_at) THEN bars[m] ELSE 0
  BY <1>1, <1>2, <1>3 DEF Today
<1>5. ASSUME NEW m \in Minutes
      PROVE  v[m] = 0
  <2>1. CASE trading_date(Start(m)) # trading_date(e.event_at)
    BY <1>4, <2>1
  <2>2. CASE trading_date(Start(m)) = trading_date(e.event_at)
    <3>1. ASSUME Known
          PROVE  trading_date(Start(m)) > trading_date(stream.event_at)
      <4>1. stream.event_at \in Nat \ {0} /\ trading_date(e.event_at) # trading_date(stream.event_at)
        BY <1>1, <3>1 DEF Known, same_trading_date
      <4>2. /\ trading_date(stream.event_at) \in Nat /\ trading_date(e.event_at) \in Nat
            /\ trading_date(stream.event_at) <= trading_date(e.event_at)
        BY <1>1, <4>1, DatesGrow
      <4>3. QED
        BY <2>2, <4>1, <4>2
    <3>2. bars[m] = 0
      BY <3>1 DEF WatchInv, AheadIsEmpty
    <3>3. QED
      BY <1>4, <2>2, <3>2
  <2>3. QED
    BY <2>1, <2>2
<1>6. Total(v, Minutes) = 0
  <2>1. \A x \in Minutes : v[x] \in Nat
    BY <1>5
  <2>2. PICK W : W = {}
    OBVIOUS
  <2>3. W \subseteq Minutes /\ \A x \in Minutes \ W : v[x] = 0
    BY <1>5, <2>2
  <2>4. Total(v, W) = Total(v, Minutes)
    BY <2>1, <2>3, MinutesFinite, TotalOfPart
  <2>5. Total(v, W) = 0
    BY <2>1, <2>2, <2>3, MinutesFinite, TotalStep
  <2>6. QED
    BY <2>4, <2>5
<1>7. QED
  BY <1>1, <1>3, <1>6 DEF BarsCounted

\* An event of the day of the stream adds to the bars at most what it adds to
\* the volume.
LEMMA AcceptedSameDay ==
    ASSUME WatchInv, NEW e, EventFits(e), Accepted(e), same_trading_date(e), ~misdated
    PROVE  BarsCounted'
<1>1. /\ trading_date(e.event_at) = trading_date(stream.event_at) /\ Known
      /\ stream'.event_at = e.event_at /\ stream'.cumulative_volume = e.cumulative_volume
      /\ opening' = opening
  BY DEF same_trading_date, Accepted
<1>2. PICK n, new, old, d : /\ n = Minute(e.event_at) /\ new = e.cumulative_volume
                            /\ old = stream.cumulative_volume /\ d = trading_date(e.event_at)
  OBVIOUS
<1>3. /\ n \in Minutes /\ new \in Nat /\ old \in Nat /\ old <= new /\ opening \in Nat
      /\ bars'[n] <= bars[n] + (new - old)
      /\ \A m \in Minutes \ {n} : bars'[m] = bars[m]
      /\ \A m \in Minutes : bars[m] \in Nat /\ bars'[m] \in Nat
  BY <1>2, AcceptedBars, WatchTypes DEF EventFits, WatchInv
<1>4. PICK u, v : u = Today' /\ v = Today
  OBVIOUS
<1>5. \A m \in Minutes : /\ v[m] = IF trading_date(Start(m)) = d THEN bars[m] ELSE 0
                         /\ u[m] = IF trading_date(Start(m)) = d THEN bars'[m] ELSE 0
  BY <1>1, <1>2, <1>4 DEF Today
<1>6. /\ \A m \in Minutes : u[m] \in Nat /\ v[m] \in Nat
      /\ \A m \in Minutes \ {n} : u[m] = v[m]
  BY <1>3, <1>5
<1>7. /\ Total(u, Minutes) \in Nat /\ Total(v, Minutes) \in Nat
      /\ Total(u, Minutes) + v[n] = Total(v, Minutes) + u[n]
  BY <1>3, <1>6, MinutesFinite, TotalChange
<1>8. u[n] <= v[n] + (new - old)
  <2>1. CASE trading_date(Start(n)) = d
    BY <1>3, <1>5, <2>1
  <2>2. CASE trading_date(Start(n)) # d
    BY <1>3, <1>5, <2>2
  <2>3. QED
    BY <2>1, <2>2
<1>9. opening + Total(v, Minutes) <= old
  BY <1>1, <1>2, <1>4 DEF WatchInv, BarsCounted
<1>10. opening + Total(u, Minutes) <= new
  <2>1. PICK a \in Nat, b \in Nat, c \in Nat, x \in Nat :
            a = u[n] /\ b = v[n] /\ c = Total(u, Minutes) /\ x = Total(v, Minutes)
    BY <1>3, <1>6, <1>7
  <2>2. c + b = x + a /\ a <= b + (new - old) /\ opening + x <= old
    BY <1>7, <1>8, <1>9, <2>1
  <2>3. opening + c <= new
    BY <1>3, <2>2
  <2>4. QED
    BY <2>1, <2>3
<1>11. QED
  BY <1>1, <1>2, <1>4, <1>10 DEF BarsCounted

\* The snapshot does not go back.
GoesOn ==
    \/ stream'.event_at > stream.event_at
    \/ /\ stream'.event_at = stream.event_at
       /\ stream'.cumulative_volume >= stream.cumulative_volume \/ misdated

LEMMA IngestKeepsInv ==
    ASSUME WatchInv, NEW e, EventFits(e), ingest_quote(e), UNCHANGED <<now, trades, books>>,
           trade_cache' \in [trade : 0..Len(trades), event_at : Nat], CacheFits',
           misdated' \in BOOLEAN, misdated => misdated',
           ~misdated' => TradedThat(e.event_at, e.cumulative_volume)
    PROVE  WatchInv' /\ GoesOn
<1>1. /\ WatchTypeOK /\ stream.event_at \in Nat /\ stream.cumulative_volume \in Nat
      /\ e.event_at \in Nat \ {0} /\ e.cumulative_volume \in Nat /\ (PerDay < now)'
  BY WatchTypes DEF WatchInv, EventFits
<1>2. CASE Ignored
  <2>1. WatchTypeOK'
    BY <1>1, <1>2 DEF WatchTypeOK, Ignored
  <2>2. StreamFollows'
    BY <1>2 DEF WatchInv, StreamFollows, Known, TradedThat, DayVolumes, Ignored
  <2>3. AheadIsEmpty'
    BY <1>2 DEF WatchInv, AheadIsEmpty, Known, Ignored
  <2>4. Today' = Today
    BY <1>2 DEF Today, Ignored
  <2>5. BarsCounted'
    BY <1>2, <2>4 DEF WatchInv, BarsCounted, Known, Ignored
  <2>6. GoesOn
    BY <1>1, <1>2 DEF GoesOn, Ignored
  <2>7. QED
    BY <1>1, <2>1, <2>2, <2>3, <2>5, <2>6 DEF WatchInv
<1>3. CASE Accepted(e)
  <2>1. WatchTypeOK'
    <3>1. opening' \in Nat
      BY <1>1, <1>3 DEF Accepted, WatchTypeOK
    <3>2. bars' \in [Minutes -> Nat]
      BY <1>3, AcceptedBars
    <3>3. QED
      BY <1>1, <1>3, <3>1, <3>2 DEF WatchTypeOK, Accepted
  <2>2. StreamFollows'
    BY <1>3 DEF Accepted, StreamFollows, TradedThat, DayVolumes
  <2>3. AheadIsEmpty'
    BY <1>3, AcceptedAhead
  <2>4. BarsCounted'
    <3>1. CASE misdated
      BY <3>1 DEF BarsCounted
    <3>2. CASE ~misdated
      BY <1>3, <3>2, AcceptedNewDay, AcceptedSameDay
    <3>3. QED
      BY <3>1, <3>2
  <2>5. GoesOn
    <3>1. CASE e.event_at = stream.event_at /\ ~misdated
      <4>1. same_trading_date(e)
        BY <1>1, <3>1 DEF same_trading_date, Known
      <4>2. stream.cumulative_volume <= e.cumulative_volume
        BY <1>1, <1>3, <3>1, <4>1 DEF Accepted, volume_regression
      <4>3. QED
        BY <1>1, <1>3, <3>1, <4>2 DEF Accepted, GoesOn
    <3>2. CASE e.event_at = stream.event_at /\ misdated
      BY <1>3, <3>2 DEF Accepted, GoesOn
    <3>3. CASE e.event_at # stream.event_at
      BY <1>1, <1>3, <3>3 DEF Accepted, GoesOn
    <3>4. QED
      BY <3>1, <3>2, <3>3
  <2>6. QED
    BY <1>1, <2>1, <2>2, <2>3, <2>4, <2>5 DEF WatchInv
<1>4. QED
  BY <1>2, <1>3, Ingests

\* A frame of the WebSocket carries a trade that was published.
LEMMA FrameFits ==
    ASSUME WatchInv, NEW k \in 1..Len(trades), NEW t \in Nat \ {0}, NEW cached, NEW id, NEW updates,
           cached = [trade |-> k, event_at |-> t]
    PROVE  LET e == Event(cached, id, updates)
           IN  /\ EventFits(e)
               /\ t = trades[k].at => TradedThat(e.event_at, e.cumulative_volume)
<1>1. PICK e : e = Event(cached, id, updates)
  OBVIOUS
<1>2. /\ e.source = "KIWOOM_WS" /\ e.event_at = t /\ e.cumulative_volume = trades[k].volume
      /\ e.recovery_snapshot = FALSE
  BY <1>1 DEF Event
<1>3. trades[k].volume \in Nat
  BY WatchTypes DEF WatchInv
<1>4. EventFits(e)
  BY <1>2, <1>3 DEF EventFits
<1>5. t = trades[k].at => TradedThat(e.event_at, e.cumulative_volume)
  BY <1>2, <1>3, DayVolumesAre DEF TradedThat, WatchInv
<1>6. QED
  BY <1>1, <1>4, <1>5

LEMMA ReceiveTradeKeepsInv ==
    ASSUME WatchInv, NEW k \in 1..Len(trades), ReceiveTrade(k)
    PROVE  WatchInv' /\ GoesOn
<1>1. PICK t : t = _event_time(TimeOfDay(trades[k].at), now)
  OBVIOUS
<1>2. t \in Nat \ {0}
  BY <1>1, WatchTypes, EventTimeIsSecond DEF WatchInv
<1>3. PICK cached : cached = [trade |-> k, event_at |-> t]
  OBVIOUS
<1>4. PICK e : e = Event(cached, <<"0B", k>>, TRUE)
  OBVIOUS
<1>5. EventFits(e) /\ (t = trades[k].at => TradedThat(e.event_at, e.cumulative_volume))
  BY <1>2, <1>3, <1>4, FrameFits
<1>6. /\ ingest_quote(e) /\ UNCHANGED <<now, trades, books>> /\ trade_cache' = cached
      /\ misdated' = (misdated \/ t # trades[k].at)
  BY <1>1, <1>3, <1>4 DEF ReceiveTrade
<1>7. trade_cache' \in [trade : 0..Len(trades), event_at : Nat]
  BY <1>2, <1>3, <1>6, WatchTypes DEF WatchInv
<1>8. misdated' \in BOOLEAN /\ (misdated => misdated') /\ (~misdated' => t = trades[k].at)
  BY <1>6, Zenon DEF WatchInv, WatchTypeOK
<1>9. CacheFits'
  BY <1>2, <1>3, <1>6, <1>8 DEF CacheFits
<1>10. QED
  BY <1>5, <1>6, <1>7, <1>8, <1>9, IngestKeepsInv

LEMMA ReceiveBookKeepsInv ==
    ASSUME WatchInv, NEW b \in 1..books, ReceiveBook(b)
    PROVE  WatchInv' /\ GoesOn
<1>1. trade_cache \in [trade : 0..Len(trades), event_at : Nat] /\ misdated \in BOOLEAN
  BY DEF WatchInv, WatchTypeOK
<1>2. PICK k \in 1..Len(trades), t \in Nat \ {0} :
          k = trade_cache.trade /\ t = trade_cache.event_at /\ (~misdated => t = trades[k].at)
  BY DEF WatchInv, CacheFits, ReceiveBook
<1>3. trade_cache = [trade |-> k, event_at |-> t]
  BY <1>1, <1>2
<1>4. PICK e : e = Event(trade_cache, <<"0D", b>>, FALSE)
  OBVIOUS
<1>5. EventFits(e) /\ (t = trades[k].at => TradedThat(e.event_at, e.cumulative_volume))
  BY <1>3, <1>4, FrameFits
<1>6. ingest_quote(e) /\ UNCHANGED <<now, trades, books, trade_cache, misdated>>
  BY <1>4 DEF ReceiveBook
<1>7. CacheFits'
  BY <1>6 DEF WatchInv, CacheFits
<1>8. QED
  BY <1>1, <1>2, <1>5, <1>6, <1>7, IngestKeepsInv

\* A snapshot over REST has the volume of the day, which is not behind the
\* stream.
LEMMA RestKeepsInv ==
    ASSUME WatchInv, normalize_basic_quote
    PROVE  WatchInv' /\ GoesOn
<1>1. PICK volume \in DayVolumes(trading_date(now)) :
          /\ \A v \in DayVolumes(trading_date(now)) : v <= volume
          /\ ingest_quote([source |-> "KIWOOM_REST_KA10001", sequence_or_hash |-> <<"REST", now>>,
                           event_at |-> now, cumulative_volume |-> volume,
                           recovery_snapshot |-> TRUE, updates_trade |-> FALSE])
  BY DEF normalize_basic_quote
<1>2. PICK e : e = [source |-> "KIWOOM_REST_KA10001", sequence_or_hash |-> <<"REST", now>>,
                    event_at |-> now, cumulative_volume |-> volume,
                    recovery_snapshot |-> TRUE, updates_trade |-> FALSE]
  OBVIOUS
<1>3. /\ e.source = "KIWOOM_REST_KA10001" /\ e.event_at = now /\ e.cumulative_volume = volume
      /\ e.recovery_snapshot = TRUE
  BY <1>2
<1>4. ingest_quote(e) /\ UNCHANGED <<now, trades, books, trade_cache, misdated>>
  BY <1>1, <1>2 DEF normalize_basic_quote
<1>5. volume \in Nat /\ now \in Nat \ {0} /\ stream.cumulative_volume \in Nat
  BY <1>1, DayVolumesAre, WatchTypes DEF WatchInv
<1>6. TradedThat(e.event_at, e.cumulative_volume)
  BY <1>1, <1>3, <1>5 DEF TradedThat
<1>7. misdated \/ ~volume_regression(e)
  <2>1. SUFFICES ASSUME ~misdated, same_trading_date(e)
                 PROVE  ~(e.cumulative_volume < stream.cumulative_volume)
    BY DEF volume_regression
  <2>2. PICK v \in DayVolumes(trading_date(stream.event_at)) : stream.cumulative_volume <= v
    BY <2>1 DEF same_trading_date, WatchInv, StreamFollows, TradedThat
  <2>3. v \in DayVolumes(trading_date(now)) /\ v \in Nat
    BY <1>3, <2>1, <2>2, DayVolumesAre DEF same_trading_date, WatchInv
  <2>4. QED
    BY <1>1, <1>3, <1>5, <2>2, <2>3
<1>8. EventFits(e)
  BY <1>3, <1>5, <1>7 DEF EventFits
<1>9. CacheFits'
  BY <1>4 DEF WatchInv, CacheFits
<1>10. trade_cache' \in [trade : 0..Len(trades), event_at : Nat] /\ misdated' \in BOOLEAN
  BY <1>4 DEF WatchInv, WatchTypeOK
<1>11. QED
  BY <1>4, <1>6, <1>8, <1>9, <1>10, IngestKeepsInv

\* A trade is appended: what was traded stays so.
LEMMA TradeKeepsInv ==
    ASSUME WatchInv, NEW t \in Times, Trade(t)
    PROVE  WatchInv' /\ GoesOn
<1>1. PICK T : T = [at : Times, volume : Nat]
  OBVIOUS
<1>2. PICK n : n = Len(trades)
  OBVIOUS
<1>3. /\ trades \in Seq(T) /\ n \in Nat
      /\ \A k \in 1..n : trades[k].volume \in Nat
  BY <1>1, <1>2, WatchTypes DEF WatchInv, WatchTypeOK
<1>4. PICK new : new = [at |-> t, volume |-> IF trades # <<>> /\ trading_date(Last.at) = trading_date(t)
                                             THEN Last.volume + 1 ELSE 1]
  OBVIOUS
<1>5. /\ trades' = Append(trades, new)
      /\ UNCHANGED <<now, books, trade_cache, stored, stream, bars, verified, opening, misdated>>
  BY <1>4 DEF Trade
<1>6. new \in T
  <2>1. trades # <<>> => Last.volume \in Nat
    BY <1>2, <1>3 DEF Last
  <2>2. QED
    BY <1>1, <1>4, <2>1
<1>7. /\ trades' \in Seq(T) /\ Len(trades') = n + 1
      /\ \A k \in 1..n : k \in 1..(n + 1) /\ trades'[k] = trades[k]
  BY <1>2, <1>3, <1>5, <1>6
<1>8. WatchTypeOK'
  <2>1. trade_cache' \in [trade : 0..Len(trades'), event_at : Nat]
    BY <1>2, <1>3, <1>5, <1>7 DEF WatchInv, WatchTypeOK
  <2>2. trades' \in Seq([at : Times, volume : Nat])
    BY <1>1, <1>7
  <2>3. QED
    BY <1>5, <2>1, <2>2 DEF WatchInv, WatchTypeOK
<1>9. CacheFits'
  BY <1>2, <1>5, <1>7 DEF WatchInv, CacheFits
<1>10. StreamFollows'
  <2>1. \A d : DayVolumes(d) \subseteq DayVolumes(d)'
    BY <1>2, <1>7 DEF DayVolumes
  <2>2. QED
    BY <1>5, <2>1 DEF WatchInv, StreamFollows, Known, TradedThat
<1>11. AheadIsEmpty' /\ Today' = Today /\ (PerDay < now)'
  BY <1>5 DEF WatchInv, AheadIsEmpty, Known, Today
<1>12. BarsCounted'
  BY <1>5, <1>11 DEF WatchInv, BarsCounted, Known
<1>13. GoesOn
  BY <1>5, WatchTypes DEF WatchInv, GoesOn
<1>14. QED
  BY <1>8, <1>9, <1>10, <1>11, <1>12, <1>13 DEF WatchInv

\* The clock, orderbooks, a new connection.
LEMMA AsideKeepsInv ==
    ASSUME WatchInv, UNCHANGED <<trades, stream, bars, verified, opening, misdated>>,
           now' \in 1..MaxTime, now <= now', books' \in 0..MaxBooks,
           trade_cache' \in {trade_cache, NoTrade}
    PROVE  WatchInv' /\ GoesOn
<1>1. NoTrade \in [trade : 0..Len(trades), event_at : Nat]
  BY WatchTypes DEF WatchInv, NoTrade
<1>2. WatchTypeOK'
  BY <1>1 DEF WatchInv, WatchTypeOK
<1>3. CacheFits'
  BY DEF WatchInv, CacheFits
<1>4. stream.event_at <= now' /\ PerDay < now'
  <2>1. /\ stream.event_at \in Nat /\ PerDay \in Nat /\ now \in Nat /\ now' \in Nat
        /\ stream.event_at <= now /\ PerDay < now
    BY WatchAssumption, WatchTypes DEF WatchInv, StreamFollows
  <2>2. QED
    BY <2>1
<1>5. StreamFollows'
  BY <1>4 DEF WatchInv, StreamFollows, Known, TradedThat, DayVolumes
<1>6. AheadIsEmpty' /\ Today' = Today
  BY DEF WatchInv, AheadIsEmpty, Known, Today
<1>7. BarsCounted'
  BY <1>6 DEF WatchInv, BarsCounted, Known
<1>8. GoesOn
  BY WatchTypes DEF WatchInv, GoesOn
<1>9. QED
  BY <1>2, <1>3, <1>4, <1>5, <1>6, <1>7, <1>8 DEF WatchInv

LEMMA WatchStep ==
    ASSUME WatchInv, [WatchNext]_watchVars
    PROVE  WatchInv' /\ GoesOn
<1>1. /\ now \in 1..MaxTime /\ now \in Nat /\ MaxTime \in Nat /\ books \in 0..MaxBooks /\ MaxBooks \in Nat
  BY WatchAssumption, WatchTypes DEF WatchInv, WatchTypeOK
<1>2. CASE Tick
  BY <1>1, <1>2, AsideKeepsInv DEF Tick
<1>3. ASSUME NEW t \in Times, Trade(t)
      PROVE  WatchInv' /\ GoesOn
  BY <1>3, TradeKeepsInv
<1>4. CASE Quote
  BY <1>1, <1>4, AsideKeepsInv DEF Quote
<1>5. ASSUME NEW k \in 1..Len(trades), ReceiveTrade(k)
      PROVE  WatchInv' /\ GoesOn
  BY <1>5, ReceiveTradeKeepsInv
<1>6. ASSUME NEW b \in 1..books, ReceiveBook(b)
      PROVE  WatchInv' /\ GoesOn
  BY <1>6, ReceiveBookKeepsInv
<1>7. CASE Reopen
  BY <1>1, <1>7, AsideKeepsInv DEF Reopen
<1>8. CASE normalize_basic_quote
  BY <1>8, RestKeepsInv
<1>9. CASE UNCHANGED watchVars
  BY <1>1, <1>9, AsideKeepsInv DEF watchVars
<1>10. QED
  BY <1>2, <1>3, <1>4, <1>5, <1>6, <1>7, <1>8, <1>9 DEF WatchNext

LEMMA WatchInitInv ==
    ASSUME WatchInit
    PROVE  WatchInv
<1>1. stream = [source |-> "KIWOOM_WS", event_at |-> 0, cumulative_volume |-> 0, quality |-> "NORMAL"]
  BY DEF WatchInit
<1>2. stream \in Stream /\ ~Known
  BY <1>1 DEF Stream, Known
<1>3. trades = <<>> /\ Len(trades) = 0
  BY DEF WatchInit
<1>4. WatchTypeOK
  <2>1. PerDay + 1 \in 1..MaxTime /\ 0 \in 0..MaxTime /\ 0 \in 0..MaxBooks
    BY WatchAssumption
  <2>2. bars \in [Minutes -> Nat]
    BY DEF WatchInit
  <2>3. trades \in Seq([at : Times, volume : Nat]) /\ 0 \in 0..Len(trades)
    <3>1. PICK T : T = [at : Times, volume : Nat]
      OBVIOUS
    <3>2. <<>> \in Seq(T)
      OBVIOUS
    <3>3. QED
      BY <1>3, <3>1, <3>2
  <2>4. NoTrade \in [trade : 0..Len(trades), event_at : Nat]
    BY <2>3 DEF NoTrade
  <2>5. QED
    BY <1>2, <2>1, <2>2, <2>3, <2>4 DEF WatchInit, WatchTypeOK
<1>5. CacheFits
  BY DEF CacheFits, WatchInit
<1>6. StreamFollows /\ PerDay < now
  BY <1>1, <1>2, WatchAssumption DEF StreamFollows, WatchInit
<1>7. AheadIsEmpty
  BY DEF AheadIsEmpty, WatchInit
<1>8. BarsCounted
  BY <1>2 DEF BarsCounted
<1>9. QED
  BY <1>4, <1>5, <1>6, <1>7, <1>8 DEF WatchInv

LEMMA WatchInvHolds == WatchSpec => []WatchInv
<1>1. WatchInit => WatchInv
  BY WatchInitInv
<1>2. WatchInv /\ [WatchNext]_watchVars => WatchInv'
  BY WatchStep
<1>3. QED
  BY <1>1, <1>2, PTL DEF WatchSpec

\* The stream, the bars and the caches of the WebSocket keep their types: a
\* bar never gets a negative volume, and the cache names a trade that exists.
THEOREM WatchTypeCorrect == WatchSpec => []WatchTypeOK
<1>1. WatchInv => WatchTypeOK
  BY DEF WatchInv
<1>2. QED
  BY <1>1, WatchInvHolds, PTL

\* Whatever order frames, recovery snapshots and reconnections come in, and
\* for any length of minutes and days, the bars that update_market_analysis
\* fills for a day have together at most the volume that was traded since
\* the first quote of that day, as long as _event_time gave every trade that
\* was received its own time (EventTimeIsRight says when it does).
THEOREM WatchCountsOnce == WatchSpec => []VolumeIsNotCountedTwice
<1>1. WatchInv => VolumeIsNotCountedTwice
  BY WatchInvImplies
<1>2. QED
  BY <1>1, WatchInvHolds, PTL

\* No step of ingest_quote, and no other, replaces the current snapshot by
\* one of an earlier second, whatever date _event_time gave it, or by a smaller
\* volume in the same second, unless a trade was misdated before.
THEOREM WatchNeverGoesBack == WatchSpec => SnapshotNeverGoesBack
<1>1. WatchInv /\ [WatchNext]_watchVars => GoesOn
  BY WatchStep
<1>2. WatchInv /\ [WatchNext]_watchVars =>
          [\/ stream'.event_at > stream.event_at
           \/ /\ stream'.event_at = stream.event_at
              /\ stream'.cumulative_volume >= stream.cumulative_volume \/ misdated]_watchVars
  BY <1>1 DEF GoesOn
<1>3. QED
  BY <1>2, WatchInvHolds, PTL DEF WatchSpec, SnapshotNeverGoesBack
=============================================================================
