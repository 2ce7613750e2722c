------------------------- MODULE StopTriggerProofs -------------------------
(***************************************************************************)
(* The types, SignalIsKept and OneStopOrder of the stop triggers, for any  *)
(* number of positions, evaluators, shares, versions and trigger rows.     *)
(***************************************************************************)
EXTENDS StopTrigger, FiniteSetTheorems, TLAPS

USE StopAssumption

\* Rows are numbered from 1 in the order of their insertion, without gaps.
UsedUpTo(n) == \A t \in Ids : t \in Used <=> t <= n
NumberedInOrder == \E n \in 0..MaxTriggers : UsedUpTo(n)

\* A row is about a version that its position has or had, and only a row has
\* an order.
Placed(t) ==
    /\ trigger[t].position \in Positions
    /\ trigger[t].version <= position[trigger[t].position].version
RowsFit == \A t \in Ids : /\ t \in Used => Placed(t)
                          /\ order[t].status # "none" => t \in Used

\* The position was closed or has left the version.
Gone(p, version) == ~position[p].open \/ version < position[p].version

\* An evaluated trigger is still the row that was read, as far as position
\* and version go; when it is fulfilled it is sold, and it is superseded only
\* when its position is gone, which stays true until it is written.
ItemFits(i) ==
    /\ i.was.position \in Positions
    /\ i.new.position = i.was.position
    /\ i.new.version = i.was.version
    /\ i.was.version <= position[i.was.position].version
    /\ i.new.state \in {"SUPERSEDED", "SHADOW_RECORDED", "EXIT_PENDING", "FULFILLED"}
    /\ i.new.state = "FULFILLED" => i.sell > 0
    /\ i.new.state = "SUPERSEDED" => i.id # 0 /\ Gone(i.was.position, i.was.version)
    /\ i.id # 0 => /\ i.id \in Used
                   /\ trigger[i.id].position = i.was.position
                   /\ trigger[i.id].version = i.was.version

\* A tick has one item of a position, and supersedes only what is gone.
TickFits(e) ==
    /\ \A i \in tick[e].items : ItemFits(i)
    /\ \A i, j \in tick[e].items : i.was.position = j.was.position => i = j
    /\ tick[e].at = "recover" => \A i \in tick[e].items : i.id # 0
    /\ \A t \in tick[e].stale : t \in Used /\ Gone(trigger[t].position, trigger[t].version)
    /\ tick[e].todo \subseteq Used

TicksFit == \A e \in Evaluators : TickFits(e)

StopInv == TypeOK /\ NumberedInOrder /\ RowsFit /\ TicksFit

\* While no two ticks overlap, a tick that is about to sell an old row found
\* no active stop order of its position, and none has appeared since.
NothingToSell(p) == \A t \in Ids : trigger[t].position = p => order[t].status # "active"

SalesAreFirst ==
    \A e \in Evaluators : \A i \in tick[e].items :
        i.id # 0 /\ i.sell > 0 => NothingToSell(i.was.position)

IdleIsEmpty == \A e \in Evaluators : tick[e].at = "idle" => tick[e].items = {}
-----------------------------------------------------------------------------
\* What the evaluation of a row comes to.
Outcomes == {"SUPERSEDED", "SHADOW_RECORDED", "EXIT_PENDING", "FULFILLED"}

LEMMA OutcomeRow ==
    ASSUME NEW r \in Trigger, NEW p \in Positions
    PROVE  /\ Supersede(r) \in Trigger /\ Blocked(r) \in Trigger /\ Passed(p, r) \in Trigger
           /\ Supersede(r).state = "SUPERSEDED" /\ Blocked(r).state = "EXIT_PENDING"
           /\ Passed(p, r).state \in {"SHADOW_RECORDED", "EXIT_PENDING", "FULFILLED"}
           /\ Supersede(r).position = r.position /\ Supersede(r).version = r.version
           /\ Blocked(r).position = r.position /\ Blocked(r).version = r.version
           /\ Passed(p, r).position = r.position /\ Passed(p, r).version = r.version
<1>1. \A s \in {"SUPERSEDED", "SHADOW_RECORDED", "EXIT_PENDING", "FULFILLED"} : s \in States
  BY DEF States, ActiveStates
<1>2. Resolved(r.event) \in {"none", "ACTIVE", "RESOLVED"}
  BY DEF Trigger, Resolved
<1>3. /\ Supersede(r) \in Trigger /\ Supersede(r).state = "SUPERSEDED"
      /\ Supersede(r).position = r.position /\ Supersede(r).version = r.version
  BY <1>1, <1>2 DEF Trigger, Supersede
<1>4. /\ Blocked(r) \in Trigger /\ Blocked(r).state = "EXIT_PENDING"
      /\ Blocked(r).position = r.position /\ Blocked(r).version = r.version
  BY <1>1 DEF Trigger, Blocked
<1>5. PICK s : s = IF ~AutoSell THEN "SHADOW_RECORDED"
                   ELSE IF quote[p].bid = "none" THEN "EXIT_PENDING" ELSE "FULFILLED"
  OBVIOUS
<1>6. s \in {"SHADOW_RECORDED", "EXIT_PENDING", "FULFILLED"}
  BY <1>5
<1>7. Passed(p, r) = [r EXCEPT !.state = s, !.event = Resolved(r.event)]
  BY <1>5 DEF Passed, Trigger
<1>8. /\ Passed(p, r) \in Trigger /\ Passed(p, r).state = s
      /\ Passed(p, r).position = r.position /\ Passed(p, r).version = r.version
  BY <1>1, <1>2, <1>6, <1>7 DEF Trigger
<1>9. QED
  BY <1>3, <1>4, <1>6, <1>8

\* The fields of an item, and that it fits when its row does.
LEMMA ItemForFits ==
    ASSUME TypeOK, NEW p \in Positions, NEW t \in {0} \cup Ids, NEW r \in Trigger, NEW new \in Trigger,
           r.position = p, r.version <= position[p].version,
           new.position = r.position, new.version = r.version, new.state \in Outcomes,
           new.state = "FULFILLED" => position[p].managed > 0,
           new.state = "SUPERSEDED" => t # 0 /\ Gone(p, r.version),
           t # 0 => /\ t \in Used
                    /\ trigger[t].position = p
                    /\ trigger[t].version = r.version
    PROVE  /\ ItemFor(p, t, r, new) \in Item
           /\ ItemFits(ItemFor(p, t, r, new))
           /\ ItemFor(p, t, r, new).id = t
           /\ ItemFor(p, t, r, new).was = r
           /\ ItemFor(p, t, r, new).new = new
<1>1. PICK i : i = ItemFor(p, t, r, new)
  OBVIOUS
<1>2. /\ i.id = t /\ i.was = r /\ i.new = new
      /\ i.sell = IF new.state = "FULFILLED" THEN position[p].managed ELSE 0
  BY <1>1 DEF ItemFor
<1>3. position[p].managed \in 0..Shares
  BY DEF TypeOK, Position
<1>4. i.sell \in 0..Shares
  BY <1>2, <1>3
<1>5. i \in Item
  BY <1>1, <1>2, <1>4 DEF Item, ItemFor
<1>6. ItemFits(i)
  BY <1>2, <1>3 DEF ItemFits, Outcomes
<1>7. QED
  BY <1>1, <1>2, <1>5, <1>6

LEMMA ReEvaluatedFits ==
    ASSUME TypeOK, NEW p \in Positions, NEW t \in Ids, NEW r \in Trigger,
           t \in Used, trigger[t].position = p, trigger[t].version = r.version,
           r.position = p, r.version <= position[p].version
    PROVE  LET i == ReEvaluated(p, t, r)
           IN  /\ i \in Item /\ ItemFits(i) /\ i.id = t /\ i.was = r
               /\ i.sell > 0 => AccountPasses(p)
<1>1. PICK new : new = IF ~position[p].open THEN Supersede(r)
                       ELSE IF SellGuardPasses(p, r.version) THEN Passed(p, r) ELSE Blocked(r)
  OBVIOUS
<1>2. /\ new \in Trigger /\ new.position = r.position /\ new.version = r.version
      /\ new.state \in Outcomes
      /\ new.state = "SUPERSEDED" => ~position[p].open
      /\ new.state = "FULFILLED" => SellGuardPasses(p, r.version)
  <2>1. CASE ~position[p].open
    BY <1>1, <2>1, OutcomeRow DEF Outcomes
  <2>2. CASE position[p].open /\ SellGuardPasses(p, r.version)
    BY <1>1, <2>2, OutcomeRow DEF Outcomes
  <2>3. CASE position[p].open /\ ~SellGuardPasses(p, r.version)
    BY <1>1, <2>3, OutcomeRow DEF Outcomes
  <2>4. QED
    BY <2>1, <2>2, <2>3
<1>3. new.state = "FULFILLED" => position[p].managed > 0
  BY <1>2 DEF SellGuardPasses, RowsPass
<1>4. t # 0 /\ t \in {0} \cup Ids
  BY DEF Ids
<1>5. PICK i : i = ItemFor(p, t, r, new)
  OBVIOUS
<1>6. i = ReEvaluated(p, t, r)
  BY <1>1, <1>5 DEF ReEvaluated
<1>7. i \in Item /\ ItemFits(i) /\ i.id = t /\ i.was = r
  BY <1>2, <1>3, <1>4, <1>5, ItemForFits DEF Gone
<1>8. i.sell > 0 => AccountPasses(p)
  <2>1. i.sell = IF new.state = "FULFILLED" THEN position[p].managed ELSE 0
    BY <1>5 DEF ItemFor
  <2>2. QED
    BY <1>2, <2>1 DEF SellGuardPasses
<1>9. QED
  BY <1>6, <1>7, <1>8

LEMMA NewlyFiredFits ==
    ASSUME TypeOK, NEW p \in Positions
    PROVE  LET i == NewlyFired(p)
           IN  i \in Item /\ ItemFits(i) /\ i.id = 0 /\ i.was.position = p
<1>1. PICK r : r = Fresh(p)
  OBVIOUS
<1>2. position[p].version \in 1..MaxVersion
  BY DEF TypeOK, Position
<1>3. r \in Trigger /\ r.position = p /\ r.version = position[p].version /\ r.version <= position[p].version
  <2>1. "PENDING" \in States
    BY DEF States, ActiveStates
  <2>2. QED
    BY <1>1, <1>2, <2>1 DEF Fresh, Trigger
<1>4. PICK new : new = IF RowsPass(p, position[p].version) THEN Passed(p, r) ELSE Blocked(r)
  OBVIOUS
<1>5. /\ new \in Trigger /\ new.position = r.position /\ new.version = r.version
      /\ new.state \in Outcomes /\ new.state # "SUPERSEDED"
      /\ new.state = "FULFILLED" => RowsPass(p, position[p].version)
  <2>1. CASE RowsPass(p, position[p].version)
    BY <1>3, <1>4, <2>1, OutcomeRow DEF Outcomes
  <2>2. CASE ~RowsPass(p, position[p].version)
    BY <1>3, <1>4, <2>2, OutcomeRow DEF Outcomes
  <2>3. QED
    BY <2>1, <2>2
<1>6. new.state = "FULFILLED" => position[p].managed > 0
  BY <1>5 DEF RowsPass
<1>7. PICK i : i = ItemFor(p, 0, r, new)
  OBVIOUS
<1>8. i = NewlyFired(p)
  BY <1>1, <1>4, <1>7 DEF NewlyFired
<1>9. i \in Item /\ ItemFits(i) /\ i.id = 0 /\ i.was = r
  BY <1>3, <1>5, <1>6, <1>7, ItemForFits
<1>10. QED
  BY <1>3, <1>8, <1>9

\* Completion and conflict leave an item a fitting one, of the same row.
LEMMA CompletedFits ==
    ASSUME TypeOK, NEW i \in Item, ItemFits(i)
    PROVE  /\ Completed(i) \in Item /\ ItemFits(Completed(i))
           /\ Completed(i).id = i.id /\ Completed(i).was = i.was
           /\ Completed(i).sell > 0 /\ i.id = 0 => AccountPasses(i.was.position)
           /\ i.id # 0 => Completed(i) = i
<1>1. CASE i.id # 0 \/ AccountPasses(i.was.position)
  BY <1>1 DEF Completed
<1>2. CASE ~(i.id # 0 \/ AccountPasses(i.was.position))
  <2>1. PICK n, b : n = Completed(i) /\ b = Blocked(i.was)
    OBVIOUS
  <2>2. i.was \in Trigger /\ i.was.position \in Positions
    BY DEF Item, ItemFits
  <2>3. b \in Trigger /\ b.state = "EXIT_PENDING" /\ b.position = i.was.position /\ b.version = i.was.version
    BY <2>1, <2>2, OutcomeRow
  <2>4. n = [i EXCEPT !.new = b, !.sell = 0]
    BY <1>2, <2>1 DEF Completed
  <2>5. n \in Item /\ n.id = i.id /\ n.was = i.was /\ n.new = b /\ n.sell = 0
    <3>1. 0 \in 0..Shares
      OBVIOUS
    <3>2. /\ n = [id |-> i.id, was |-> i.was, new |-> b, sell |-> 0]
          /\ i.id \in {0} \cup Ids /\ i.was \in Trigger
      BY <2>4 DEF Item
    <3>3. QED
      BY <2>3, <3>1, <3>2 DEF Item
  <2>6. ItemFits(n)
    BY <2>3, <2>5 DEF ItemFits
  <2>7. QED
    BY <1>2, <2>1, <2>5, <2>6
<1>3. QED
  BY <1>1, <1>2

LEMMA ConflictFits ==
    ASSUME TypeOK, NEW i \in Item, ItemFits(i)
    PROVE  /\ Conflict(i) \in Item /\ ItemFits(Conflict(i))
           /\ Conflict(i).id = i.id /\ Conflict(i).was = i.was /\ Conflict(i).sell = i.sell
<1>1. PICK n : n = Conflict(i)
  OBVIOUS
<1>2. i.new \in Trigger /\ "EXIT_PENDING" \in States
  BY DEF Item, States, ActiveStates
<1>3. PICK b : b = [i.new EXCEPT !.state = "EXIT_PENDING"]
  OBVIOUS
<1>4. b \in Trigger /\ b.state = "EXIT_PENDING" /\ b.position = i.new.position /\ b.version = i.new.version
  BY <1>2, <1>3 DEF Trigger
<1>5. n = [i EXCEPT !.new = b]
  BY <1>1, <1>3 DEF Conflict, Item
<1>6. n \in Item /\ n.id = i.id /\ n.was = i.was /\ n.new = b /\ n.sell = i.sell
  BY <1>4, <1>5 DEF Item
<1>7. ItemFits(n)
  BY <1>4, <1>6 DEF ItemFits
<1>8. QED
  BY <1>1, <1>6, <1>7

-----------------------------------------------------------------------------
(***************************************************************************)
(* What a commit writes.  W are the items that are written, each under its *)
(* number.                                                                 *)
(***************************************************************************)
Number(i, ids) == IF i.id = 0 THEN ids[i] ELSE i.id

ItemsFit(W) ==
    /\ \A i \in W : i \in Item /\ ItemFits(i)
    /\ \A i, j \in W : i.was.position = j.was.position => i = j

\* New rows get numbers that no row has, and no two of them the same.
NumbersFit(W, ids) ==
    /\ \A i \in W : Number(i, ids) \in Ids /\ (i.id = 0 => Number(i, ids) \notin Used)
    /\ \A i, j \in W : i.id = 0 /\ j.id = 0 /\ Number(i, ids) = Number(j, ids) => i = j

LEMMA AppliedRow ==
    ASSUME NEW W, NEW stale, NEW ids, Apply(W, stale, ids), NEW t \in Ids
    PROVE  \/ \E i \in W : /\ Number(i, ids) = t
                           /\ trigger'[t] = IF i.id = 0 THEN i.new ELSE Written(trigger[t], i)
           \/ t \in stale /\ trigger'[t] = Supersede(trigger[t])
           \/ trigger'[t] = trigger[t]
<1>1. trigger'[t] = IF \E i \in W : Number(i, ids) = t
                    THEN LET i == CHOOSE i \in W : Number(i, ids) = t
                         IN  IF i.id = 0 THEN i.new ELSE Written(trigger[t], i)
                    ELSE IF t \in stale THEN Supersede(trigger[t]) ELSE trigger[t]
  BY DEF Apply, Number
<1>2. CASE \E i \in W : Number(i, ids) = t
  <2>1. PICK i : i = CHOOSE x \in W : Number(x, ids) = t
    OBVIOUS
  <2>2. i \in W /\ Number(i, ids) = t
    BY <1>2, <2>1
  <2>3. QED
    BY <1>1, <1>2, <2>1, <2>2
<1>3. CASE ~\E i \in W : Number(i, ids) = t
  BY <1>1, <1>3
<1>4. QED
  BY <1>2, <1>3

LEMMA AppliedOrder ==
    ASSUME NEW W, NEW stale, NEW ids, Apply(W, stale, ids), NEW t \in Ids
    PROVE  /\ \/ order'[t] = order[t]
              \/ \E i \in W : /\ Number(i, ids) = t /\ i.sell > 0 /\ ~Taken(i)
                              /\ order'[t] = [status |-> "active", quantity |-> i.sell]
           /\ \A i \in W : Number(i, ids) = t /\ i.sell > 0 /\ ~Taken(i) => order'[t].status = "active"
<1>1. PICK S : S = {i \in W : Number(i, ids) = t /\ i.sell > 0 /\ ~Taken(i)}
  OBVIOUS
<1>2. order'[t] = IF S = {} THEN order[t]
                  ELSE [status |-> "active", quantity |-> (CHOOSE i \in S : TRUE).sell]
  BY <1>1 DEF Apply, Number
<1>3. CASE S = {}
  BY <1>1, <1>2, <1>3
<1>4. CASE S # {}
  <2>1. PICK i : i = CHOOSE x \in S : TRUE
    OBVIOUS
  <2>2. i \in S
    BY <1>4, <2>1
  <2>3. order'[t] = [status |-> "active", quantity |-> i.sell]
    BY <1>2, <1>4, <2>1
  <2>4. QED
    BY <1>1, <2>2, <2>3
<1>5. QED
  BY <1>3, <1>4

\* The numbers of old and new rows leave no gap.
NoGap(W, ids) ==
    \E m \in 0..MaxTriggers : \A t \in Ids :
        t <= m <=> t \in Used \/ \E i \in W : i.id = 0 /\ Number(i, ids) = t

LEMMA UsedIsInterval ==
    ASSUME NEW n \in 0..MaxTriggers, UsedUpTo(n)
    PROVE  Used = 1..n /\ Cardinality(Used) = n
<1>1. Used \subseteq Ids
  BY DEF Used
<1>2. Used = 1..n
  <2>1. 1..n \subseteq Ids /\ \A t \in Ids : t \in 1..n <=> t <= n
    BY DEF Ids
  <2>2. \A t \in Ids : t \in Used <=> t \in 1..n
    BY <2>1 DEF UsedUpTo
  <2>3. QED
    BY <1>1, <2>1, <2>2
<1>3. Cardinality(1..n) = n
  BY FS_Interval
<1>4. QED
  BY <1>2, <1>3

LEMMA NewNumbers ==
    ASSUME NumberedInOrder, NEW W, ItemsFit(W), NEW ids \in Numberings(W)
    PROVE  NumbersFit(W, ids) /\ NoGap(W, ids)
<1>1. PICK n \in 0..MaxTriggers : UsedUpTo(n)
  BY DEF NumberedInOrder
<1>2. Used = 1..n /\ Cardinality(Used) = n
  BY <1>1, UsedIsInterval
<1>3. PICK new : new = {i \in W : i.id = 0}
  OBVIOUS
<1>4. PICK k : k = Cardinality(new)
  OBVIOUS
<1>5. PICK free : free = {t \in Ids : n < t /\ t <= n + k}
  OBVIOUS
<1>6. ids \in [new -> free] /\ \A i, j \in new : i # j => ids[i] # ids[j]
  BY <1>2, <1>3, <1>4, <1>5 DEF Numberings
<1>7. ids \in Injection(new, free)
  BY <1>6 DEF Injection, IsInjective
<1>8. IsFiniteSet(free)
  <2>1. IsFiniteSet(Ids)
    BY FS_Interval DEF Ids
  <2>2. QED
    BY <1>5, <2>1, FS_Subset
<1>9. IsFiniteSet(new) /\ k <= Cardinality(free) /\ (k = Cardinality(free) <=> ids \in Surjection(new, free))
  BY <1>4, <1>7, <1>8, FS_Injection
<1>10. k \in Nat
  BY <1>4, <1>9, FS_CardinalityType
<1>11. PICK m \in 0..MaxTriggers : m = IF n + k <= MaxTriggers THEN n + k ELSE MaxTriggers
  BY <1>10
<1>12. free = (n + 1)..m
  BY <1>5, <1>10, <1>11 DEF Ids
<1>13. Cardinality(free) = m - n
  <2>1. Cardinality((n + 1)..m) = IF n + 1 > m THEN 0 ELSE m - (n + 1) + 1
    BY FS_Interval
  <2>2. n <= m
    BY <1>10, <1>11
  <2>3. QED
    BY <1>12, <2>1, <2>2
<1>14. m = n + k /\ ids \in Surjection(new, free)
  BY <1>9, <1>10, <1>11, <1>13
<1>15. NumbersFit(W, ids)
  <2>1. ASSUME NEW i \in W
        PROVE  Number(i, ids) \in Ids /\ (i.id = 0 => Number(i, ids) \notin Used)
    <3>1. CASE i.id = 0
      <4>1. ids[i] \in free
        BY <1>3, <1>6, <3>1
      <4>2. QED
        BY <1>2, <1>5, <3>1, <4>1 DEF Number
    <3>2. CASE i.id # 0
      BY <3>2 DEF Number, ItemsFit, Item
    <3>3. QED
      BY <3>1, <3>2
  <2>2. ASSUME NEW i \in W, NEW j \in W, i.id = 0, j.id = 0, Number(i, ids) = Number(j, ids)
        PROVE  i = j
    BY <1>3, <1>6, <2>2 DEF Number
  <2>3. QED
    BY <2>1, <2>2 DEF NumbersFit
<1>16. ASSUME NEW t \in Ids
       PROVE  t <= m <=> t \in Used \/ \E i \in W : i.id = 0 /\ Number(i, ids) = t
  <2>1. t \in free <=> \E i \in new : ids[i] = t
    BY <1>6, <1>14 DEF Surjection
  <2>2. t \in free <=> \E i \in W : i.id = 0 /\ Number(i, ids) = t
    BY <1>3, <2>1 DEF Number
  <2>3. t <= m <=> t \in 1..n \/ t \in free
    BY <1>12, <1>14, <1>10 DEF Ids
  <2>4. QED
    BY <1>2, <2>2, <2>3
<1>17. QED
  BY <1>15, <1>16 DEF NoGap

LEMMA OldNumbers ==
    ASSUME NumberedInOrder, NEW W, ItemsFit(W), NEW ids, \A i \in W : i.id # 0
    PROVE  NumbersFit(W, ids) /\ NoGap(W, ids)
<1>1. \A i \in W : Number(i, ids) \in Ids
  BY DEF Number, ItemsFit, Item
<1>2. NoGap(W, ids)
  <2>1. PICK n \in 0..MaxTriggers : UsedUpTo(n)
    BY DEF NumberedInOrder
  <2>2. QED
    BY <2>1 DEF NoGap, UsedUpTo
<1>3. QED
  BY <1>1, <1>2 DEF NumbersFit

\* No two items are written under one number.
LEMMA NumberUnique ==
    ASSUME NEW W, ItemsFit(W), NEW ids, NumbersFit(W, ids),
           NEW i \in W, NEW j \in W, Number(i, ids) = Number(j, ids)
    PROVE  i = j
<1>1. CASE i.id = 0 /\ j.id = 0
  BY <1>1 DEF NumbersFit
<1>2. CASE i.id = 0 /\ j.id # 0
  <2>1. Number(i, ids) \notin Used /\ Number(j, ids) \in Used
    BY <1>2 DEF NumbersFit, ItemsFit, ItemFits, Number
  <2>2. QED
    BY <2>1
<1>3. CASE i.id # 0 /\ j.id = 0
  <2>1. Number(j, ids) \notin Used /\ Number(i, ids) \in Used
    BY <1>3 DEF NumbersFit, ItemsFit, ItemFits, Number
  <2>2. QED
    BY <2>1
<1>4. CASE i.id # 0 /\ j.id # 0
  <2>1. i.id = j.id
    BY <1>4 DEF Number
  <2>2. i.was.position = j.was.position
    BY <1>4, <2>1 DEF ItemsFit, ItemFits
  <2>3. QED
    BY <2>2 DEF ItemsFit
<1>5. QED
  BY <1>1, <1>2, <1>3, <1>4

-----------------------------------------------------------------------------
\* A written row: an old one keeps its position and its version and goes no
\* further than to what the item says.
LEMMA WrittenRow ==
    ASSUME NEW r \in Trigger, NEW i \in Item, r.state # "NONE", i.new.state \in Outcomes
    PROVE  /\ Written(r, i) \in Trigger
           /\ Written(r, i).position = r.position /\ Written(r, i).version = r.version
           /\ Written(r, i).state # "NONE"
           /\ Written(r, i).state \in {r.state, i.new.state}
<1>1. i.new \in Trigger
  BY DEF Item
<1>2. PICK s, v : /\ s = IF i.new.state = i.was.state THEN r.state ELSE i.new.state
                  /\ v = IF i.new.event = i.was.event THEN r.event ELSE i.new.event
  OBVIOUS
<1>3. Written(r, i) = [r EXCEPT !.state = s, !.event = v]
  BY <1>2 DEF Written, Trigger
<1>4. s \in States /\ s # "NONE" /\ s \in {r.state, i.new.state} /\ v \in {"none", "ACTIVE", "RESOLVED"}
  BY <1>1, <1>2 DEF Trigger, Outcomes
<1>5. QED
  BY <1>3, <1>4 DEF Trigger

\* What a commit does to a row.
LEMMA CommittedRow ==
    ASSUME StopInv, NEW W, ItemsFit(W), NEW ids, NumbersFit(W, ids),
           NEW stale \in SUBSET Used, Apply(W, stale, ids), NEW t \in Ids
    PROVE  /\ trigger'[t] \in Trigger
           /\ t \in Used => /\ trigger'[t].state # "NONE"
                            /\ trigger'[t].position = trigger[t].position
                            /\ trigger'[t].version = trigger[t].version
           /\ t \notin Used =>
                 \/ trigger'[t] = trigger[t] /\ \A i \in W : Number(i, ids) # t
                 \/ \E i \in W : i.id = 0 /\ Number(i, ids) = t /\ trigger'[t] = i.new
<1>1. trigger[t] \in Trigger /\ (t \in Used <=> trigger[t].state # "NONE")
  BY DEF StopInv, TypeOK, Used
<1>2. CASE \E i \in W : /\ Number(i, ids) = t
                        /\ trigger'[t] = IF i.id = 0 THEN i.new ELSE Written(trigger[t], i)
  <2>1. PICK i \in W : /\ Number(i, ids) = t
                       /\ trigger'[t] = IF i.id = 0 THEN i.new ELSE Written(trigger[t], i)
    BY <1>2
  <2>2. i \in Item /\ ItemFits(i) /\ i.new \in Trigger /\ i.new.state \in Outcomes
    BY DEF ItemsFit, ItemFits, Item, Outcomes
  <2>3. CASE i.id = 0
    <3>1. t \notin Used /\ trigger'[t] = i.new
      BY <2>1, <2>3 DEF NumbersFit
    <3>2. QED
      BY <2>1, <2>2, <2>3, <3>1
  <2>4. CASE i.id # 0
    <3>1. t = i.id /\ t \in Used /\ trigger'[t] = Written(trigger[t], i)
      BY <2>1, <2>2, <2>4 DEF Number, ItemFits
    <3>2. QED
      BY <1>1, <2>2, <3>1, WrittenRow
  <2>5. QED
    BY <2>3, <2>4
<1>3. CASE t \in stale /\ trigger'[t] = Supersede(trigger[t])
  <2>1. /\ Supersede(trigger[t]) \in Trigger /\ Supersede(trigger[t]).state = "SUPERSEDED"
        /\ Supersede(trigger[t]).position = trigger[t].position
        /\ Supersede(trigger[t]).version = trigger[t].version
    <3>1. trigger[t].position \in Positions
      BY <1>3 DEF StopInv, RowsFit, Placed
    <3>2. QED
      BY <1>1, <3>1, OutcomeRow
  <2>2. QED
    BY <1>1, <1>3, <2>1
<1>4. CASE trigger'[t] = trigger[t]
  <2>1. CASE t \in Used
    BY <1>1, <1>4, <2>1
  <2>2. CASE t \notin Used
    <3>1. \A i \in W : Number(i, ids) # t
      <4>1. SUFFICES ASSUME NEW i \in W, Number(i, ids) = t
                     PROVE  FALSE
        OBVIOUS
      <4>2. i.id = 0
        BY <2>2, <4>1 DEF ItemsFit, ItemFits, Number
      <4>3. trigger'[t] = i.new
        <5>1. PICK j \in W : /\ Number(j, ids) = t
                             /\ trigger'[t] = IF j.id = 0 THEN j.new ELSE Written(trigger[t], j)
          <6>1. trigger'[t] = LET j == CHOOSE j \in W : Number(j, ids) = t
                              IN  IF j.id = 0 THEN j.new ELSE Written(trigger[t], j)
            BY <4>1 DEF Apply, Number
          <6>2. PICK j : j = CHOOSE x \in W : Number(x, ids) = t
            OBVIOUS
          <6>3. j \in W /\ Number(j, ids) = t
            BY <4>1, <6>2
          <6>4. QED
            BY <6>1, <6>2, <6>3
        <5>2. j = i
          BY <4>1, <5>1, NumberUnique
        <5>3. QED
          BY <4>2, <5>1, <5>2
      <4>4. i.new.state # "NONE"
        BY DEF ItemsFit, ItemFits
      <4>5. QED
        BY <1>1, <1>4, <2>2, <4>3, <4>4
    <3>2. QED
      BY <1>1, <1>4, <2>2, <3>1
  <2>3. QED
    BY <2>1, <2>2
<1>5. QED
  BY <1>2, <1>3, <1>4, AppliedRow

\* Rows that exist keep their position and version.
RowsKept ==
    \A t \in Used : /\ t \in Used'
                    /\ trigger'[t].position = trigger[t].position
                    /\ trigger'[t].version = trigger[t].version

\* The rows after a commit.
LEMMA CommittedRows ==
    ASSUME StopInv, NEW W, ItemsFit(W), NEW ids, NumbersFit(W, ids), NoGap(W, ids),
           NEW stale \in SUBSET Used, Apply(W, stale, ids), UNCHANGED position
    PROVE  /\ trigger' \in [Ids -> Trigger] /\ order' \in [Ids -> Order]
           /\ RowsKept /\ NumberedInOrder' /\ RowsFit'
<1>1. /\ TypeOK /\ RowsFit
      /\ \A t \in Ids : t \in Used <=> trigger[t].state # "NONE"
      /\ \A t \in Ids : t \in Used' <=> trigger'[t].state # "NONE"
      /\ Used \subseteq Ids
  BY DEF StopInv, Used
<1>2. trigger' \in [Ids -> Trigger]
  <2>1. \A t \in Ids : trigger'[t] \in Trigger
    BY CommittedRow
  <2>2. trigger' = [t \in Ids |-> trigger'[t]]
    BY DEF Apply
  <2>3. QED
    BY <2>1, <2>2
<1>3. order' \in [Ids -> Order]
  <2>1. ASSUME NEW t \in Ids
        PROVE  order'[t] \in Order
    <3>1. order[t] \in Order /\ \A i \in W : i.sell \in 0..Shares
      BY <1>1 DEF TypeOK, ItemsFit, Item
    <3>2. CASE order'[t] = order[t]
      BY <3>1, <3>2
    <3>3. CASE \E i \in W : order'[t] = [status |-> "active", quantity |-> i.sell]
      BY <3>1, <3>3 DEF Order
    <3>4. QED
      BY <3>2, <3>3, AppliedOrder
  <2>2. order' = [t \in Ids |-> order'[t]]
    BY DEF Apply
  <2>3. QED
    BY <2>1, <2>2
<1>4. RowsKept
  BY <1>1, CommittedRow DEF RowsKept
<1>5. ASSUME NEW t \in Ids
      PROVE  t \in Used' <=> t \in Used \/ \E i \in W : i.id = 0 /\ Number(i, ids) = t
  <2>1. CASE t \in Used
    BY <1>4, <2>1 DEF RowsKept
  <2>2. CASE t \notin Used
    <3>1. \A i \in W : i.new.state # "NONE"
      BY DEF ItemsFit, ItemFits
    <3>2. CASE trigger'[t] = trigger[t] /\ \A i \in W : Number(i, ids) # t
      BY <1>1, <2>2, <3>2
    <3>3. CASE \E i \in W : i.id = 0 /\ Number(i, ids) = t /\ trigger'[t] = i.new
      BY <1>1, <3>1, <3>3
    <3>4. QED
      BY <2>2, <3>2, <3>3, CommittedRow
  <2>3. QED
    BY <2>1, <2>2
<1>6. NumberedInOrder'
  <2>1. PICK m \in 0..MaxTriggers : \A t \in Ids :
            t <= m <=> t \in Used \/ \E i \in W : i.id = 0 /\ Number(i, ids) = t
    BY DEF NoGap
  <2>2. \A t \in Ids : t \in Used' <=> t <= m
    BY <1>5, <2>1
  <2>3. QED
    BY <2>2 DEF NumberedInOrder, UsedUpTo
<1>7. ASSUME NEW t \in Ids, t \in Used'
      PROVE  Placed(t)'
  <2>1. CASE t \in Used
    <3>1. trigger'[t].position = trigger[t].position /\ trigger'[t].version = trigger[t].version
      BY <1>4, <2>1 DEF RowsKept
    <3>2. Placed(t)
      BY <1>1, <2>1 DEF RowsFit
    <3>3. QED
      BY <3>1, <3>2 DEF Placed
  <2>2. CASE t \notin Used
    <3>1. PICK i \in W : i.id = 0 /\ Number(i, ids) = t /\ trigger'[t] = i.new
      BY <1>1, <1>7, <2>2, CommittedRow
    <3>2. ItemFits(i)
      BY DEF ItemsFit
    <3>3. QED
      BY <3>1, <3>2 DEF ItemFits, Placed
  <2>3. QED
    BY <2>1, <2>2
<1>8. ASSUME NEW t \in Ids, order'[t].status # "none"
      PROVE  t \in Used'
  <2>1. CASE order'[t] = order[t]
    BY <1>1, <1>4, <1>8, <2>1 DEF RowsFit, RowsKept
  <2>2. CASE \E i \in W : Number(i, ids) = t
    <3>1. PICK i \in W : Number(i, ids) = t
      BY <2>2
    <3>2. CASE i.id = 0
      BY <1>5, <3>1, <3>2
    <3>3. CASE i.id # 0
      <4>1. t \in Used
        BY <3>1, <3>3 DEF Number, ItemsFit, ItemFits
      <4>2. QED
        BY <1>5, <4>1
    <3>4. QED
      BY <3>2, <3>3
  <2>3. \/ order'[t] = order[t]
        \/ \E i \in W : Number(i, ids) = t
    <3>1. SUFFICES ASSUME \A i \in W : Number(i, ids) # t
                   PROVE  order'[t] = order[t]
      OBVIOUS
    <3>2. {i \in W : Number(i, ids) = t /\ i.sell > 0 /\ ~Taken(i)} = {}
      BY <3>1
    <3>3. QED
      BY <3>2 DEF Apply, Number
  <2>4. QED
    BY <2>1, <2>2, <2>3
<1>9. RowsFit'
  BY <1>7, <1>8 DEF RowsFit
<1>10. QED
  BY <1>2, <1>3, <1>4, <1>6, <1>9

-----------------------------------------------------------------------------
(***************************************************************************)
(* What the steps of others leave true of a tick.                          *)
(***************************************************************************)
\* A projection changes a position only with its version.
Onward ==
    \A p \in Positions : \/ position'[p] = position[p]
                         \/ position'[p].version > position[p].version

LEMMA GoneStays ==
    ASSUME TypeOK, TypeOK', Onward, NEW p \in Positions, NEW v \in 0..MaxVersion,
           v <= position[p].version
    PROVE  v <= position'[p].version /\ (Gone(p, v) => Gone(p, v)')
<1>1. position[p].version \in Nat /\ position'[p].version \in Nat
  BY DEF TypeOK, Position
<1>2. CASE position'[p] = position[p]
  BY <1>1, <1>2 DEF Gone
<1>3. CASE position'[p].version > position[p].version
  BY <1>1, <1>3 DEF Gone
<1>4. QED
  BY <1>2, <1>3 DEF Onward

LEMMA ItemKept ==
    ASSUME TypeOK, TypeOK', RowsKept, Onward, NEW i \in Item, ItemFits(i)
    PROVE  ItemFits(i)'
<1>1. i.was.version \in 0..MaxVersion /\ i.was.position \in Positions
      /\ i.was.version <= position[i.was.position].version
  BY DEF Item, Trigger, ItemFits
<1>2. PICK p, v : p = i.was.position /\ v = i.was.version
  OBVIOUS
<1>3. v <= position'[p].version /\ (Gone(p, v) => Gone(p, v)')
  BY <1>1, <1>2, GoneStays
<1>4. i.id # 0 => /\ i.id \in Used'
                  /\ trigger'[i.id].position = i.was.position
                  /\ trigger'[i.id].version = i.was.version
  BY DEF ItemFits, RowsKept
<1>5. QED
  BY <1>2, <1>3, <1>4 DEF ItemFits

LEMMA StaleKept ==
    ASSUME StopInv, TypeOK', RowsKept, Onward, NEW t \in Used,
           Gone(trigger[t].position, trigger[t].version)
    PROVE  t \in Used' /\ Gone(trigger[t].position, trigger[t].version)'
<1>1. PICK p, v : p = trigger[t].position /\ v = trigger[t].version
  OBVIOUS
<1>2. TypeOK /\ t \in Ids
  BY DEF StopInv, Used
<1>3. p \in Positions /\ v \in 0..MaxVersion /\ v <= position[p].version /\ Gone(p, v)
  BY <1>1, <1>2 DEF StopInv, RowsFit, Placed, TypeOK, Trigger
<1>4. Gone(p, v)'
  BY <1>2, <1>3, GoneStays
<1>5. t \in Used' /\ trigger'[t].position = p /\ trigger'[t].version = v
  BY <1>1 DEF RowsKept
<1>6. QED
  BY <1>4, <1>5 DEF Gone

LEMMA OthersKept ==
    ASSUME StopInv, TypeOK', RowsKept, Onward, NEW f \in Evaluators, tick'[f] = tick[f]
    PROVE  TickFits(f)'
<1>1. TypeOK /\ TickFits(f)
  BY DEF StopInv, TicksFit
<1>2. tick[f].items \subseteq Item
  BY <1>1 DEF TypeOK, Tick
<1>3. \A i \in tick[f].items : ItemFits(i)'
  BY <1>1, <1>2, ItemKept DEF TickFits
<1>4. \A t \in tick[f].stale : t \in Used' /\ Gone(trigger[t].position, trigger[t].version)'
  BY <1>1, StaleKept DEF TickFits
<1>5. \A t \in tick[f].todo : t \in Used'
  BY <1>1 DEF TickFits, RowsKept
<1>6. QED
  BY <1>1, <1>3, <1>4, <1>5 DEF TickFits

-----------------------------------------------------------------------------
(***************************************************************************)
(* The items of a commit: those of the tick, completed, with a conflict    *)
(* for each order key that is taken by another request.                    *)
(***************************************************************************)
WithConflicts(C, clash) == (C \ clash) \cup {Conflict(i) : i \in clash}

LEMMA ConflictsFit ==
    ASSUME TypeOK, NEW C, ItemsFit(C), NEW clash \in SUBSET C
    PROVE  /\ ItemsFit(WithConflicts(C, clash))
           /\ \A w \in WithConflicts(C, clash) : \E i \in C :
                  w.id = i.id /\ w.was = i.was /\ w.sell = i.sell
<1>1. PICK W : W = WithConflicts(C, clash)
  OBVIOUS
<1>2. ASSUME NEW w \in W
      PROVE  \/ w \in C /\ w \notin clash
             \/ \E i \in clash : w = Conflict(i)
  BY <1>1 DEF WithConflicts
<1>3. ASSUME NEW w \in W
      PROVE  /\ w \in Item /\ ItemFits(w)
             /\ \E i \in C : /\ w.id = i.id /\ w.was = i.was /\ w.sell = i.sell
                             /\ w = IF i \in clash THEN Conflict(i) ELSE i
  <2>1. CASE w \in C /\ w \notin clash
    BY <2>1 DEF ItemsFit
  <2>2. CASE \E i \in clash : w = Conflict(i)
    <3>1. PICK i \in clash : w = Conflict(i)
      BY <2>2
    <3>2. i \in C /\ i \in Item /\ ItemFits(i)
      BY DEF ItemsFit
    <3>3. QED
      BY <3>1, <3>2, ConflictFits
  <2>3. QED
    BY <1>2, <2>1, <2>2
<1>4. ASSUME NEW w \in W, NEW x \in W, w.was.position = x.was.position
      PROVE  w = x
  <2>1. PICK i \in C : w.was = i.was /\ w = IF i \in clash THEN Conflict(i) ELSE i
    BY <1>3
  <2>2. PICK j \in C : x.was = j.was /\ x = IF j \in clash THEN Conflict(j) ELSE j
    BY <1>3
  <2>3. i = j
    BY <1>4, <2>1, <2>2 DEF ItemsFit
  <2>4. QED
    BY <2>1, <2>2, <2>3
<1>5. QED
  BY <1>1, <1>3, <1>4 DEF ItemsFit

LEMMA CompletedItems ==
    ASSUME TypeOK, NEW I, ItemsFit(I)
    PROVE  /\ ItemsFit({Completed(i) : i \in I})
           /\ \A c \in {Completed(i) : i \in I} : c.sell > 0 =>
                  \/ AccountPasses(c.was.position)
                  \/ c \in I /\ c.id # 0
<1>1. PICK C : C = {Completed(i) : i \in I}
  OBVIOUS
<1>2. ASSUME NEW c \in C
      PROVE  /\ c \in Item /\ ItemFits(c)
             /\ c.sell > 0 => AccountPasses(c.was.position) \/ (c \in I /\ c.id # 0)
             /\ \E i \in I : c = Completed(i) /\ c.was = i.was
  <2>1. PICK i \in I : c = Completed(i)
    BY <1>1
  <2>2. i \in Item /\ ItemFits(i)
    BY DEF ItemsFit
  <2>3. QED
    BY <2>1, <2>2, CompletedFits
<1>3. ASSUME NEW c \in C, NEW d \in C, c.was.position = d.was.position
      PROVE  c = d
  <2>1. PICK i \in I : c = Completed(i) /\ c.was = i.was
    BY <1>2
  <2>2. PICK j \in I : d = Completed(j) /\ d.was = j.was
    BY <1>2
  <2>3. i = j
    BY <1>3, <2>1, <2>2 DEF ItemsFit
  <2>4. QED
    BY <2>1, <2>2, <2>3
<1>4. QED
  BY <1>1, <1>2, <1>3 DEF ItemsFit

\* What a commit of e writes: the items W and the rows stale.
Commits(e, W, ids, stale) ==
    /\ ItemsFit(W) /\ NumbersFit(W, ids) /\ NoGap(W, ids)
    /\ stale \subseteq Used
    /\ \A t \in stale : Gone(trigger[t].position, trigger[t].version)
    /\ Apply(W, stale, ids)
    /\ \A w \in W : w.sell > 0 =>
           \/ AccountPasses(w.was.position)
           \/ \E i \in tick[e].items : i.id # 0 /\ i.sell > 0 /\ i.was = w.was

LEMMA TickItems ==
    ASSUME StopInv, NEW e \in Evaluators
    PROVE  ItemsFit(tick[e].items)
<1>1. tick[e].items \subseteq Item
  BY DEF StopInv, TypeOK, Tick
<1>2. QED
  BY <1>1 DEF StopInv, TicksFit, TickFits, ItemsFit

LEMMA RunCommitsItems ==
    ASSUME StopInv, NEW e \in Evaluators, RunCommits(e)
    PROVE  \E W, ids, stale : Commits(e, W, ids, stale)
<1>1. PICK I, C, stale : /\ I = tick[e].items /\ stale = tick[e].stale
                         /\ C = {Completed(i) : i \in I}
  OBVIOUS
<1>2. TypeOK /\ NumberedInOrder /\ ItemsFit(I)
  BY <1>1, TickItems DEF StopInv
<1>3. /\ ItemsFit(C)
      /\ \A c \in C : c.sell > 0 => AccountPasses(c.was.position) \/ (c \in I /\ c.id # 0)
  BY <1>1, <1>2, CompletedItems
<1>4. PICK clash \in SUBSET C :
          \E ids \in Numberings(WithConflicts(C, clash)) :
              Apply(WithConflicts(C, clash), tick[e].stale, ids)
  BY <1>1 DEF RunCommits, WithConflicts
<1>5. PICK W : W = WithConflicts(C, clash)
  OBVIOUS
<1>6. PICK ids \in Numberings(W) : Apply(W, stale, ids)
  BY <1>1, <1>4, <1>5
<1>7. /\ ItemsFit(W)
      /\ \A w \in W : \E i \in C : w.id = i.id /\ w.was = i.was /\ w.sell = i.sell
  BY <1>2, <1>3, <1>5, ConflictsFit
<1>8. NumbersFit(W, ids) /\ NoGap(W, ids)
  BY <1>2, <1>7, NewNumbers
<1>9. /\ stale \subseteq Used
      /\ \A t \in stale : Gone(trigger[t].position, trigger[t].version)
  BY <1>1 DEF StopInv, TicksFit, TickFits
<1>10. ASSUME NEW w \in W, w.sell > 0
       PROVE  \/ AccountPasses(w.was.position)
              \/ \E i \in tick[e].items : i.id # 0 /\ i.sell > 0 /\ i.was = w.was
  <2>1. PICK c \in C : w.id = c.id /\ w.was = c.was /\ w.sell = c.sell
    BY <1>7
  <2>2. QED
    BY <1>1, <1>3, <1>10, <2>1
<1>11. Commits(e, W, ids, stale)
  BY <1>6, <1>7, <1>8, <1>9, <1>10 DEF Commits
<1>12. QED
  BY <1>11

LEMMA RecoverCommitsItems ==
    ASSUME StopInv, NEW e \in Evaluators, RecoverCommits(e)
    PROVE  \E W, ids, stale : Commits(e, W, ids, stale)
<1>1. PICK I : I = tick[e].items
  OBVIOUS
<1>2. TypeOK /\ NumberedInOrder /\ ItemsFit(I) /\ \A i \in I : i.id # 0
  BY <1>1, TickItems DEF StopInv, TicksFit, TickFits, RecoverCommits
<1>3. PICK clash \in SUBSET I : Apply(WithConflicts(I, clash), {}, <<>>)
  BY <1>1 DEF RecoverCommits, WithConflicts
<1>4. PICK W, ids, stale : W = WithConflicts(I, clash) /\ ids = <<>> /\ stale = {}
  OBVIOUS
<1>5. /\ ItemsFit(W)
      /\ \A w \in W : \E i \in I : w.id = i.id /\ w.was = i.was /\ w.sell = i.sell
  BY <1>2, <1>4, ConflictsFit
<1>6. \A w \in W : w.id # 0
  BY <1>2, <1>5
<1>7. NumbersFit(W, ids) /\ NoGap(W, ids)
  BY <1>2, <1>5, <1>6, OldNumbers
<1>8. Apply(W, stale, ids)
  BY <1>3, <1>4
<1>9. Commits(e, W, ids, stale)
  BY <1>1, <1>2, <1>4, <1>5, <1>7, <1>8 DEF Commits
<1>10. QED
  BY <1>9

-----------------------------------------------------------------------------
(***************************************************************************)
(* A commit keeps the invariant, the signals and, when nothing active is   *)
(* sold again, the stop orders apart.                                      *)
(***************************************************************************)
\* A tick whose items are written.
Emptied(e) ==
    /\ tick'[e].items = {}
    /\ tick'[e].stale \subseteq tick[e].stale
    /\ tick'[e].todo \subseteq tick[e].todo

LEMMA CommitKeepsInv ==
    ASSUME StopInv, NEW e \in Evaluators, NEW W, NEW ids, NEW stale, Commits(e, W, ids, stale),
           UNCHANGED <<postgres, position, quote, ready, other>>,
           tick' \in [Evaluators -> Tick], Emptied(e),
           \A f \in Evaluators \ {e} : tick'[f] = tick[f]
    PROVE  StopInv'
<1>1. stale \in SUBSET Used
  BY DEF Commits
<1>2. /\ trigger' \in [Ids -> Trigger] /\ order' \in [Ids -> Order]
      /\ RowsKept /\ NumberedInOrder' /\ RowsFit'
  BY <1>1, CommittedRows DEF Commits
<1>3. TypeOK'
  BY <1>2 DEF StopInv, TypeOK
<1>4. Onward
  BY DEF Onward
<1>5. TickFits(e)'
  <2>1. tick[e].todo \subseteq Used
    BY DEF StopInv, TicksFit, TickFits
  <2>2. tick'[e].todo \subseteq Used'
    BY <1>2, <2>1 DEF Emptied, RowsKept
  <2>3. \A t \in tick[e].stale : t \in Used' /\ Gone(trigger[t].position, trigger[t].version)'
    BY <1>2, <1>3, <1>4, StaleKept DEF StopInv, TicksFit, TickFits
  <2>4. QED
    BY <2>2, <2>3 DEF TickFits, Emptied
<1>6. \A f \in Evaluators \ {e} : TickFits(f)'
  BY <1>2, <1>3, <1>4, OthersKept
<1>7. TicksFit'
  BY <1>5, <1>6 DEF TicksFit
<1>8. QED
  BY <1>2, <1>3, <1>7 DEF StopInv

LEMMA CommitKeepsSignal ==
    ASSUME StopInv, NEW e \in Evaluators, NEW W, NEW ids, NEW stale, Commits(e, W, ids, stale),
           NEW t \in Ids, Active(t), ~Active(t)'
    PROVE  order'[t].status # "none" \/ Gone(trigger[t].position, trigger[t].version)
<1>1. /\ ItemsFit(W) /\ NumbersFit(W, ids) /\ Apply(W, stale, ids)
      /\ \A u \in stale : Gone(trigger[u].position, trigger[u].version)
  BY DEF Commits
<1>2. t \in Used /\ trigger[t] \in Trigger
  BY DEF Active, ActiveStates, Used, StopInv, TypeOK
<1>3. CASE \E i \in W : /\ Number(i, ids) = t
                        /\ trigger'[t] = IF i.id = 0 THEN i.new ELSE Written(trigger[t], i)
  <2>1. PICK i \in W : /\ Number(i, ids) = t
                       /\ trigger'[t] = IF i.id = 0 THEN i.new ELSE Written(trigger[t], i)
    BY <1>3
  <2>2. i \in Item /\ ItemFits(i)
    BY <1>1 DEF ItemsFit
  <2>3. i.id # 0
    BY <1>1, <1>2, <2>1 DEF NumbersFit
  <2>4. i.id = t /\ trigger'[t] = Written(trigger[t], i)
    BY <2>1, <2>3 DEF Number
  <2>5. i.new.state \in Outcomes /\ trigger[t].state # "NONE"
    BY <1>2, <2>2 DEF ItemFits, Outcomes, Used
  <2>6. trigger'[t].state \in {trigger[t].state, i.new.state}
    BY <1>2, <2>2, <2>4, <2>5, WrittenRow
  <2>7. i.new.state \in {"SUPERSEDED", "FULFILLED"}
    BY <2>5, <2>6 DEF Outcomes, Active, ActiveStates
  <2>8. CASE i.new.state = "SUPERSEDED"
    BY <2>2, <2>3, <2>4, <2>8 DEF ItemFits
  <2>9. CASE i.new.state = "FULFILLED"
    <3>1. i.sell > 0
      BY <2>2, <2>9 DEF ItemFits
    <3>2. CASE Taken(i)
      <4>1. order[t].status # "none"
        BY <2>4, <3>2 DEF Taken
      <4>2. \/ order'[t] = order[t]
            \/ \E w \in W : order'[t] = [status |-> "active", quantity |-> w.sell]
        BY <1>1, AppliedOrder
      <4>3. CASE order'[t] = order[t]
        BY <4>1, <4>3
      <4>4. CASE \E w \in W : order'[t] = [status |-> "active", quantity |-> w.sell]
        <5>1. PICK w \in W : order'[t] = [status |-> "active", quantity |-> w.sell]
          BY <4>4
        <5>2. order'[t].status = "active"
          BY <5>1
        <5>3. QED
          BY <5>2
      <4>5. QED
        BY <4>2, <4>3, <4>4
    <3>3. CASE ~Taken(i)
      <4>1. order'[t].status = "active"
        BY <1>1, <2>1, <3>1, <3>3, AppliedOrder
      <4>2. QED
        BY <4>1
    <3>4. QED
      BY <3>2, <3>3
  <2>10. QED
    BY <2>7, <2>8, <2>9
<1>4. CASE t \in stale
  BY <1>1, <1>4
<1>5. CASE trigger'[t] = trigger[t]
  BY <1>5 DEF Active
<1>6. QED
  BY <1>1, <1>3, <1>4, <1>5, AppliedRow

\* A written item is about the position that its row has afterwards.
LEMMA WrittenPosition ==
    ASSUME StopInv, NEW e \in Evaluators, NEW W, NEW ids, NEW stale, Commits(e, W, ids, stale),
           NEW i \in W, NEW t \in Ids, Number(i, ids) = t
    PROVE  trigger'[t].position = i.was.position
<1>1. /\ ItemsFit(W) /\ NumbersFit(W, ids) /\ Apply(W, stale, ids) /\ ItemFits(i)
      /\ stale \in SUBSET Used
  BY DEF Commits, ItemsFit
<1>2. CASE i.id = 0
  <2>1. t \notin Used
    BY <1>1, <1>2 DEF NumbersFit
  <2>2. PICK j \in W : j.id = 0 /\ Number(j, ids) = t /\ trigger'[t] = j.new
    BY <1>1, <2>1, CommittedRow
  <2>3. j = i
    BY <1>1, <2>2, NumberUnique
  <2>4. QED
    BY <1>1, <2>2, <2>3 DEF ItemFits
<1>3. CASE i.id # 0
  <2>1. t = i.id /\ t \in Used /\ trigger[t].position = i.was.position
    BY <1>1, <1>3 DEF ItemFits, Number
  <2>2. trigger'[t].position = trigger[t].position
    BY <1>1, <2>1, CommittedRow
  <2>3. QED
    BY <2>1, <2>2
<1>4. QED
  BY <1>2, <1>3

LEMMA CommitKeepsOrdersApart ==
    ASSUME StopInv, OneStopOrder, NEW e \in Evaluators, NEW W, NEW ids, NEW stale,
           Commits(e, W, ids, stale),
           \A w \in W : w.sell > 0 => NothingToSell(w.was.position)
    PROVE  OneStopOrder'
<1>1. SUFFICES ASSUME NEW t \in Ids, NEW u \in Ids,
                      order'[t].status = "active", order'[u].status = "active",
                      trigger'[t].position = trigger'[u].position
               PROVE  t = u
  BY DEF OneStopOrder
<1>2. /\ ItemsFit(W) /\ NumbersFit(W, ids) /\ Apply(W, stale, ids) /\ stale \in SUBSET Used
  BY DEF Commits
<1>3. ASSUME NEW x \in Ids, order'[x].status = "active"
      PROVE  \/ order[x].status = "active" /\ trigger'[x].position = trigger[x].position
             \/ \E i \in W : /\ Number(i, ids) = x /\ i.was.position = trigger'[x].position
                             /\ NothingToSell(i.was.position)
  <2>1. CASE order'[x] = order[x]
    <3>1. order[x].status = "active" /\ x \in Used
      BY <1>3, <2>1 DEF StopInv, RowsFit
    <3>2. QED
      BY <1>2, <3>1, CommittedRow
  <2>2. CASE \E i \in W : Number(i, ids) = x /\ i.sell > 0
    BY <2>2, WrittenPosition
  <2>3. \/ order'[x] = order[x]
        \/ \E i \in W : Number(i, ids) = x /\ i.sell > 0
    <3>1. SUFFICES ASSUME \A i \in W : ~(Number(i, ids) = x /\ i.sell > 0)
                   PROVE  order'[x] = order[x]
      OBVIOUS
    <3>2. {i \in W : Number(i, ids) = x /\ i.sell > 0 /\ ~Taken(i)} = {}
      BY <3>1
    <3>3. QED
      BY <1>2, <3>2 DEF Apply, Number
  <2>4. QED
    BY <2>1, <2>2, <2>3
<1>4. CASE order[t].status = "active" /\ trigger'[t].position = trigger[t].position
  <2>1. CASE order[u].status = "active" /\ trigger'[u].position = trigger[u].position
    BY <1>1, <1>4, <2>1 DEF OneStopOrder
  <2>2. CASE \E i \in W : /\ Number(i, ids) = u /\ i.was.position = trigger'[u].position
                          /\ NothingToSell(i.was.position)
    BY <1>1, <1>4, <2>2 DEF NothingToSell
  <2>3. QED
    BY <1>1, <1>3, <2>1, <2>2
<1>5. CASE \E i \in W : /\ Number(i, ids) = t /\ i.was.position = trigger'[t].position
                        /\ NothingToSell(i.was.position)
  <2>1. CASE order[u].status = "active" /\ trigger'[u].position = trigger[u].position
    BY <1>1, <1>5, <2>1 DEF NothingToSell
  <2>2. CASE \E i \in W : /\ Number(i, ids) = u /\ i.was.position = trigger'[u].position
                          /\ NothingToSell(i.was.position)
    BY <1>1, <1>2, <1>5, <2>2 DEF ItemsFit
  <2>3. QED
    BY <1>1, <1>3, <2>1, <2>2
<1>6. QED
  BY <1>1, <1>3, <1>4, <1>5

-----------------------------------------------------------------------------
(***************************************************************************)
(* The steps.  First those that write neither a trigger nor a new order.   *)
(***************************************************************************)
LEMMA QuietKeepsInv ==
    ASSUME StopInv, TypeOK', UNCHANGED trigger, Onward,
           \A t \in Ids : order'[t].status # "none" => order[t].status # "none",
           \A e \in Evaluators : tick'[e] = tick[e] \/ TickFits(e)'
    PROVE  StopInv' /\ RowsKept
<1>1. Used' = Used /\ TypeOK /\ RowsFit
  BY DEF Used, StopInv
<1>2. RowsKept
  BY <1>1 DEF RowsKept
<1>3. NumberedInOrder'
  BY <1>1 DEF StopInv, NumberedInOrder, UsedUpTo
<1>4. RowsFit'
  <2>1. ASSUME NEW t \in Ids, t \in Used
        PROVE  Placed(t)'
    <3>1. PICK p, v : p = trigger[t].position /\ v = trigger[t].version
      OBVIOUS
    <3>2. p \in Positions /\ v \in 0..MaxVersion /\ v <= position[p].version
      BY <1>1, <2>1, <3>1 DEF RowsFit, Placed, TypeOK, Trigger
    <3>3. v <= position'[p].version
      BY <1>1, <3>2, GoneStays
    <3>4. QED
      BY <3>1, <3>2, <3>3 DEF Placed
  <2>2. QED
    BY <1>1, <2>1 DEF RowsFit
<1>5. TicksFit'
  BY <1>2, OthersKept DEF TicksFit
<1>6. QED
  BY <1>2, <1>3, <1>4, <1>5 DEF StopInv

\* A step of e that changes its tick only.
LEMMA TickKeepsInv ==
    ASSUME StopInv, NEW e \in Evaluators, NEW new \in Tick,
           tick' = [tick EXCEPT ![e] = new], TickFits(e)',
           UNCHANGED <<postgres, position, quote, ready, trigger, order, other>>
    PROVE  StopInv'
<1>1. TypeOK' /\ \A f \in Evaluators : f # e => tick'[f] = tick[f]
  BY DEF StopInv, TypeOK
<1>2. Onward
  BY DEF Onward
<1>3. QED
  BY <1>1, <1>2, QuietKeepsInv

LEMMA IdleType == Idle \in Tick /\ [Idle EXCEPT !.at = "between"] \in Tick
BY DEF Idle, Tick

\* What Run puts in the tick.
LEMMA RunItems ==
    ASSUME StopInv, NEW e \in Evaluators, NEW pick \in [Rechecked -> Ids],
           \A p \in Rechecked : pick[p] \in ExistingActive(p)
    PROVE  LET I == {ReEvaluated(p, pick[p], trigger[pick[p]]) : p \in Rechecked}
                    \cup {NewlyFired(p) : p \in Fired}
           IN  /\ ItemsFit(I)
               /\ \A i \in I : i.id # 0 /\ i.sell > 0 => AccountPasses(i.was.position)
<1>1. PICK I : I = {ReEvaluated(p, pick[p], trigger[pick[p]]) : p \in Rechecked}
                   \cup {NewlyFired(p) : p \in Fired}
  OBVIOUS
<1>2. TypeOK
  BY DEF StopInv
<1>3. ASSUME NEW p \in Rechecked
      PROVE  LET i == ReEvaluated(p, pick[p], trigger[pick[p]])
             IN  /\ i \in Item /\ ItemFits(i) /\ i.was.position = p
                 /\ i.sell > 0 => AccountPasses(p)
  <2>1. PICK t \in Ids : t = pick[p]
    OBVIOUS
  <2>2. PICK r \in Trigger : r = trigger[t]
    BY <1>2 DEF TypeOK
  <2>3. /\ p \in Positions /\ Active(t) /\ trigger[t].position = p
        /\ trigger[t].version = position[p].version
    BY <2>1 DEF ExistingActive, Of, Rechecked, Opened
  <2>4. t \in Used
    BY <2>3 DEF Active, ActiveStates, Used
  <2>5. r.version <= position[p].version
    BY <2>2, <2>3, <2>4 DEF StopInv, RowsFit, Placed
  <2>6. LET i == ReEvaluated(p, t, r)
        IN  /\ i \in Item /\ ItemFits(i) /\ i.id = t /\ i.was = r
            /\ i.sell > 0 => AccountPasses(p)
    BY <1>2, <2>2, <2>3, <2>4, <2>5, ReEvaluatedFits
  <2>7. QED
    BY <2>1, <2>2, <2>3, <2>6
<1>4. ASSUME NEW p \in Fired
      PROVE  LET i == NewlyFired(p)
             IN  i \in Item /\ ItemFits(i) /\ i.id = 0 /\ i.was.position = p
  <2>1. p \in Positions
    BY DEF Fired, Opened
  <2>2. QED
    BY <1>2, <2>1, NewlyFiredFits
<1>5. ASSUME NEW i \in I
      PROVE  \/ \E p \in Rechecked : i = ReEvaluated(p, pick[p], trigger[pick[p]])
             \/ \E p \in Fired : i = NewlyFired(p)
  BY <1>1
<1>6. ASSUME NEW i \in I
      PROVE  /\ i \in Item /\ ItemFits(i)
             /\ i.id # 0 /\ i.sell > 0 => AccountPasses(i.was.position)
             /\ i.was.position \in Rechecked =>
                    i = ReEvaluated(i.was.position, pick[i.was.position], trigger[pick[i.was.position]])
             /\ i.was.position \notin Rechecked => i = NewlyFired(i.was.position)
  <2>1. CASE \E p \in Rechecked : i = ReEvaluated(p, pick[p], trigger[pick[p]])
    BY <1>3, <2>1
  <2>2. CASE \E p \in Fired : i = NewlyFired(p)
    <3>1. PICK p \in Fired : i = NewlyFired(p)
      BY <2>2
    <3>2. p \notin Rechecked
      BY DEF Fired, Rechecked
    <3>3. QED
      BY <1>4, <3>1, <3>2
  <2>3. QED
    BY <1>5, <2>1, <2>2
<1>7. ASSUME NEW i \in I, NEW j \in I, i.was.position = j.was.position
      PROVE  i = j
  <2>1. PICK p : p = i.was.position /\ p = j.was.position
    BY <1>7
  <2>2. CASE p \in Rechecked
    BY <1>6, <2>1, <2>2
  <2>3. CASE p \notin Rechecked
    BY <1>6, <2>1, <2>3
  <2>4. QED
    BY <2>2, <2>3
<1>8. QED
  BY <1>1, <1>6, <1>7 DEF ItemsFit

\* A row that Run calls stale is of a version that its position has left.
LEMMA RunStale ==
    ASSUME StopInv, NEW t \in Ids, Active(t), trigger[t].position \in Opened \ Rechecked
    PROVE  t \in Used /\ Gone(trigger[t].position, trigger[t].version)
<1>1. t \in Used
  BY DEF Active, ActiveStates, Used
<1>2. PICK p : p = trigger[t].position
  OBVIOUS
<1>3. ExistingActive(p) = {} /\ t \in Of(p) /\ p \in Positions
  BY <1>2 DEF Rechecked, Of, Opened
<1>4. trigger[t].version # position[p].version
  BY <1>3 DEF ExistingActive
<1>5. trigger[t].version \in Nat /\ position[p].version \in Nat /\ trigger[t].version <= position[p].version
  BY <1>1, <1>2, <1>3 DEF StopInv, RowsFit, Placed, TypeOK, Trigger, Position
<1>6. QED
  BY <1>1, <1>2, <1>4, <1>5 DEF Gone

-----------------------------------------------------------------------------
(***************************************************************************)
(* Every step is one of three: an evaluator goes on with its tick, an      *)
(* evaluator commits, or the tables of the triggers stay as they are.      *)
(***************************************************************************)
Fitting(new) ==
    /\ ItemsFit(new.items)
    /\ new.at = "recover" => \A i \in new.items : i.id # 0
    /\ \A t \in new.stale : t \in Used /\ Gone(trigger[t].position, trigger[t].version)
    /\ new.todo \subseteq Used
    /\ new.at = "idle" => new.items = {}
    /\ \A i \in new.items : i.id # 0 /\ i.sell > 0 => AccountPasses(i.was.position)

Evaluates(e, new) ==
    /\ new \in Tick /\ Fitting(new)
    /\ tick' = [tick EXCEPT ![e] = new]
    /\ UNCHANGED <<postgres, position, quote, ready, trigger, order, other>>

Committed(e, W, ids, stale) ==
    /\ Commits(e, W, ids, stale)
    /\ UNCHANGED <<postgres, position, quote, ready, other>>
    /\ tick' \in [Evaluators -> Tick]
    /\ tick[e].at # "idle"
    /\ Emptied(e)
    /\ \A f \in Evaluators \ {e} : tick'[f] = tick[f]

Quiet ==
    /\ UNCHANGED <<trigger, tick>>
    /\ TypeOK'
    /\ Onward
    /\ \A t \in Ids : order'[t] = order[t] \/ (order[t].status # "none" /\ order'[t].status = "ended")

LEMMA EmptyFits ==
    ASSUME NEW new, new.items = {}, new.stale = {}, new.todo \subseteq Used
    PROVE  Fitting(new)
BY DEF Fitting, ItemsFit

LEMMA EmptyEvaluates ==
    ASSUME NEW e \in Evaluators, NEW new \in {Idle, [Idle EXCEPT !.at = "between"]},
           tick' = [tick EXCEPT ![e] = new],
           UNCHANGED <<postgres, position, quote, ready, trigger, order, other>>
    PROVE  Evaluates(e, new)
<1>1. new \in Tick /\ new.items = {} /\ new.stale = {} /\ new.todo = {}
  BY IdleType DEF Idle
<1>2. Fitting(new)
  BY <1>1, EmptyFits
<1>3. QED
  BY <1>1, <1>2 DEF Evaluates

LEMMA RunEvaluates ==
    ASSUME StopInv, NEW e \in Evaluators, Run(e)
    PROVE  \E new : Evaluates(e, new)
<1>1. PICK pick \in [Rechecked -> Ids] :
          /\ \A p \in Rechecked : pick[p] \in ExistingActive(p)
          /\ tick' = [tick EXCEPT ![e] =
                 [at |-> "run",
                  items |-> {ReEvaluated(p, pick[p], trigger[pick[p]]) : p \in Rechecked}
                            \cup {NewlyFired(p) : p \in Fired},
                  stale |-> {t \in Ids : Active(t) /\ trigger[t].position \in Opened \ Rechecked},
                  todo |-> {}]]
          /\ UNCHANGED <<postgres, position, quote, ready, trigger, order, other>>
  BY DEF Run
<1>2. PICK I, S : /\ I = {ReEvaluated(p, pick[p], trigger[pick[p]]) : p \in Rechecked}
                         \cup {NewlyFired(p) : p \in Fired}
                  /\ S = {t \in Ids : Active(t) /\ trigger[t].position \in Opened \ Rechecked}
  OBVIOUS
<1>3. /\ ItemsFit(I)
      /\ \A i \in I : i.id # 0 /\ i.sell > 0 => AccountPasses(i.was.position)
  BY <1>1, <1>2, RunItems
<1>4. S \subseteq Ids /\ \A t \in S : t \in Used /\ Gone(trigger[t].position, trigger[t].version)
  BY <1>2, RunStale
<1>5. PICK new : new = [at |-> "run", items |-> I, stale |-> S, todo |-> {}]
  OBVIOUS
<1>6. new.at = "run" /\ new.items = I /\ new.stale = S /\ new.todo = {}
  BY <1>5
<1>7. I \subseteq Item
  BY <1>3 DEF ItemsFit
<1>8. new \in Tick
  BY <1>4, <1>5, <1>7 DEF Tick
<1>9. Fitting(new)
  BY <1>3, <1>4, <1>6 DEF Fitting
<1>10. tick' = [tick EXCEPT ![e] = new]
  BY <1>1, <1>2, <1>5
<1>11. Evaluates(e, new)
  BY <1>1, <1>8, <1>9, <1>10 DEF Evaluates
<1>12. QED
  BY <1>11

LEMMA RecoverEvaluates ==
    ASSUME StopInv, NEW e \in Evaluators, Recover(e)
    PROVE  \E new : Evaluates(e, new)
<1>1. PICK todo : todo = IF ready THEN {t \in Ids : trigger[t].state = "EXIT_PENDING"} ELSE {}
  OBVIOUS
<1>2. /\ tick' = [tick EXCEPT ![e] = IF todo = {} THEN Idle
                                     ELSE [Idle EXCEPT !.at = "recover", !.todo = todo]]
      /\ UNCHANGED <<postgres, position, quote, ready, trigger, order, other>>
  BY <1>1 DEF Recover
<1>3. CASE todo = {}
  <2>1. Evaluates(e, Idle)
    BY <1>2, <1>3, EmptyEvaluates
  <2>2. QED
    BY <2>1
<1>4. CASE todo # {}
  <2>1. PICK new : new = [Idle EXCEPT !.at = "recover", !.todo = todo]
    OBVIOUS
  <2>2. todo \subseteq Used /\ todo \subseteq Ids
    BY <1>1 DEF Used
  <2>3. new.items = {} /\ new.stale = {} /\ new.todo = todo /\ new \in Tick
    BY <2>1, <2>2 DEF Idle, Tick
  <2>4. Fitting(new)
    BY <2>2, <2>3, EmptyFits
  <2>5. Evaluates(e, new)
    BY <1>2, <1>4, <2>1, <2>3, <2>4 DEF Evaluates
  <2>6. QED
    BY <2>5
<1>5. QED
  BY <1>3, <1>4

LEMMA RecoverOneEvaluates ==
    ASSUME StopInv, NEW e \in Evaluators, NEW t \in Ids, RecoverOne(e, t)
    PROVE  \E new : Evaluates(e, new)
<1>1. PICK r, p : r = [trigger[t] EXCEPT !.state = "EXIT_PENDING"] /\ p = trigger[t].position
  OBVIOUS
<1>2. PICK i : i = ReEvaluated(p, t, r)
  OBVIOUS
<1>3. /\ tick[e].at = "recover" /\ t \in tick[e].todo
      /\ tick' = [tick EXCEPT ![e].items = {i}, ![e].todo = @ \ {t}]
      /\ UNCHANGED <<postgres, position, quote, ready, trigger, order, other>>
  BY <1>1, <1>2 DEF RecoverOne
<1>4. TypeOK /\ TickFits(e) /\ tick[e] \in Tick /\ tick[e].todo \subseteq Used
  BY DEF StopInv, TypeOK, TicksFit, TickFits
<1>5. t \in Used /\ trigger[t] \in Trigger /\ Placed(t)
  BY <1>3, <1>4 DEF StopInv, RowsFit, TypeOK
<1>6. /\ r \in Trigger /\ r.position = p /\ r.version = trigger[t].version
      /\ p \in Positions /\ r.version <= position[p].version
  <2>1. "EXIT_PENDING" \in States
    BY DEF States, ActiveStates
  <2>2. r \in Trigger /\ r.position = trigger[t].position /\ r.version = trigger[t].version
    BY <1>1, <1>5, <2>1 DEF Trigger
  <2>3. QED
    BY <1>1, <1>5, <2>2 DEF Placed
<1>7. i \in Item /\ ItemFits(i) /\ i.id = t /\ i.was = r /\ (i.sell > 0 => AccountPasses(p))
  <2>1. trigger[t].position = p /\ trigger[t].version = r.version
    BY <1>1, <1>6
  <2>2. LET j == ReEvaluated(p, t, r)
        IN  /\ j \in Item /\ ItemFits(j) /\ j.id = t /\ j.was = r
            /\ j.sell > 0 => AccountPasses(p)
    BY <1>4, <1>5, <1>6, <2>1, ReEvaluatedFits
  <2>3. QED
    BY <1>2, <2>2
<1>8. PICK new : new = [tick[e] EXCEPT !.items = {i}, !.todo = tick[e].todo \ {t}]
  OBVIOUS
<1>9. /\ new \in Tick /\ new.at = tick[e].at /\ new.items = {i} /\ new.stale = tick[e].stale
      /\ new.todo = tick[e].todo \ {t}
  BY <1>4, <1>7, <1>8 DEF Tick
<1>10. tick' = [tick EXCEPT ![e] = new]
  BY <1>3, <1>4, <1>8 DEF TypeOK, Tick
<1>11. Fitting(new)
  <2>1. ItemsFit(new.items) /\ new.at = "recover" /\ t # 0
    BY <1>3, <1>7, <1>9 DEF ItemsFit, Ids
  <2>2. \A x \in new.stale : x \in Used /\ Gone(trigger[x].position, trigger[x].version)
    BY <1>4, <1>9 DEF TickFits
  <2>3. QED
    BY <1>4, <1>6, <1>7, <1>9, <2>1, <2>2 DEF Fitting
<1>12. Evaluates(e, new)
  BY <1>3, <1>9, <1>10, <1>11 DEF Evaluates
<1>13. QED
  BY <1>12

LEMMA RunCommitted ==
    ASSUME StopInv, NEW e \in Evaluators, RunCommits(e)
    PROVE  \E W, ids, stale : Committed(e, W, ids, stale)
<1>1. PICK W, ids, stale : Commits(e, W, ids, stale)
  BY RunCommitsItems
<1>2. PICK new : new = [Idle EXCEPT !.at = "between"]
  OBVIOUS
<1>3. new \in Tick /\ new.items = {} /\ new.stale = {} /\ new.todo = {}
  BY <1>2, IdleType DEF Idle
<1>4. /\ tick' = [tick EXCEPT ![e] = new] /\ tick[e].at # "idle"
      /\ UNCHANGED <<postgres, position, quote, ready, other>>
  BY <1>2 DEF RunCommits
<1>5. /\ tick' \in [Evaluators -> Tick] /\ tick'[e] = new
      /\ \A f \in Evaluators \ {e} : tick'[f] = tick[f]
  BY <1>3, <1>4 DEF StopInv, TypeOK
<1>6. Committed(e, W, ids, stale)
  BY <1>1, <1>3, <1>4, <1>5 DEF Committed, Emptied
<1>7. QED
  BY <1>6

LEMMA RecoverCommitted ==
    ASSUME StopInv, NEW e \in Evaluators, RecoverCommits(e)
    PROVE  \E W, ids, stale : Committed(e, W, ids, stale)
<1>1. PICK W, ids, stale : Commits(e, W, ids, stale)
  BY RecoverCommitsItems
<1>2. PICK new : new = IF tick[e].todo = {} THEN Idle ELSE [tick[e] EXCEPT !.items = {}]
  OBVIOUS
<1>3. /\ tick' = [tick EXCEPT ![e] = new] /\ tick[e].at = "recover"
      /\ UNCHANGED <<postgres, position, quote, ready, other>>
  BY <1>2 DEF RecoverCommits
<1>4. tick[e] \in Tick
  BY DEF StopInv, TypeOK
<1>5. new \in Tick /\ new.items = {} /\ new.stale \subseteq tick[e].stale /\ new.todo \subseteq tick[e].todo
  <2>1. CASE tick[e].todo = {}
    BY <1>2, <2>1, IdleType DEF Idle
  <2>2. CASE tick[e].todo # {}
    BY <1>2, <1>4, <2>2 DEF Tick
  <2>3. QED
    BY <2>1, <2>2
<1>6. /\ tick' \in [Evaluators -> Tick] /\ tick'[e] = new
      /\ \A f \in Evaluators \ {e} : tick'[f] = tick[f]
  BY <1>3, <1>5 DEF StopInv, TypeOK
<1>7. Committed(e, W, ids, stale)
  BY <1>1, <1>3, <1>5, <1>6 DEF Committed, Emptied
<1>8. QED
  BY <1>7

LEMMA ProjectionIsQuiet ==
    ASSUME StopInv, NEW p \in Positions, PositionProjected(p)
    PROVE  Quiet
<1>1. PICK new \in Position : /\ new.version = position[p].version + 1
                              /\ position' = [position EXCEPT ![p] = new]
  BY DEF PositionProjected
<1>2. UNCHANGED <<postgres, quote, ready, trigger, order, other, tick>>
  BY DEF PositionProjected
<1>3. TypeOK'
  BY <1>1, <1>2 DEF StopInv, TypeOK
<1>4. position[p].version \in Nat
  BY DEF StopInv, TypeOK, Position
<1>5. Onward
  BY <1>1, <1>4 DEF StopInv, TypeOK, Onward
<1>6. QED
  BY <1>2, <1>3, <1>5 DEF Quiet

\* The steps that change neither a position nor an order.
LEMMA AsideIsQuiet ==
    ASSUME StopInv, UNCHANGED <<position, trigger, order, tick>>,
           postgres' \in BOOLEAN, quote' \in [Positions -> Quote], ready' \in BOOLEAN,
           other' \in [Positions -> BOOLEAN]
    PROVE  Quiet
<1>1. TypeOK'
  BY DEF StopInv, TypeOK
<1>2. Onward
  BY DEF Onward
<1>3. QED
  BY <1>1, <1>2 DEF Quiet

LEMMA OrderEnded ==
    ASSUME NEW o \in Order
    PROVE  \E ended \in Order : ended = [o EXCEPT !.status = "ended"] /\ ended.status = "ended"
<1>1. PICK n : n = [o EXCEPT !.status = "ended"]
  OBVIOUS
<1>2. n = [status |-> "ended", quantity |-> o.quantity] /\ o.quantity \in 0..Shares
  BY <1>1 DEF Order
<1>3. n \in Order /\ n.status = "ended"
  BY <1>2 DEF Order
<1>4. QED
  BY <1>1, <1>3

LEMMA StopEndIsQuiet ==
    ASSUME StopInv, NEW t \in Ids, StopOrderEnds(t)
    PROVE  Quiet
<1>1. /\ order[t].status = "active"
      /\ order' = [order EXCEPT ![t] = [order[t] EXCEPT !.status = "ended"]]
      /\ UNCHANGED <<postgres, position, quote, ready, trigger, other, tick>>
  BY DEF StopOrderEnds, StopInv, TypeOK
<1>2. order[t] \in Order /\ order \in [Ids -> Order]
  BY DEF StopInv, TypeOK
<1>3. PICK ended \in Order : ended = [order[t] EXCEPT !.status = "ended"] /\ ended.status = "ended"
  BY <1>2, OrderEnded
<1>4. order' = [order EXCEPT ![t] = ended]
  BY <1>1, <1>3
<1>5. /\ order' \in [Ids -> Order]
      /\ \A u \in Ids : order'[u] = order[u] \/ (order[u].status # "none" /\ order'[u].status = "ended")
  BY <1>1, <1>2, <1>3, <1>4
<1>6. TypeOK'
  BY <1>1, <1>5 DEF StopInv, TypeOK
<1>7. Onward
  BY <1>1 DEF Onward
<1>8. QED
  BY <1>1, <1>5, <1>6, <1>7 DEF Quiet

LEMMA StopFillIsQuiet ==
    ASSUME StopInv, NEW t \in Ids, StopOrderFills(t)
    PROVE  Quiet
<1>1. PICK p : p = trigger[t].position
  OBVIOUS
<1>2. PICK left : left = IF order[t].quantity < position[p].managed
                         THEN position[p].managed - order[t].quantity ELSE 0
  OBVIOUS
<1>3. PICK new : new = [open |-> left > 0, managed |-> left, free |-> TRUE,
                        version |-> position[p].version + 1]
  OBVIOUS
<1>4. /\ order[t].status = "active"
      /\ position[p].version < MaxVersion
      /\ order' = [order EXCEPT ![t].status = "ended"]
      /\ position' = [position EXCEPT ![p] = new]
      /\ UNCHANGED <<postgres, quote, ready, trigger, other, tick>>
  BY <1>1, <1>2, <1>3, Zenon DEF StopOrderFills
<1>5. order[t] \in Order /\ order \in [Ids -> Order] /\ position \in [Positions -> Position]
  BY DEF StopInv, TypeOK
<1>6. PICK ended \in Order : ended = [order[t] EXCEPT !.status = "ended"] /\ ended.status = "ended"
  BY <1>5, OrderEnded
<1>7. order' = [order EXCEPT ![t] = ended]
  BY <1>4, <1>5, <1>6
<1>8. /\ order' \in [Ids -> Order]
      /\ \A u \in Ids : order'[u] = order[u] \/ (order[u].status # "none" /\ order'[u].status = "ended")
  BY <1>4, <1>5, <1>6, <1>7
<1>9. p \in Positions
  BY <1>1, <1>4 DEF StopInv, RowsFit, Placed
<1>10. /\ position[p].version \in 1..MaxVersion /\ position[p].managed \in 0..Shares
       /\ order[t].quantity \in 0..Shares
  BY <1>5, <1>9 DEF Position, Order
<1>11. left \in 0..Shares /\ position[p].version + 1 \in 1..MaxVersion
  BY <1>2, <1>4, <1>10
<1>12. new \in Position /\ new.version = position[p].version + 1
  BY <1>3, <1>11 DEF Position
<1>13. position' \in [Positions -> Position] /\ Onward
  BY <1>4, <1>5, <1>9, <1>10, <1>12 DEF Onward
<1>14. TypeOK'
  BY <1>4, <1>8, <1>13 DEF StopInv, TypeOK
<1>15. QED
  BY <1>4, <1>8, <1>13, <1>14 DEF Quiet

LEMMA EnvironmentIsQuiet ==
    ASSUME StopInv, Environment \/ UNCHANGED vars
    PROVE  Quiet
<1>1. /\ postgres \in BOOLEAN /\ quote \in [Positions -> Quote] /\ ready \in BOOLEAN
      /\ other \in [Positions -> BOOLEAN]
  BY DEF StopInv, TypeOK
<1>2. CASE GateChanges
  BY <1>1, <1>2, AsideIsQuiet DEF GateChanges
<1>3. ASSUME NEW p \in Positions, PositionProjected(p)
      PROVE  Quiet
  BY <1>3, ProjectionIsQuiet
<1>4. ASSUME NEW p \in Positions, QuoteArrives(p)
      PROVE  Quiet
  BY <1>1, <1>4, AsideIsQuiet DEF QuoteArrives
<1>5. ASSUME NEW p \in Positions, OtherOrderCreated(p) \/ OtherOrderEnds(p)
      PROVE  Quiet
  BY <1>1, <1>5, AsideIsQuiet DEF OtherOrderCreated, OtherOrderEnds
<1>6. ASSUME NEW t \in Ids, StopOrderEnds(t) \/ StopOrderFills(t)
      PROVE  Quiet
  BY <1>6, StopEndIsQuiet, StopFillIsQuiet
<1>7. CASE UNCHANGED vars
  BY <1>1, <1>7, AsideIsQuiet DEF vars
<1>8. QED
  BY <1>2, <1>3, <1>4, <1>5, <1>6, <1>7 DEF Environment

LEMMA StepIs ==
    ASSUME StopInv, [Next]_vars
    PROVE  \/ \E e \in Evaluators : \E new : Evaluates(e, new)
           \/ \E e \in Evaluators : \E W, ids, stale : Committed(e, W, ids, stale)
           \/ Quiet
<1>1. ASSUME NEW e \in Evaluators, RunRefused(e) \/ Crash(e)
      PROVE  \E new : Evaluates(e, new)
  <2>1. Evaluates(e, Idle)
    BY <1>1, EmptyEvaluates DEF RunRefused, Crash
  <2>2. QED
    BY <2>1
<1>2. ASSUME NEW e \in Evaluators, EvaluatorStep(e)
      PROVE  \/ \E new : Evaluates(e, new)
             \/ \E W, ids, stale : Committed(e, W, ids, stale)
  <2>1. CASE Run(e)
    BY <2>1, RunEvaluates
  <2>2. CASE RunRefused(e)
    BY <1>1, <2>2
  <2>3. CASE RunCommits(e)
    BY <2>3, RunCommitted
  <2>4. CASE Recover(e)
    BY <2>4, RecoverEvaluates
  <2>5. CASE RecoverCommits(e)
    BY <2>5, RecoverCommitted
  <2>6. CASE \E t \in Ids : RecoverOne(e, t)
    BY <2>6, RecoverOneEvaluates
  <2>7. QED
    BY <1>2, <2>1, <2>2, <2>3, <2>4, <2>5, <2>6 DEF EvaluatorStep
<1>3. CASE Environment \/ UNCHANGED vars
  BY <1>3, EnvironmentIsQuiet
<1>4. CASE \E e \in Evaluators : EvaluatorStep(e) \/ Crash(e)
  BY <1>1, <1>2, <1>4
<1>5. QED
  BY <1>3, <1>4 DEF Next

-----------------------------------------------------------------------------
(***************************************************************************)
(* The invariant, and what follows from it.                                *)
(***************************************************************************)
LEMMA StopInit ==
    ASSUME Init
    PROVE  StopInv
<1>1. NoTrigger \in Trigger /\ NoOrder \in Order /\ Idle \in Tick
  BY IdleType DEF NoTrigger, Trigger, NoOrder, Order, States, ActiveStates
<1>2. /\ [open |-> TRUE, managed |-> Shares, free |-> TRUE, version |-> 1] \in Position
      /\ [bid |-> "above", executable |-> TRUE] \in Quote
  BY DEF Position, Quote
<1>3. TypeOK
  BY <1>1, <1>2 DEF Init, TypeOK
<1>4. \A t \in Ids : trigger[t].state = "NONE" /\ order[t].status = "none"
  BY DEF Init, NoTrigger, NoOrder
<1>5. Used = {}
  BY <1>4 DEF Used
<1>6. UsedUpTo(0)
  BY <1>5 DEF UsedUpTo, Ids
<1>7. NumberedInOrder /\ RowsFit
  BY <1>4, <1>5, <1>6 DEF NumberedInOrder, RowsFit
<1>8. \A e \in Evaluators : tick[e].items = {} /\ tick[e].stale = {} /\ tick[e].todo = {}
  BY DEF Init, Idle
<1>9. TicksFit
  BY <1>8 DEF TicksFit, TickFits
<1>10. QED
  BY <1>3, <1>7, <1>9 DEF StopInv

LEMMA EvaluatesKeepsInv ==
    ASSUME StopInv, NEW e \in Evaluators, NEW new, Evaluates(e, new)
    PROVE  StopInv'
<1>1. /\ new \in Tick /\ Fitting(new) /\ tick' = [tick EXCEPT ![e] = new]
      /\ UNCHANGED <<postgres, position, quote, ready, trigger, order, other>>
  BY DEF Evaluates
<1>2. tick'[e] = new
  BY <1>1 DEF StopInv, TypeOK
<1>3. \A i \in new.items : ItemFits(i)'
  BY <1>1 DEF Fitting, ItemsFit, ItemFits, Gone, Used
<1>4. \A t \in new.stale : t \in Used' /\ Gone(trigger[t].position, trigger[t].version)'
  BY <1>1 DEF Fitting, Gone, Used
<1>5. new.todo \subseteq Used'
  BY <1>1 DEF Fitting, Used
<1>6. \A i, j \in new.items : i.was.position = j.was.position => i = j
  BY <1>1 DEF Fitting, ItemsFit
<1>7. new.at = "recover" => \A i \in new.items : i.id # 0
  BY <1>1 DEF Fitting
<1>8. TickFits(e)'
  BY <1>2, <1>3, <1>4, <1>5, <1>6, <1>7 DEF TickFits
<1>9. QED
  BY <1>1, <1>8, TickKeepsInv

LEMMA StopStep ==
    ASSUME StopInv, [Next]_vars
    PROVE  StopInv'
<1>1. ASSUME NEW e \in Evaluators, NEW new, Evaluates(e, new)
      PROVE  StopInv'
  BY <1>1, EvaluatesKeepsInv
<1>2. ASSUME NEW e \in Evaluators, NEW W, NEW ids, NEW stale, Committed(e, W, ids, stale)
      PROVE  StopInv'
  BY <1>2, CommitKeepsInv DEF Committed
<1>3. CASE Quiet
  <2>1. \A t \in Ids : order'[t].status # "none" => order[t].status # "none"
    BY <1>3 DEF Quiet
  <2>2. QED
    BY <1>3, <2>1, QuietKeepsInv DEF Quiet
<1>4. QED
  BY <1>1, <1>2, <1>3, StepIs

LEMMA StopInvHolds == Spec => []StopInv
<1>1. Init => StopInv
  BY StopInit
<1>2. StopInv /\ [Next]_vars => StopInv'
  BY StopStep
<1>3. QED
  BY <1>1, <1>2, PTL DEF Spec

\* The tables and the ticks of stop_trigger.py keep their types: every row
\* has a state that the check constraint of stop_triggers allows, whatever
\* the order of evaluations, commits, projections and crashes.
THEOREM StopTypeCorrect == Spec => []TypeOK
<1>1. StopInv => TypeOK
  BY DEF StopInv
<1>2. QED
  BY <1>1, StopInvHolds, PTL

LEMMA StepKeepsSignal ==
    ASSUME StopInv, [Next]_vars, NEW t \in Ids, Active(t), ~Active(t)'
    PROVE  order'[t].status # "none" \/ Gone(trigger[t].position, trigger[t].version)
<1>1. ASSUME NEW e \in Evaluators, NEW new, Evaluates(e, new)
      PROVE  FALSE
  BY <1>1 DEF Evaluates, Active
<1>2. ASSUME NEW e \in Evaluators, NEW W, NEW ids, NEW stale, Committed(e, W, ids, stale)
      PROVE  order'[t].status # "none" \/ Gone(trigger[t].position, trigger[t].version)
  BY <1>2, CommitKeepsSignal DEF Committed
<1>3. CASE Quiet
  BY <1>3 DEF Quiet, Active
<1>4. QED
  BY <1>1, <1>2, <1>3, StepIs

\* No evaluation of stop_trigger.py, however late its transaction commits and
\* whatever other evaluators, projections and crashes came in between, ends
\* an active trigger without an order unless its position was closed or has
\* another version.
THEOREM SignalsAreKept == Spec => SignalIsKept
<1>1. ASSUME StopInv, [Next]_vars, NEW t \in Ids, Active(t), ~Active(t)'
      PROVE  \/ order'[t].status # "none"
             \/ ~position[trigger[t].position].open
             \/ position[trigger[t].position].version # trigger[t].version
  <2>1. CASE order'[t].status # "none"
    BY <2>1
  <2>2. CASE Gone(trigger[t].position, trigger[t].version)
    <3>1. PICK p : p = trigger[t].position
      OBVIOUS
    <3>2. p \in Positions /\ trigger[t].version \in Nat /\ position[p].version \in Nat
      <4>1. t \in Used
        BY <1>1 DEF Active, ActiveStates, Used
      <4>2. QED
        BY <1>1, <3>1, <4>1 DEF StopInv, RowsFit, Placed, TypeOK, Trigger, Position
    <3>3. QED
      BY <2>2, <3>1, <3>2 DEF Gone
  <2>3. QED
    BY <1>1, <2>1, <2>2, StepKeepsSignal
<1>2. StopInv /\ [Next]_vars =>
          [\A t \in Ids : Active(t) /\ ~Active(t)' =>
               \/ order'[t].status # "none"
               \/ ~position[trigger[t].position].open
               \/ position[trigger[t].position].version # trigger[t].version]_vars
  BY <1>1
<1>3. QED
  BY <1>2, StopInvHolds, PTL DEF Spec, SignalIsKept

-----------------------------------------------------------------------------
(***************************************************************************)
(* One stop order of a position, as long as no two ticks overlap.          *)
(***************************************************************************)
ApartInv == OneStopOrder /\ SalesAreFirst /\ IdleIsEmpty

LEMMA PassingIsFree ==
    ASSUME NEW p, AccountPasses(p)
    PROVE  NothingToSell(p)
BY DEF AccountPasses, HasBlockingOrder, Of, NothingToSell

LEMMA EvaluatesKeepsApart ==
    ASSUME StopInv, ApartInv, NEW e \in Evaluators, NEW new, Evaluates(e, new)
    PROVE  ApartInv'
<1>1. /\ new \in Tick /\ Fitting(new) /\ tick' = [tick EXCEPT ![e] = new]
      /\ UNCHANGED <<postgres, position, quote, ready, trigger, order, other>>
  BY DEF Evaluates
<1>2. tick'[e] = new /\ \A f \in Evaluators : f # e => tick'[f] = tick[f]
  BY <1>1 DEF StopInv, TypeOK
<1>3. OneStopOrder'
  BY <1>1 DEF ApartInv, OneStopOrder
<1>4. \A p : NothingToSell(p) => NothingToSell(p)'
  BY <1>1 DEF NothingToSell
<1>5. \A i \in new.items : i.id # 0 /\ i.sell > 0 => NothingToSell(i.was.position)
  BY <1>1, PassingIsFree DEF Fitting
<1>6. ASSUME NEW f \in Evaluators, NEW i \in tick'[f].items, i.id # 0, i.sell > 0
      PROVE  NothingToSell(i.was.position)'
  <2>1. NothingToSell(i.was.position)
    BY <1>2, <1>5, <1>6 DEF ApartInv, SalesAreFirst
  <2>2. QED
    BY <1>4, <2>1
<1>7. IdleIsEmpty'
  BY <1>1, <1>2 DEF ApartInv, IdleIsEmpty, Fitting
<1>8. SalesAreFirst'
  BY <1>6 DEF SalesAreFirst
<1>9. QED
  BY <1>3, <1>7, <1>8 DEF ApartInv

LEMMA CommittedKeepsApart ==
    ASSUME StopInv, ApartInv, TicksApart,
           NEW e \in Evaluators, NEW W, NEW ids, NEW stale, Committed(e, W, ids, stale)
    PROVE  ApartInv'
<1>1. ASSUME NEW w \in W, w.sell > 0
      PROVE  NothingToSell(w.was.position)
  <2>1. CASE AccountPasses(w.was.position)
    BY <2>1, PassingIsFree
  <2>2. CASE \E i \in tick[e].items : i.id # 0 /\ i.sell > 0 /\ i.was = w.was
    BY <2>2 DEF ApartInv, SalesAreFirst
  <2>3. QED
    BY <1>1, <2>1, <2>2 DEF Committed, Commits
<1>2. OneStopOrder'
  BY <1>1, CommitKeepsOrdersApart DEF ApartInv, Committed
<1>3. ASSUME NEW f \in Evaluators
      PROVE  tick'[f].items = {}
  <2>1. CASE f = e
    BY <2>1 DEF Committed, Emptied
  <2>2. CASE f # e
    <3>1. tick'[f] = tick[f] /\ tick[f].at = "idle"
      BY <2>2 DEF Committed, TicksApart
    <3>2. QED
      BY <3>1 DEF ApartInv, IdleIsEmpty
  <2>3. QED
    BY <2>1, <2>2
<1>4. QED
  BY <1>2, <1>3 DEF ApartInv, SalesAreFirst, IdleIsEmpty

LEMMA QuietKeepsApart ==
    ASSUME StopInv, ApartInv, Quiet
    PROVE  ApartInv'
<1>1. \A t \in Ids : order'[t].status = "active" => order[t].status = "active"
  BY DEF Quiet
<1>2. UNCHANGED <<trigger, tick>>
  BY DEF Quiet
<1>3. OneStopOrder'
  BY <1>1, <1>2 DEF ApartInv, OneStopOrder
<1>4. \A p : NothingToSell(p) => NothingToSell(p)'
  BY <1>1, <1>2 DEF NothingToSell
<1>5. SalesAreFirst'
  <2>1. \A f \in Evaluators : \A i \in tick[f].items :
            i.id # 0 /\ i.sell > 0 => NothingToSell(i.was.position)'
    BY <1>4 DEF ApartInv, SalesAreFirst
  <2>2. QED
    BY <1>2, <2>1 DEF SalesAreFirst
<1>6. IdleIsEmpty'
  BY <1>2 DEF ApartInv, IdleIsEmpty
<1>7. QED
  BY <1>3, <1>5, <1>6 DEF ApartInv

LEMMA ApartStep ==
    ASSUME StopInv, ApartInv, TicksApart, [Next]_vars
    PROVE  ApartInv'
<1>1. ASSUME NEW e \in Evaluators, NEW new, Evaluates(e, new)
      PROVE  ApartInv'
  BY <1>1, EvaluatesKeepsApart
<1>2. ASSUME NEW e \in Evaluators, NEW W, NEW ids, NEW stale, Committed(e, W, ids, stale)
      PROVE  ApartInv'
  BY <1>2, CommittedKeepsApart
<1>3. CASE Quiet
  BY <1>3, QuietKeepsApart
<1>4. QED
  BY <1>1, <1>2, <1>3, StepIs

LEMMA ApartInit ==
    ASSUME Init
    PROVE  ApartInv
<1>1. \A t \in Ids : order[t].status = "none"
  BY DEF Init, NoOrder
<1>2. \A e \in Evaluators : tick[e].items = {}
  BY DEF Init, Idle
<1>3. QED
  BY <1>1, <1>2 DEF ApartInv, OneStopOrder, SalesAreFirst, IdleIsEmpty

\* While the ticks of the workers do not overlap, _emit_fixed_stop_order never
\* leaves a position with two active stop orders: not of two triggers of
\* different versions, not of a row of the first transaction and one of the
\* recovery, and not across crashes and retries.
THEOREM StopOrdersApart == Spec => ApartTicksSellOnce
<1>1. Init => ApartInv
  BY ApartInit
<1>2. StopInv /\ ApartInv /\ TicksApart /\ [Next]_vars => ApartInv'
  BY ApartStep
<1>3. ApartInv => OneStopOrder
  BY DEF ApartInv
<1>4. QED
  BY <1>1, <1>2, <1>3, StopInvHolds, PTL DEF Spec, ApartTicksSellOnce
=============================================================================
