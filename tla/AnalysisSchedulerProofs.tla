---------------------- MODULE AnalysisSchedulerProofs ----------------------
(***************************************************************************)
(* Proof that the schedulers keep the ledger of SlotLedger, for any number *)
(* of schedulers, targets, slots and acquisitions of the lease.            *)
(***************************************************************************)
EXTENDS AnalysisScheduler, FiniteSetTheorems, TLAPS

InTick(s) == proc[s].pc \in {"TICK", "DECIDE", "ADVISE", "CLOSE"}
HasSlot(s) == InTick(s) \/ At(s, "TARGETS")

\* The holder of the lease that found its slot not recorded is the only one that
\* could record it: slots of the clock are never behind the recorded one.
SlotFits(s) ==
    /\ proc[s].slot <= clock
    /\ At(s, "READ") /\ OwnsRow(s) => row.slot <= proc[s].slot
    /\ HasSlot(s) => proc[s].slot # 0 /\ (OwnsRow(s) => row.slot < proc[s].slot)

\* The request a tick is at is decided by the time it is served.
RequestFits(s) ==
    /\ At(s, "DECIDE") \/ At(s, "ADVISE") => proc[s].todo # {}
    /\ At(s, "DECIDE") /\ proc[s].found => decided[Request(s)] = 1
    /\ At(s, "ADVISE") => decided[Request(s)] = 1
    /\ At(s, "CLOSE") => proc[s].todo = {}

\* Targets of slot k that nobody has served.
Missing(k) == {t \in Targets : \A kind \in Kinds : <<k, t, kind>> \notin served}

\* A target a tick is past is served or counted, and no target is counted twice.
CountFits(s) ==
    InTick(s) =>
        /\ Cardinality(Missing(proc[s].slot) \ proc[s].todo) <= proc[s].skipped + proc[s].failed
        /\ proc[s].skipped + proc[s].failed + Cardinality(proc[s].todo) <= Cardinality(Targets)

ProcessFits(s) == SlotFits(s) /\ RequestFits(s) /\ CountFits(s)

DecidedOnce == \A q \in Requests : decided[q] \in {0, 1}

SchedulerInv ==
    /\ TypeOK
    /\ DecidedOnce
    /\ row.slot <= clock
    /\ \A s \in Schedulers : ProcessFits(s)

-----------------------------------------------------------------------------
(***************************************************************************)
(* Lemmas about the operators.                                             *)
(***************************************************************************)

\* The target a tick is at is one it still has to do (analysis_scheduler.py,
\* the loop over the targets).
LEMMA TargetIsToDo ==
    ASSUME NEW s, proc[s].todo # {}
    PROVE  Target(s) \in proc[s].todo
BY DEF Target

\* The targets, and what is left of them, are finite.
LEMMA FiniteParts ==
    ASSUME NEW S \in SUBSET Targets
    PROVE  IsFiniteSet(S) /\ Cardinality(S) \in Nat /\ Cardinality(S) <= Cardinality(Targets)
           /\ Cardinality(Targets) \in Nat
BY SchedulerAssumption, FS_Subset, FS_CardinalityType

\* Taking one target off the list of a tick adds at most that one to the targets
\* that must be counted.
LEMMA OneMoreCounted ==
    ASSUME NEW M \in SUBSET Targets, NEW todo \in SUBSET Targets, NEW t \in todo
    PROVE  /\ Cardinality(todo \ {t}) = Cardinality(todo) - 1
           /\ Cardinality(M \ (todo \ {t})) <= Cardinality(M \ todo) + 1
           /\ t \notin M => M \ (todo \ {t}) = M \ todo
<1>1. /\ IsFiniteSet(todo) /\ IsFiniteSet(M \ todo) /\ IsFiniteSet((M \ todo) \cup {t})
      /\ Cardinality(M \ todo) \in Nat /\ Cardinality((M \ todo) \cup {t}) \in Nat
      /\ Cardinality(M \ (todo \ {t})) \in Nat
  BY FiniteParts
<1>2. Cardinality(todo \ {t}) = Cardinality(todo) - 1
  BY <1>1, FS_RemoveElement
<1>3. Cardinality((M \ todo) \cup {t}) = Cardinality(M \ todo) + 1
  BY <1>1, FS_AddElement
<1>4. M \ (todo \ {t}) \subseteq (M \ todo) \cup {t}
  OBVIOUS
<1>5. Cardinality(M \ (todo \ {t})) <= Cardinality((M \ todo) \cup {t})
  BY <1>1, <1>4, FS_Subset
<1>6. t \notin M => M \ (todo \ {t}) = M \ todo
  OBVIOUS
<1> QED
  BY <1>1, <1>2, <1>3, <1>5, <1>6

\* Counting a target that is served by now, or adding it to the count, keeps the
\* count of a tick large enough and no larger than the targets it is past.
LEMMA CountGoesOn ==
    ASSUME NEW before \in SUBSET Targets, NEW after \in SUBSET before,
           NEW todo \in SUBSET Targets, NEW t \in todo, NEW n \in Nat, NEW m \in Nat,
           Cardinality(before \ todo) <= n, n + Cardinality(todo) <= Cardinality(Targets),
           \/ m = n + 1
           \/ m = n /\ t \notin after
    PROVE  /\ Cardinality(after \ (todo \ {t})) <= m
           /\ m + Cardinality(todo \ {t}) <= Cardinality(Targets)
<1>1. after \in SUBSET Targets /\ before \ todo \in SUBSET Targets
  OBVIOUS
<1>2. /\ Cardinality(todo \ {t}) = Cardinality(todo) - 1
      /\ Cardinality(after \ (todo \ {t})) <= Cardinality(after \ todo) + 1
      /\ t \notin after => after \ (todo \ {t}) = after \ todo
  BY <1>1, OneMoreCounted, ZenonT(60)
<1>3. /\ Cardinality(after \ todo) <= Cardinality(before \ todo)
      /\ Cardinality(after \ todo) \in Nat /\ Cardinality(before \ todo) \in Nat
      /\ Cardinality(after \ (todo \ {t})) \in Nat
      /\ Cardinality(todo) \in Nat /\ Cardinality(Targets) \in Nat
  BY <1>1, FiniteParts, FS_Subset
<1>4. Cardinality(after \ (todo \ {t})) <= m
  <2>1. CASE m = n + 1
    BY <1>2, <1>3, <2>1
  <2>2. CASE m = n /\ t \notin after
    <3>1. Cardinality(after \ (todo \ {t})) = Cardinality(after \ todo)
      BY <1>2, <2>2, Zenon
    <3> QED
      BY <1>3, <2>2, <3>1
  <2> QED
    BY <2>1, <2>2
<1>5. m + Cardinality(todo \ {t}) <= Cardinality(Targets)
  BY <1>2, <1>3
<1> QED
  BY <1>4, <1>5

-----------------------------------------------------------------------------
(***************************************************************************)
(* What the other processes know survives a step, and a process that is    *)
(* not in a tick knows nothing.                                            *)
(***************************************************************************)

\* Time only passes, and decisions and served requests are never taken back.
Grows ==
    /\ clock' \in Nat /\ clock' >= clock
    /\ \A q \in Requests : decided[q] = 1 => decided'[q] = 1
    /\ served \subseteq served'

\* A process that takes no step keeps what it relies on, unless it comes to own
\* the lease or another row is recorded under its lease.
LEMMA OthersFit ==
    ASSUME NEW s \in Schedulers, TypeOK, TypeOK', ProcessFits(s), Grows,
           proc'[s] = proc[s],
           OwnsRow(s)' => OwnsRow(s) /\ row'.slot = row.slot
    PROVE  ProcessFits(s)'
<1>0. proc[s] \in Process /\ clock \in Nat /\ proc[s].slot \in Nat
  BY SchedulerAssumption DEF TypeOK, Process
<1>1. SlotFits(s)'
  BY <1>0 DEF ProcessFits, SlotFits, Grows, At, HasSlot, InTick
<1>2. Request(s)' = Request(s)
  BY DEF Request, Target
<1>3. At(s, "DECIDE") \/ At(s, "ADVISE") => Request(s) \in Requests
  <2>1. SUFFICES ASSUME At(s, "DECIDE") \/ At(s, "ADVISE")
                 PROVE  Request(s) \in Requests
    OBVIOUS
  <2>2. Target(s) \in Targets
    BY <2>1, <1>0, TargetIsToDo DEF ProcessFits, RequestFits, Process
  <2>3. proc[s].slot \in Slots /\ proc[s].kind \in Kinds
    BY <2>1, <1>0, SchedulerAssumption DEF ProcessFits, SlotFits, HasSlot, InTick, At, Slots, Process
  <2> QED
    BY <2>2, <2>3 DEF Request, Requests
<1>4. RequestFits(s)'
  BY <1>2, <1>3 DEF ProcessFits, RequestFits, Grows, At
<1>5. CountFits(s)'
  <2>1. SUFFICES ASSUME InTick(s)
                 PROVE  Cardinality(Missing(proc[s].slot)' \ proc[s].todo) <= proc[s].skipped + proc[s].failed
    BY DEF ProcessFits, CountFits, InTick
  <2>2. Missing(proc[s].slot)' \ proc[s].todo \subseteq Missing(proc[s].slot) \ proc[s].todo
    BY DEF Missing, Grows
  <2>3. Missing(proc[s].slot) \ proc[s].todo \in SUBSET Targets
    BY DEF Missing
  <2>4. /\ Cardinality(Missing(proc[s].slot)' \ proc[s].todo) <= Cardinality(Missing(proc[s].slot) \ proc[s].todo)
        /\ Cardinality(Missing(proc[s].slot) \ proc[s].todo) \in Nat
        /\ Cardinality(Missing(proc[s].slot)' \ proc[s].todo) \in Nat
    BY <2>2, <2>3, FiniteParts, FS_Subset
  <2>5. proc[s].skipped + proc[s].failed \in Nat
    BY <1>0 DEF Process
  <2>6. Cardinality(Missing(proc[s].slot) \ proc[s].todo) <= proc[s].skipped + proc[s].failed
    BY <2>1 DEF ProcessFits, CountFits
  <2> QED
    BY <2>4, <2>5, <2>6
<1> QED
  BY <1>1, <1>4, <1>5 DEF ProcessFits

\* A process that is not in a tick relies on nothing but the clock.
LEMMA IdleFits ==
    ASSUME NEW s \in Schedulers,
           proc'[s].pc \in {"ACQUIRE", "POLL", "RELEASE"},
           proc'[s].slot <= clock'
    PROVE  ProcessFits(s)'
BY DEF ProcessFits, SlotFits, RequestFits, CountFits, HasSlot, InTick, At

\* The request of a tick that decides or advises is one of its slot.
LEMMA RequestOfSlot ==
    ASSUME NEW s \in Schedulers, TypeOK, ProcessFits(s), At(s, "DECIDE") \/ At(s, "ADVISE")
    PROVE  /\ Target(s) \in proc[s].todo
           /\ Target(s) \in Targets
           /\ proc[s].slot \in Slots
           /\ proc[s].kind \in Kinds
           /\ Request(s) \in Requests
<1>0. proc[s] \in Process
  BY DEF TypeOK
<1>1. Target(s) \in proc[s].todo /\ Target(s) \in Targets
  BY <1>0, TargetIsToDo DEF ProcessFits, RequestFits, Process
<1>2. proc[s].slot \in Slots /\ proc[s].kind \in Kinds
  BY <1>0, SchedulerAssumption DEF ProcessFits, SlotFits, HasSlot, InTick, At, Slots, Process
<1> QED
  BY <1>1, <1>2 DEF Request, Requests

-----------------------------------------------------------------------------
(***************************************************************************)
(* Types.                                                                  *)
(***************************************************************************)

\* Every step of a scheduler writes its own process only, and something of its type.
LEMMA StepType ==
    ASSUME NEW s \in Schedulers, TypeOK, ProcessFits(s),
           Step(s) \/ Stop(s) \/ Crash(s)
    PROVE  /\ proc'[s] \in Process
           /\ proc' = [proc EXCEPT ![s] = proc'[s]]
<1>0. proc[s] \in Process /\ clock \in 0..MaxSlot /\ lease.token + 1 \in Nat
      /\ proc \in [Schedulers -> Process] /\ MaxSlot \in Nat
  BY SchedulerAssumption DEF TypeOK, Lease
<1>f. Fresh \in Process /\ [Fresh EXCEPT !.pc = "POLL", !.token = proc[s].token] \in Process
  <2>1. Fresh \in Process
    BY <1>0 DEF Fresh, Process, Kinds
  <2>2. proc[s].token \in Nat
    BY <1>0 DEF Process
  <2> QED
    BY <2>1, <2>2 DEF Process
<1>p. CASE Poll(s)
  BY <1>p, <1>0, <1>f DEF Poll
<1>g. ASSUME NEW pc \in {"TARGETS", "ADVISE", "CLOSE", "RELEASE"}, Goto(s, pc)
      PROVE  /\ proc'[s] \in Process
             /\ proc' = [proc EXCEPT ![s] = proc'[s]]
  BY <1>g, <1>0 DEF Goto, Process
<1>d. /\ [Done(s) EXCEPT !.skipped = @ + 1] \in Process
      /\ [Done(s) EXCEPT !.failed = @ + 1] \in Process
      /\ Done(s) \in Process
  <2>1. Done(s) \in Process
    BY <1>0 DEF Done, Process, Kinds
  <2>2. Done(s).skipped + 1 \in Nat /\ Done(s).failed + 1 \in Nat
    BY <2>1 DEF Process
  <2> QED
    BY <2>1, <2>2 DEF Process
<1>1. CASE acquire_scheduler_lease(s)
  BY <1>1, <1>0 DEF acquire_scheduler_lease, Process
<1>2. CASE renew_scheduler_lease(s)
  BY <1>2, <1>0 DEF renew_scheduler_lease, Process
<1>3. CASE release_scheduler_lease(s) \/ Crash(s)
  BY <1>3, <1>0, <1>f DEF release_scheduler_lease, Crash
<1>4. CASE ReadLastSlot(s)
  BY <1>4, <1>p, <1>g DEF ReadLastSlot
<1>5. CASE CloseSlot(s) \/ TickFails(s)
  BY <1>5, <1>p DEF CloseSlot, TickFails
<1>6. CASE RouteDecision(s) \/ TickEnds(s) \/ Stop(s)
  BY <1>6, <1>g DEF RouteDecision, TickEnds, Stop
<1>7. CASE _analysis_targets(s)
  BY <1>7, <1>0 DEF _analysis_targets, Process
<1>8. CASE Skip(s) \/ ItemFails(s) \/ CreateAgentRun(s)
  BY <1>8, <1>0, <1>d DEF Skip, ItemFails, CreateAgentRun
<1>9. CASE create_mock_decision(s)
  <2>1. PICK kind \in Kinds :
             proc' = [proc EXCEPT ![s].pc = "DECIDE", ![s].kind = kind,
                                  ![s].found = decided[<<proc[s].slot, Target(s), kind>>] > 0]
    BY <1>9 DEF create_mock_decision, Kinds
  <2> DEFINE found == decided[<<proc[s].slot, Target(s), kind>>] > 0
  <2>2. found \in BOOLEAN
    OBVIOUS
  <2>3. proc' = [proc EXCEPT ![s].pc = "DECIDE", ![s].kind = kind, ![s].found = found]
    BY <2>1
  <2> HIDE DEF found
  <2> QED
    BY <2>2, <2>3, <1>0 DEF Process
<1> QED
  BY <1>1, <1>2, <1>3, <1>4, <1>5, <1>6, <1>7, <1>8, <1>9 DEF Step

\* The variables keep their types.
LEMMA TypeStep ==
    ASSUME SchedulerInv, [Next]_vars
    PROVE  TypeOK'
<1>0. TypeOK /\ MaxSlot \in Nat
  BY SchedulerAssumption DEF SchedulerInv
<1>1. CASE UNCHANGED vars
  BY <1>1, <1>0 DEF vars, TypeOK
<1>2. CASE analysis_slot \/ LeaseExpires
  <2>1. clock' \in 0..MaxSlot
    BY <1>2, <1>0 DEF analysis_slot, LeaseExpires, TypeOK
  <2>2. lease' \in Lease
    BY <1>2, <1>0 DEF analysis_slot, LeaseExpires, TypeOK, Lease
  <2> QED
    BY <1>2, <1>0, <2>1, <2>2 DEF analysis_slot, LeaseExpires, TypeOK
<1>3. ASSUME NEW s \in Schedulers, Step(s) \/ Stop(s) \/ Crash(s)
      PROVE  TypeOK'
  <2>0. ProcessFits(s) /\ proc[s] \in Process
    BY <1>0 DEF SchedulerInv, TypeOK
  <2>1. proc' \in [Schedulers -> Process]
    BY <1>0, <1>3, <2>0, StepType DEF TypeOK
  <2>2. CASE acquire_scheduler_lease(s)
    BY <2>1, <2>2, <1>0 DEF acquire_scheduler_lease, TypeOK, Lease
  <2>3. CASE release_scheduler_lease(s)
    BY <2>1, <2>3, <1>0 DEF release_scheduler_lease, TypeOK, Lease
  <2>4. CASE CloseSlot(s)
    <3>1. [slot |-> proc[s].slot, skipped |-> proc[s].skipped, failed |-> proc[s].failed] \in State
      BY <2>0 DEF Process, State
    <3> QED
      BY <3>1, <2>1, <2>4, <1>0 DEF CloseSlot, update_scheduler_state, TypeOK
  <2>5. CASE RouteDecision(s)
    <3>1. Request(s) \in Requests
      BY <2>0, <2>5, <1>0, RequestOfSlot DEF RouteDecision
    <3>2. decided[Request(s)] + 1 \in Nat
      BY <3>1, <1>0 DEF TypeOK
    <3>3. decided' \in [Requests -> Nat]
      BY <3>2, <2>5, <1>0 DEF RouteDecision, TypeOK
    <3> QED
      BY <3>3, <2>1, <2>5, <1>0 DEF RouteDecision, TypeOK
  <2>6. CASE CreateAgentRun(s)
    BY <2>0, <2>1, <2>6, <1>0, RequestOfSlot DEF CreateAgentRun, TypeOK
  <2>7. CASE UNCHANGED <<clock, lease, row, decided, served>>
    BY <2>1, <2>7, <1>0 DEF TypeOK
  <2>8. Step(s) \/ Stop(s) \/ Crash(s) =>
            \/ acquire_scheduler_lease(s) \/ release_scheduler_lease(s) \/ CloseSlot(s)
            \/ RouteDecision(s) \/ CreateAgentRun(s)
            \/ UNCHANGED <<clock, lease, row, decided, served>>
    BY DEF Step, Stop, Crash, renew_scheduler_lease, ReadLastSlot, _analysis_targets, TickFails,
           Skip, create_mock_decision, ItemFails, TickEnds
  <2> QED
    BY <1>3, <2>2, <2>3, <2>4, <2>5, <2>6, <2>7, <2>8
<1> QED
  BY <1>1, <1>2, <1>3 DEF Next

-----------------------------------------------------------------------------
(***************************************************************************)
(* What a process that steps relies on.                                    *)
(***************************************************************************)

\* Reading the last recorded slot: the holder's slot is a later one.
LEMMA ReaderFits ==
    ASSUME NEW s \in Schedulers, SchedulerInv, TypeOK', ReadLastSlot(s) \/ renew_scheduler_lease(s)
    PROVE  ProcessFits(s)'
<1>0. /\ TypeOK /\ ProcessFits(s) /\ proc[s] \in Process /\ proc'[s] \in Process
      /\ proc \in [Schedulers -> Process] /\ row.slot \in Nat /\ clock \in Nat /\ row.slot <= clock
      /\ proc[s].slot \in Nat
  BY SchedulerAssumption DEF SchedulerInv, TypeOK, State, Process
<1>1. CASE renew_scheduler_lease(s)
  <2>1. /\ proc'[s].pc = IF Holds(s) THEN "READ" ELSE "RELEASE"
        /\ proc'[s].slot = clock /\ clock' = clock /\ row' = row
    BY <1>0, <1>1 DEF renew_scheduler_lease, Process
  <2> QED
    BY <1>0, <2>1 DEF ProcessFits, SlotFits, RequestFits, CountFits, HasSlot, InTick, At
<1>2. CASE ReadLastSlot(s) /\ proc[s].slot \in {0, row.slot}
  <2>1. proc'[s].pc = "POLL" /\ proc'[s].slot = 0 /\ clock' = clock
    BY <1>0, <1>2 DEF ReadLastSlot, Poll, Fresh
  <2> QED
    BY <1>0, <2>1, IdleFits
<1>3. CASE ReadLastSlot(s) /\ proc[s].slot \notin {0, row.slot}
  <2>1. /\ proc'[s] = [proc[s] EXCEPT !.pc = "TARGETS"] /\ clock' = clock /\ row' = row /\ lease' = lease
        /\ At(s, "READ")
    BY <1>0, <1>3 DEF ReadLastSlot, Goto
  <2>2. proc'[s].pc = "TARGETS" /\ proc'[s].slot = proc[s].slot /\ proc'[s].token = proc[s].token
    BY <1>0, <2>1 DEF Process
  <2>3. OwnsRow(s)' = OwnsRow(s)
    BY <2>1, <2>2 DEF OwnsRow
  <2>4. SlotFits(s)'
    BY <1>0, <1>3, <2>1, <2>2, <2>3 DEF ProcessFits, SlotFits, HasSlot, InTick, At
  <2> QED
    BY <2>4, <2>2 DEF ProcessFits, RequestFits, CountFits, InTick, At
<1> QED
  BY <1>1, <1>2, <1>3

\* A step inside a tick keeps slot and token, and with them what SlotFits says.
LEMMA SlotStays ==
    ASSUME NEW s \in Schedulers, SlotFits(s), HasSlot(s),
           proc'[s].slot = proc[s].slot, proc'[s].token = proc[s].token,
           UNCHANGED <<clock, lease, row>>, proc'[s].pc # "READ"
    PROVE  SlotFits(s)'
BY DEF SlotFits, HasSlot, InTick, At, OwnsRow

\* Between two targets, nothing a tick has counted changes.
LEMMA CountStays ==
    ASSUME NEW s \in Schedulers, CountFits(s), InTick(s),
           proc'[s].slot = proc[s].slot, proc'[s].todo = proc[s].todo,
           proc'[s].skipped = proc[s].skipped, proc'[s].failed = proc[s].failed,
           served' = served
    PROVE  CountFits(s)'
<1>1. Missing(proc[s].slot)' = Missing(proc'[s].slot)
  BY DEF Missing
<1> QED
  BY <1>1 DEF CountFits, InTick, Missing

\* The tick begins with every target to do and none counted.
LEMMA TargetsFit ==
    ASSUME NEW s \in Schedulers, SchedulerInv, TypeOK', _analysis_targets(s)
    PROVE  ProcessFits(s)'
<1>0. /\ TypeOK /\ ProcessFits(s) /\ proc[s] \in Process /\ proc \in [Schedulers -> Process]
  BY DEF SchedulerInv, TypeOK
<1>1. /\ proc'[s].pc = "TICK" /\ proc'[s].todo = Targets
      /\ proc'[s].skipped = 0 /\ proc'[s].failed = 0
      /\ proc'[s].slot = proc[s].slot /\ proc'[s].token = proc[s].token
      /\ UNCHANGED <<clock, lease, row>> /\ HasSlot(s)
  BY <1>0 DEF _analysis_targets, Process, HasSlot
<1>2. SlotFits(s)'
  BY <1>0, <1>1, SlotStays DEF ProcessFits
<1>3. RequestFits(s)'
  BY <1>1 DEF RequestFits, At
<1>4. CountFits(s)'
  <2>2. Cardinality({}) = 0 /\ Cardinality(Targets) \in Nat
    BY FS_EmptySet, FiniteParts
  <2>3. Cardinality(Missing(proc[s].slot)' \ proc'[s].todo) = 0
    <3>1. Missing(proc[s].slot)' \ proc'[s].todo = {}
      BY <1>1 DEF Missing
    <3> QED
      BY <3>1, <2>2, Zenon
  <2> QED
    BY <2>2, <2>3, <1>1 DEF CountFits, InTick
<1> QED
  BY <1>2, <1>3, <1>4 DEF ProcessFits

\* A tick that is done with a target has served it or counted it.
LEMMA DoneFits ==
    ASSUME NEW s \in Schedulers, TypeOK, TypeOK', ProcessFits(s), InTick(s), proc[s].todo # {},
           proc'[s].pc = "TICK", proc'[s].todo = proc[s].todo \ {Target(s)},
           proc'[s].slot = proc[s].slot, proc'[s].token = proc[s].token,
           UNCHANGED <<clock, lease, row>>, served \subseteq served',
           \/ proc'[s].skipped + proc'[s].failed = proc[s].skipped + proc[s].failed + 1
           \/ /\ proc'[s].skipped + proc'[s].failed = proc[s].skipped + proc[s].failed
              /\ <<proc[s].slot, Target(s), proc[s].kind>> \in served'
    PROVE  ProcessFits(s)'
<1>0. proc[s] \in Process
  BY DEF TypeOK
<1>1. SlotFits(s)'
  BY SlotStays DEF ProcessFits, HasSlot
<1>2. RequestFits(s)'
  BY DEF RequestFits, At
<1>3. CountFits(s)'
  <2>1. PICK before \in SUBSET Targets, after \in SUBSET Targets, todo \in SUBSET Targets, t \in Targets,
             n \in Nat, m \in Nat :
          /\ after \in SUBSET before /\ t \in todo
          /\ before = Missing(proc[s].slot) /\ after = Missing(proc[s].slot)'
          /\ todo = proc[s].todo /\ t = Target(s)
          /\ n = proc[s].skipped + proc[s].failed /\ m = proc'[s].skipped + proc'[s].failed
    <3>1. Missing(proc[s].slot)' \in SUBSET Missing(proc[s].slot) /\ Missing(proc[s].slot) \in SUBSET Targets
      BY DEF Missing
    <3>2. Target(s) \in proc[s].todo /\ proc[s].todo \in SUBSET Targets
      BY <1>0, TargetIsToDo DEF Process
    <3>3. proc[s].skipped + proc[s].failed \in Nat /\ proc'[s].skipped + proc'[s].failed \in Nat
      BY <1>0 DEF Process
    <3> QED
      BY <3>1, <3>2, <3>3
  <2>2. Cardinality(before \ todo) <= n /\ n + Cardinality(todo) <= Cardinality(Targets)
    BY <2>1 DEF ProcessFits, CountFits
  <2>3. \/ m = n + 1
        \/ m = n /\ t \notin after
    BY <1>0, <2>1 DEF Process, Missing
  <2>4. /\ Cardinality(after \ (todo \ {t})) <= m
        /\ m + Cardinality(todo \ {t}) <= Cardinality(Targets)
    <3>1. after \in SUBSET before /\ t \in todo
      BY <2>1
    <3> QED
      BY <3>1, <2>2, <2>3, CountGoesOn, Zenon
  <2> QED
    BY <2>1, <2>4 DEF CountFits
<1> QED
  BY <1>1, <1>2, <1>3 DEF ProcessFits

\* Looking for a decision, routing it, and the end of the tick.
LEMMA WithinTickFits ==
    ASSUME NEW s \in Schedulers, SchedulerInv, TypeOK',
           create_mock_decision(s) \/ RouteDecision(s) \/ TickEnds(s)
    PROVE  ProcessFits(s)'
<1>0. /\ TypeOK /\ ProcessFits(s) /\ proc[s] \in Process /\ proc \in [Schedulers -> Process] /\ DecidedOnce
  BY DEF SchedulerInv, TypeOK
<1>1. /\ proc'[s].slot = proc[s].slot /\ proc'[s].token = proc[s].token /\ proc'[s].todo = proc[s].todo
      /\ proc'[s].skipped = proc[s].skipped /\ proc'[s].failed = proc[s].failed
      /\ UNCHANGED <<clock, lease, row, served>> /\ InTick(s)
      /\ proc'[s].pc \in {"DECIDE", "ADVISE", "CLOSE"}
  <2>1. CASE create_mock_decision(s)
    <3>1. PICK kind \in Kinds :
             proc' = [proc EXCEPT ![s].pc = "DECIDE", ![s].kind = kind,
                                  ![s].found = decided[<<proc[s].slot, Target(s), kind>>] > 0]
      BY <2>1 DEF create_mock_decision, Kinds
    <3> DEFINE found == decided[<<proc[s].slot, Target(s), kind>>] > 0
    <3>2. proc' = [proc EXCEPT ![s].pc = "DECIDE", ![s].kind = kind, ![s].found = found]
      BY <3>1
    <3> HIDE DEF found
    <3> QED
      BY <1>0, <2>1, <3>2 DEF create_mock_decision, Process, InTick, At
  <2>2. CASE RouteDecision(s) \/ TickEnds(s)
    BY <1>0, <2>2 DEF RouteDecision, TickEnds, Goto, Process, InTick, At
  <2> QED
    BY <2>1, <2>2
<1>2. SlotFits(s)'
  BY <1>0, <1>1, SlotStays DEF ProcessFits, HasSlot
<1>3. CountFits(s)'
  BY <1>0, <1>1, CountStays DEF ProcessFits
<1>4. Target(s)' = Target(s)
  BY <1>1 DEF Target
<1>5. RequestFits(s)'
  <2>1. CASE create_mock_decision(s)
    <3>1. PICK kind \in Kinds :
             proc' = [proc EXCEPT ![s].pc = "DECIDE", ![s].kind = kind,
                                  ![s].found = decided[<<proc[s].slot, Target(s), kind>>] > 0]
      BY <2>1 DEF create_mock_decision, Kinds
    <3>2. /\ proc'[s].pc = "DECIDE" /\ proc'[s].kind = kind
          /\ proc'[s].found = (decided[<<proc[s].slot, Target(s), kind>>] > 0)
      BY <1>0, <3>1 DEF Process
    <3>3. proc[s].todo # {} /\ decided' = decided /\ At(s, "TICK")
      BY <2>1 DEF create_mock_decision
    <3>4. Request(s)' = <<proc[s].slot, Target(s), kind>>
      BY <1>1, <1>4, <3>2 DEF Request
    <3>5. <<proc[s].slot, Target(s), kind>> \in Requests
      <4>1. Target(s) \in Targets
        BY <1>0, <3>3, TargetIsToDo DEF Process
      <4>2. proc[s].slot \in Slots
        BY <1>0, <3>3, SchedulerAssumption DEF ProcessFits, SlotFits, HasSlot, InTick, At, Slots, Process
      <4> QED
        BY <4>1, <4>2 DEF Requests
    <3>6. decided[<<proc[s].slot, Target(s), kind>>] \in {0, 1}
      BY <1>0, <3>5 DEF DecidedOnce
    <3>7. proc'[s].found => (decided[Request(s)] = 1)'
      <4>1. SUFFICES ASSUME proc'[s].found PROVE (decided[Request(s)] = 1)'
        OBVIOUS
      <4>2. decided[<<proc[s].slot, Target(s), kind>>] > 0
        BY <3>2, <4>1, Zenon
      <4>3. decided[<<proc[s].slot, Target(s), kind>>] = 1
        BY <3>6, <4>2
      <4> QED
        BY <3>3, <3>4, <4>3, Zenon
    <3> QED
      BY <1>1, <3>2, <3>3, <3>7 DEF RequestFits, At
  <2>2. CASE RouteDecision(s)
    <3>1. /\ proc'[s] = [proc[s] EXCEPT !.pc = "ADVISE"] /\ At(s, "DECIDE")
          /\ proc[s].found \/ Inserted(s)
          /\ decided' = IF Inserted(s) THEN [decided EXCEPT ![Request(s)] = @ + 1] ELSE decided
      BY <1>0, <2>2 DEF RouteDecision, Goto
    <3>2. proc'[s].pc = "ADVISE" /\ proc'[s].kind = proc[s].kind
      BY <1>0, <3>1 DEF Process
    <3>3. Request(s)' = Request(s) /\ Request(s) \in Requests /\ proc[s].todo # {}
      BY <1>0, <1>1, <1>4, <3>1, <3>2, RequestOfSlot DEF Request, ProcessFits, RequestFits
    <3>4. decided'[Request(s)] = 1
      <4>1. CASE Inserted(s)
        BY <3>1, <3>3, <4>1, <1>0 DEF Inserted, TypeOK
      <4>2. CASE ~Inserted(s)
        BY <3>1, <3>3, <4>2, <1>0 DEF ProcessFits, RequestFits
      <4> QED
        BY <4>1, <4>2
    <3> QED
      BY <1>1, <3>2, <3>3, <3>4 DEF RequestFits, At
  <2>3. CASE TickEnds(s)
    <3>1. proc'[s].pc = "CLOSE" /\ proc[s].todo = {}
      BY <1>0, <2>3 DEF TickEnds, Goto, Process
    <3> QED
      BY <1>1, <3>1 DEF RequestFits, At
  <2> QED
    BY <2>1, <2>2, <2>3
<1> QED
  BY <1>2, <1>3, <1>5 DEF ProcessFits

\* A target is skipped, fails, or is served.
LEMMA ItemFits ==
    ASSUME NEW s \in Schedulers, SchedulerInv, TypeOK', Skip(s) \/ ItemFails(s) \/ CreateAgentRun(s)
    PROVE  ProcessFits(s)'
<1>0. /\ TypeOK /\ ProcessFits(s) /\ proc[s] \in Process /\ proc \in [Schedulers -> Process]
  BY DEF SchedulerInv, TypeOK
<1>1. /\ InTick(s) /\ proc[s].todo # {} /\ UNCHANGED <<clock, lease, row>> /\ served \subseteq served'
  BY <1>0 DEF Skip, ItemFails, CreateAgentRun, InTick, At, ProcessFits, RequestFits
<1>2. /\ Done(s).pc = "TICK" /\ Done(s).todo = proc[s].todo \ {Target(s)}
      /\ Done(s).slot = proc[s].slot /\ Done(s).token = proc[s].token
      /\ Done(s).skipped = proc[s].skipped /\ Done(s).failed = proc[s].failed
      /\ Done(s) \in Process
  BY <1>0 DEF Done, Process, Kinds
<1>3. CASE Skip(s)
  <2>1. proc'[s] = [Done(s) EXCEPT !.skipped = @ + 1]
    BY <1>0, <1>3 DEF Skip
  <2>2. /\ proc'[s].pc = "TICK" /\ proc'[s].todo = proc[s].todo \ {Target(s)}
        /\ proc'[s].slot = proc[s].slot /\ proc'[s].token = proc[s].token
        /\ proc'[s].skipped = proc[s].skipped + 1 /\ proc'[s].failed = proc[s].failed
    BY <1>2, <2>1 DEF Process
  <2>3. proc'[s].skipped + proc'[s].failed = proc[s].skipped + proc[s].failed + 1
    BY <1>0, <2>2 DEF Process
  <2> QED
    BY <1>0, <1>1, <2>2, <2>3, DoneFits
<1>4. CASE ItemFails(s)
  <2>1. proc'[s] = [Done(s) EXCEPT !.failed = @ + 1]
    BY <1>0, <1>4 DEF ItemFails
  <2>2. /\ proc'[s].pc = "TICK" /\ proc'[s].todo = proc[s].todo \ {Target(s)}
        /\ proc'[s].slot = proc[s].slot /\ proc'[s].token = proc[s].token
        /\ proc'[s].skipped = proc[s].skipped /\ proc'[s].failed = proc[s].failed + 1
    BY <1>2, <2>1 DEF Process
  <2>3. proc'[s].skipped + proc'[s].failed = proc[s].skipped + proc[s].failed + 1
    BY <1>0, <2>2 DEF Process
  <2> QED
    BY <1>0, <1>1, <2>2, <2>3, DoneFits
<1>5. CASE CreateAgentRun(s)
  <2>1. proc'[s] = Done(s) /\ Request(s) \in served'
    BY <1>0, <1>5 DEF CreateAgentRun
  <2>2. <<proc[s].slot, Target(s), proc[s].kind>> \in served'
    BY <2>1 DEF Request
  <2> QED
    BY <1>0, <1>1, <1>2, <2>1, <2>2, DoneFits
<1> QED
  BY <1>3, <1>4, <1>5

-----------------------------------------------------------------------------
(***************************************************************************)
(* The invariant is inductive.                                             *)
(***************************************************************************)

\* What a step of scheduler s does to the rows all of them share.
LEMMA SharedRows ==
    ASSUME NEW s \in Schedulers, SchedulerInv, Step(s) \/ Stop(s) \/ Crash(s)
    PROVE  /\ clock' = clock
           /\ row' # row => At(s, "CLOSE") /\ Holds(s) /\ row'.slot = proc[s].slot
           /\ lease' # lease => lease'.owner = s \/ (lease'.owner = lease.owner /\ lease'.token = lease.token)
           /\ \/ decided' = decided
              \/ /\ Request(s) \in Requests /\ decided[Request(s)] = 0
                 /\ decided' = [decided EXCEPT ![Request(s)] = 1]
           /\ served \subseteq served'
<1>0. TypeOK /\ ProcessFits(s)
  BY DEF SchedulerInv
<1>1. CASE acquire_scheduler_lease(s)
  BY <1>1 DEF acquire_scheduler_lease
<1>2. CASE release_scheduler_lease(s)
  BY <1>2, <1>0 DEF release_scheduler_lease, TypeOK, Lease
<1>3. CASE CloseSlot(s)
  BY <1>3 DEF CloseSlot, update_scheduler_state
<1>4. CASE RouteDecision(s)
  <2>1. Request(s) \in Requests
    BY <1>0, <1>4, RequestOfSlot DEF RouteDecision
  <2>2. Inserted(s) => decided[Request(s)] = 0 /\ decided' = [decided EXCEPT ![Request(s)] = 1]
    BY <1>4 DEF RouteDecision, Inserted
  <2> QED
    BY <1>4, <2>1, <2>2 DEF RouteDecision
<1>5. CASE CreateAgentRun(s)
  BY <1>5 DEF CreateAgentRun
<1>6. CASE UNCHANGED <<clock, lease, row, decided, served>>
  BY <1>6
<1>7. \/ acquire_scheduler_lease(s) \/ release_scheduler_lease(s) \/ CloseSlot(s)
      \/ RouteDecision(s) \/ CreateAgentRun(s)
      \/ UNCHANGED <<clock, lease, row, decided, served>>
  BY DEF Step, Stop, Crash, renew_scheduler_lease, ReadLastSlot, _analysis_targets, TickFails,
         Skip, create_mock_decision, ItemFails, TickEnds
<1> QED
  BY <1>1, <1>2, <1>3, <1>4, <1>5, <1>6, <1>7

\* The process that steps still has what it relies on.
LEMMA MoverFits ==
    ASSUME NEW s \in Schedulers, SchedulerInv, TypeOK', Step(s) \/ Stop(s) \/ Crash(s)
    PROVE  ProcessFits(s)'
<1>0. /\ TypeOK /\ ProcessFits(s) /\ proc[s] \in Process /\ proc \in [Schedulers -> Process]
      /\ clock \in Nat /\ 0 <= clock
  BY SchedulerAssumption DEF SchedulerInv, TypeOK
<1>1. clock' = clock
  BY SharedRows
<1>2. CASE acquire_scheduler_lease(s) \/ Stop(s)
  <2>1. proc'[s].pc \in {"POLL", "RELEASE"} /\ proc'[s].slot = proc[s].slot
    BY <1>0, <1>2 DEF acquire_scheduler_lease, Stop, Goto, Process
  <2> QED
    BY <1>0, <1>1, <2>1, IdleFits DEF ProcessFits, SlotFits
<1>3. CASE release_scheduler_lease(s) \/ Crash(s)
  <2>1. proc'[s].pc = "ACQUIRE" /\ proc'[s].slot = 0
    BY <1>0, <1>3 DEF release_scheduler_lease, Crash, Fresh
  <2> QED
    BY <1>0, <1>1, <2>1, IdleFits
<1>4. CASE CloseSlot(s) \/ TickFails(s)
  <2>1. proc'[s].pc = "POLL" /\ proc'[s].slot = 0
    BY <1>0, <1>4 DEF CloseSlot, TickFails, Poll, Fresh
  <2> QED
    BY <1>0, <1>1, <2>1, IdleFits
<1> QED
  BY <1>2, <1>3, <1>4, ReaderFits, TargetsFit, WithinTickFits, ItemFits DEF Step

\* SchedulerInv is preserved by every step.
LEMMA InvStep ==
    ASSUME SchedulerInv, [Next]_vars
    PROVE  SchedulerInv'
<1>0. /\ TypeOK /\ TypeOK' /\ DecidedOnce /\ row.slot <= clock /\ clock \in Nat /\ row.slot \in Nat
      /\ \A s \in Schedulers : ProcessFits(s)
  BY SchedulerAssumption, TypeStep DEF SchedulerInv, TypeOK, State
<1>1. CASE UNCHANGED vars
  <2>1. ASSUME NEW r \in Schedulers
        PROVE  ProcessFits(r)'
    BY <1>0, <1>1, OthersFit DEF Grows, vars, OwnsRow
  <2> QED
    BY <1>0, <1>1, <2>1 DEF SchedulerInv, DecidedOnce, vars
<1>2. CASE analysis_slot \/ LeaseExpires
  <2>1. /\ clock' \in Nat /\ clock' >= clock /\ UNCHANGED <<row, proc, decided, served>>
        /\ lease'.owner = lease.owner /\ lease'.token = lease.token
    BY <1>0, <1>2 DEF analysis_slot, LeaseExpires, TypeOK, Lease
  <2>2. ASSUME NEW r \in Schedulers
        PROVE  ProcessFits(r)'
    BY <1>0, <2>1, OthersFit DEF Grows, OwnsRow
  <2> QED
    BY <1>0, <2>1, <2>2 DEF SchedulerInv, DecidedOnce
<1>3. ASSUME NEW s \in Schedulers, Step(s) \/ Stop(s) \/ Crash(s)
      PROVE  SchedulerInv'
  <2>1. /\ clock' = clock
        /\ row' # row => At(s, "CLOSE") /\ Holds(s) /\ row'.slot = proc[s].slot
        /\ lease' # lease => lease'.owner = s \/ (lease'.owner = lease.owner /\ lease'.token = lease.token)
        /\ \/ decided' = decided
           \/ /\ Request(s) \in Requests /\ decided[Request(s)] = 0
              /\ decided' = [decided EXCEPT ![Request(s)] = 1]
        /\ served \subseteq served'
    BY <1>3, SharedRows
  <2>2. Grows
    BY <1>0, <2>1 DEF Grows, TypeOK
  <2>3. DecidedOnce'
    BY <1>0, <2>1 DEF DecidedOnce, TypeOK
  <2>4. row'.slot <= clock'
    BY <1>0, <1>3, <2>1 DEF ProcessFits, SlotFits
  <2>5. ASSUME NEW r \in Schedulers
        PROVE  ProcessFits(r)'
    <3>1. CASE r = s
      BY <1>0, <1>3, <3>1, MoverFits
    <3>2. CASE r # s
      <4>1. proc'[r] = proc[r]
        BY <1>0, <1>3, <3>2, StepType DEF TypeOK
      <4>2. OwnsRow(r)' => OwnsRow(r) /\ row'.slot = row.slot
        BY <2>1, <3>2, <4>1 DEF OwnsRow, Holds
      <4> QED
        BY <1>0, <2>2, <4>1, <4>2, OthersFit
    <3> QED
      BY <3>1, <3>2
  <2> QED
    BY <1>0, <2>3, <2>4, <2>5 DEF SchedulerInv
<1> QED
  BY <1>1, <1>2, <1>3 DEF Next

\* The initial states satisfy SchedulerInv.
LEMMA InvInit ==
    Init => SchedulerInv
<1> SUFFICES ASSUME Init PROVE SchedulerInv
  OBVIOUS
<1>1. TypeOK
  <2>1. Fresh \in Process
    BY SchedulerAssumption DEF Fresh, Process, Kinds
  <2>2. clock \in 0..MaxSlot /\ row \in State /\ lease \in Lease
    BY SchedulerAssumption DEF Init, State, Lease
  <2> QED
    BY <2>1, <2>2 DEF Init, TypeOK
<1>2. \A s \in Schedulers : ProcessFits(s)
  BY DEF Init, Fresh, ProcessFits, SlotFits, RequestFits, CountFits, HasSlot, InTick, At
<1>3. DecidedOnce /\ row.slot <= clock
  BY DEF Init, DecidedOnce
<1> QED
  BY <1>1, <1>2, <1>3 DEF SchedulerInv

-----------------------------------------------------------------------------
(***************************************************************************)
(* The theorems.                                                           *)
(***************************************************************************)

\* SchedulerInv holds in every reachable state.
LEMMA InvHolds ==
    Spec => []SchedulerInv
<1>1. Init => SchedulerInv
  BY InvInit
<1>2. SchedulerInv /\ [Next]_vars => SchedulerInv'
  BY InvStep
<1> QED
  BY <1>1, <1>2, PTL DEF Spec

\* The lease, the state row, the processes and the decisions of the scheduler
\* (analysis_scheduler_state.py, analysis_scheduler.py) keep their types.
THEOREM SchedulerTypeCorrect ==
    Spec => []TypeOK
<1>1. SchedulerInv => TypeOK
  BY DEF SchedulerInv
<1> QED
  BY <1>1, InvHolds, PTL

\* The ledger counts with the operator the scheduler counts with.
LEMMA SameCardinality ==
    ASSUME NEW S
    PROVE  Ledger!Cardinality(S) = Cardinality(S)
BY DEF Ledger!Cardinality, Cardinality

\* A step of a scheduler is a step of the ledger or leaves it alone: routing a
\* decision is Decide, admitting the agent run is Serve, and the fenced update at
\* the end of a tick is Close.
LEMMA LedgerStep ==
    ASSUME SchedulerInv, [Next]_vars
    PROVE  [\/ \E q \in Ledger!Requests : Ledger!Decide(q) \/ Ledger!Serve(q)
            \/ \E k \in Slots : \E n \in 0..Ledger!Cardinality(Targets) : Ledger!Close(k, n)
           ]_<<row.slot, row.skipped + row.failed, decided, served>>
<1> DEFINE Same == UNCHANGED <<row.slot, row.skipped + row.failed, decided, served>>
           Moves == \/ \E q \in Ledger!Requests : Ledger!Decide(q) \/ Ledger!Serve(q)
                    \/ \E k \in Slots : \E n \in 0..Ledger!Cardinality(Targets) : Ledger!Close(k, n)
<1>0. TypeOK /\ DecidedOnce
  BY DEF SchedulerInv
<1>1. CASE UNCHANGED <<row, decided, served>>
  BY <1>1
<1>2. ASSUME NEW s \in Schedulers, CloseSlot(s), Holds(s)
      PROVE  Moves
  <2>0. proc[s] \in Process /\ ProcessFits(s) /\ row.slot \in Nat
    BY <1>0, SchedulerAssumption DEF SchedulerInv, TypeOK, State
  <2>1. PICK k \in Slots, n \in Nat : k = proc[s].slot /\ n = proc[s].skipped + proc[s].failed
    BY <1>2, <2>0, SchedulerAssumption DEF CloseSlot, ProcessFits, SlotFits, HasSlot, InTick, At, Slots, Process
  <2>2. /\ row'.slot = k /\ row'.skipped + row'.failed = n /\ decided' = decided /\ served' = served
    BY <1>2, <2>1 DEF CloseSlot, update_scheduler_state
  <2>3. k > row.slot
    BY <1>2, <2>0, <2>1 DEF CloseSlot, ProcessFits, SlotFits, HasSlot, InTick, At, Holds, Slots
  <2>4. proc[s].todo = {}
    BY <1>2, <2>0 DEF CloseSlot, ProcessFits, RequestFits
  <2>5. Cardinality(Missing(k) \ proc[s].todo) <= n /\ n + Cardinality(proc[s].todo) <= Cardinality(Targets)
    BY <1>2, <2>0, <2>1 DEF CloseSlot, ProcessFits, CountFits, InTick, At
  <2>6. Missing(k) \ proc[s].todo = Missing(k) /\ Missing(k) = Ledger!Unserved(k)
    BY <2>4 DEF Missing, Ledger!Unserved
  <2>7. Ledger!Cardinality(Ledger!Unserved(k)) <= n
    BY <2>5, <2>6, SameCardinality
  <2>8. Cardinality(proc[s].todo) = 0 /\ Cardinality(Targets) \in Nat
    BY <2>4, FS_EmptySet, FiniteParts
  <2>9. n \in 0..Ledger!Cardinality(Targets)
    BY <2>5, <2>8, SameCardinality
  <2>10. Ledger!Close(k, n)
    BY <2>2, <2>3, <2>7 DEF Ledger!Close
  <2> QED
    BY <2>9, <2>10
<1>3. ASSUME NEW s \in Schedulers, RouteDecision(s), Inserted(s)
      PROVE  Moves
  <2>1. Request(s) \in Requests
    BY <1>0, <1>3, RequestOfSlot DEF RouteDecision, SchedulerInv
  <2>2. PICK q \in Requests : q = Request(s)
    BY <2>1
  <2>3. decided[q] = 0 /\ decided' = [decided EXCEPT ![q] = 1] /\ row' = row /\ served' = served
    BY <1>3, <2>2 DEF RouteDecision, Inserted
  <2>4. Ledger!Decide(q)
    BY <2>3 DEF Ledger!Decide
  <2>5. q \in Ledger!Requests
    BY <2>2 DEF Ledger!Requests, Requests
  <2> QED
    BY <2>4, <2>5
<1>4. ASSUME NEW s \in Schedulers, CreateAgentRun(s)
      PROVE  Moves
  <2>1. Request(s) \in Requests /\ decided[Request(s)] = 1
    BY <1>0, <1>4, RequestOfSlot DEF CreateAgentRun, SchedulerInv, ProcessFits, RequestFits
  <2>2. PICK q \in Requests : q = Request(s)
    BY <2>1
  <2>3. decided[q] = 1 /\ served' = served \cup {q} /\ row' = row /\ decided' = decided
    BY <1>4, <2>1, <2>2 DEF CreateAgentRun
  <2>4. Ledger!Serve(q)
    BY <2>3 DEF Ledger!Serve
  <2>5. q \in Ledger!Requests
    BY <2>2 DEF Ledger!Requests, Requests
  <2> QED
    BY <2>4, <2>5
<1>5. \/ UNCHANGED <<row, decided, served>>
      \/ \E s \in Schedulers : \/ CloseSlot(s) /\ Holds(s)
                               \/ RouteDecision(s) /\ Inserted(s)
                               \/ CreateAgentRun(s)
  BY ZenonT(60) DEF Next, vars, Step, Stop, Crash, acquire_scheduler_lease, renew_scheduler_lease,
         release_scheduler_lease, ReadLastSlot, CloseSlot, update_scheduler_state, _analysis_targets,
         TickFails, Skip, create_mock_decision, RouteDecision, ItemFails, TickEnds, analysis_slot, LeaseExpires
<1> HIDE DEF Moves
<1>6. Moves \/ Same
  BY <1>1, <1>2, <1>3, <1>4, <1>5
<1> QED
  BY <1>6 DEF Moves, Same

\* However many schedulers run a tick at the same time, with or without the lease,
\* they keep the ledger (analysis_scheduler.py:241-330): a request gets one decision,
\* is served after it was decided, slots are recorded in their order, and a recorded
\* slot counts every target that was not served.
THEOREM SchedulersKeepLedger ==
    Spec => KeepsLedger
<1>1. Init => Ledger!Open
  BY DEF Init, Ledger!Open, Ledger!Requests, Requests
<1>2. SchedulerInv /\ [Next]_vars =>
        [\/ \E q \in Ledger!Requests : Ledger!Decide(q) \/ Ledger!Serve(q)
         \/ \E k \in Slots : \E n \in 0..Ledger!Cardinality(Targets) : Ledger!Close(k, n)
        ]_<<row.slot, row.skipped + row.failed, decided, served>>
  BY LedgerStep
<1> QED
  BY <1>1, <1>2, InvHolds, PTL DEF Spec, KeepsLedger, Ledger!Ledger

=============================================================================
