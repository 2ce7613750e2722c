------------------------- MODULE AnalysisScheduler -------------------------
(***************************************************************************)
(* The periodic analysis: scheduler processes that compete for a lease,    *)
(* and the tick in which the holder decides about every target of a slot   *)
(* (analysis_scheduler.py, analysis_scheduler_state.py).                   *)
(*                                                                         *)
(* A step is one transaction.  The tick runs in a thread of its own, looks *)
(* at no lease and commits after every target; only what is written to the *)
(* lease and the state row is fenced.  The name of the state, the times    *)
(* and the error code of the row are only displayed: they are left out,    *)
(* and with them the updates that write nothing else.                      *)
(***************************************************************************)
EXTENDS Naturals, FiniteSets

CONSTANTS
    Schedulers,     \* scheduler processes; each restarts under a new owner id
    NoScheduler,
    Targets,        \* watched or held symbols of active users
    Held,           \* those whose position may open and close
    MaxSlot,        \* slots of the day that are looked at
    MaxToken        \* bound on the acquisitions of the lease

ASSUME SchedulerAssumption ==
    NoScheduler \notin Schedulers /\ Held \subseteq Targets /\ IsFiniteSet(Targets) /\ MaxSlot \in Nat /\ MaxToken \in Nat

Slots == 1..MaxSlot
Kinds == {"ENTRY", "POSITION"}
Requests == Slots \X Targets \X Kinds

VARIABLES
    clock,      \* the current slot; 0 outside of the hours of analysis
    lease,      \* AnalysisSchedulerLease
    row,        \* AnalysisSchedulerState
    proc,       \* the scheduler processes
    decided,    \* decisions in the database, by evaluation_request_id
    served      \* requests whose decision is routed and, where agents are assigned, the
                \* basis of an agent run

vars == <<clock, lease, row, proc, decided, served>>

Lease == [owner : Schedulers \cup {NoScheduler}, token : Nat, live : BOOLEAN]

\* slot 0: last_slot_key is null.
State == [slot : 0..MaxSlot, skipped : Nat, failed : Nat]

Process == [pc : {"ACQUIRE", "POLL", "READ", "TARGETS", "TICK", "DECIDE", "ADVISE", "CLOSE", "RELEASE"},
            token : Nat, slot : 0..MaxSlot, todo : SUBSET Targets,
            kind : Kinds, found : BOOLEAN, skipped : Nat, failed : Nat]

Fresh == [pc |-> "ACQUIRE", token |-> 0, slot |-> 0, todo |-> {},
          kind |-> "ENTRY", found |-> FALSE, skipped |-> 0, failed |-> 0]

TypeOK ==
    /\ clock \in 0..MaxSlot
    /\ lease \in Lease
    /\ row \in State
    /\ proc \in [Schedulers -> Process]
    /\ decided \in [Requests -> Nat]
    /\ served \subseteq Requests

At(s, pc) == proc[s].pc = pc
Poll(s) == proc' = [proc EXCEPT ![s] = [Fresh EXCEPT !.pc = "POLL", !.token = proc[s].token]]
Goto(s, pc) == proc' = [proc EXCEPT ![s].pc = pc]

-----------------------------------------------------------------------------
(***************************************************************************)
(* The lease and the state row.                                            *)
(***************************************************************************)

\* Mutant: a lease is taken once, and not when it expires.
CanAcquire_once == lease.owner = NoScheduler

CanAcquire == ~lease.live

\* The owner id of a process is new, so it is never the owner already.
acquire_scheduler_lease(s) ==
    /\ At(s, "ACQUIRE")
    /\ CanAcquire
    /\ lease.token < MaxToken
    /\ lease' = [owner |-> s, token |-> lease.token + 1, live |-> TRUE]
    /\ proc' = [proc EXCEPT ![s].pc = "POLL", ![s].token = lease.token + 1]
    /\ UNCHANGED <<clock, row, decided, served>>

OwnsRow(s) == lease.owner = s /\ lease.token = proc[s].token

\* Mutant: the fencing token is not compared, only the expiry.
Holds_unfenced(s) == lease.live

Holds(s) == OwnsRow(s) /\ lease.live

\* The expiry is only moved; the heartbeat is left out.
renew_scheduler_lease(s) ==
    /\ At(s, "POLL")
    /\ proc' = [proc EXCEPT ![s].pc = IF Holds(s) THEN "READ" ELSE "RELEASE", ![s].slot = clock]
    /\ UNCHANGED <<clock, lease, row, decided, served>>

\* Its result is used by none of its callers.
update_scheduler_state(s, new) == row' = IF Holds(s) THEN new ELSE row

release_scheduler_lease(s) ==
    /\ At(s, "RELEASE")
    /\ lease' = IF OwnsRow(s) THEN [lease EXCEPT !.live = FALSE] ELSE lease
    /\ proc' = [proc EXCEPT ![s] = Fresh]
    /\ UNCHANGED <<clock, row, decided, served>>

-----------------------------------------------------------------------------
(***************************************************************************)
(* The loop of a scheduler.                                                *)
(***************************************************************************)

\* Outside of the hours, or when the slot is recorded already, there is nothing to do.
ReadLastSlot(s) ==
    /\ At(s, "READ")
    /\ IF proc[s].slot \in {0, row.slot} THEN Poll(s) ELSE Goto(s, "TARGETS")
    /\ UNCHANGED <<clock, lease, row, decided, served>>

CloseSlot(s) ==
    /\ At(s, "CLOSE")
    /\ update_scheduler_state(s,
           [slot |-> proc[s].slot, skipped |-> proc[s].skipped, failed |-> proc[s].failed])
    /\ Poll(s)
    /\ UNCHANGED <<clock, lease, decided, served>>

Stop(s) ==
    /\ At(s, "POLL")
    /\ Goto(s, "RELEASE")
    /\ UNCHANGED <<clock, lease, row, decided, served>>

\* A process that crashes is started again.
Crash(s) ==
    /\ ~At(s, "ACQUIRE")
    /\ proc' = [proc EXCEPT ![s] = Fresh]
    /\ UNCHANGED <<clock, lease, row, decided, served>>

-----------------------------------------------------------------------------
(***************************************************************************)
(* The tick: one target after the other, in an order that does not matter, *)
(* as targets share no row.                                                *)
(***************************************************************************)

_analysis_targets(s) ==
    /\ At(s, "TARGETS")
    /\ proc' = [proc EXCEPT ![s].pc = "TICK", ![s].todo = Targets, ![s].skipped = 0, ![s].failed = 0]
    /\ UNCHANGED <<clock, lease, row, decided, served>>

\* The slot is not recorded, so the tick is repeated.
TickFails(s) ==
    /\ At(s, "TARGETS")
    /\ Poll(s)
    /\ UNCHANGED <<clock, lease, row, decided, served>>

Target(s) == CHOOSE t \in proc[s].todo : TRUE
Request(s) == <<proc[s].slot, Target(s), proc[s].kind>>
Done(s) == [proc[s] EXCEPT !.pc = "TICK", !.todo = @ \ {Target(s)},
                          !.kind = "ENTRY", !.found = FALSE]

\* No snapshot yet, or the user was deactivated.
Skip(s) ==
    /\ At(s, "TICK") /\ proc[s].todo # {}
    /\ proc' = [proc EXCEPT ![s] = [Done(s) EXCEPT !.skipped = @ + 1]]
    /\ UNCHANGED <<clock, lease, row, decided, served>>

\* The kind follows the position at the moment; the request id of the two kinds differs.
create_mock_decision(s) ==
    /\ At(s, "TICK") /\ proc[s].todo # {}
    /\ \E kind \in {"ENTRY"} \cup (IF Target(s) \in Held THEN {"POSITION"} ELSE {}) :
           proc' = [proc EXCEPT ![s].pc = "DECIDE", ![s].kind = kind,
                                ![s].found = decided[<<proc[s].slot, Target(s), kind>>] > 0]
    /\ UNCHANGED <<clock, lease, row, decided, served>>

\* A decision whose key was taken since it was looked for is refused.
Inserted(s) == ~proc[s].found /\ decided[Request(s)] = 0

\* Routing commits the decision, whether it was found or inserted.
RouteDecision(s) ==
    /\ At(s, "DECIDE")
    /\ proc[s].found \/ Inserted(s)
    /\ decided' = IF Inserted(s) THEN [decided EXCEPT ![Request(s)] = @ + 1] ELSE decided
    /\ Goto(s, "ADVISE")
    /\ UNCHANGED <<clock, lease, row, served>>

\* There is an agent run if every role has an ACTIVE route; otherwise nothing is left to do.
CreateAgentRun(s) ==
    /\ At(s, "ADVISE")
    /\ served' = served \cup {Request(s)}
    /\ proc' = [proc EXCEPT ![s] = Done(s)]
    /\ UNCHANGED <<clock, lease, row, decided>>

\* What fails is rolled back and counted, and the tick goes on.
ItemFails(s) ==
    /\ At(s, "DECIDE") \/ At(s, "ADVISE")
    /\ proc' = [proc EXCEPT ![s] = [Done(s) EXCEPT !.failed = @ + 1]]
    /\ UNCHANGED <<clock, lease, row, decided, served>>

TickEnds(s) ==
    /\ At(s, "TICK") /\ proc[s].todo = {}
    /\ Goto(s, "CLOSE")
    /\ UNCHANGED <<clock, lease, row, decided, served>>

-----------------------------------------------------------------------------
analysis_slot ==
    /\ clock < MaxSlot
    /\ clock' = clock + 1
    /\ UNCHANGED <<lease, row, proc, decided, served>>

LeaseExpires ==
    /\ lease.live
    /\ lease' = [lease EXCEPT !.live = FALSE]
    /\ UNCHANGED <<clock, row, proc, decided, served>>

Init ==
    /\ clock = 0
    /\ lease = [owner |-> NoScheduler, token |-> 0, live |-> FALSE]
    /\ row = [slot |-> 0, skipped |-> 0, failed |-> 0]
    /\ proc = [s \in Schedulers |-> Fresh]
    /\ decided = [q \in Requests |-> 0]
    /\ served = {}

Step(s) ==
    \/ acquire_scheduler_lease(s) \/ renew_scheduler_lease(s) \/ release_scheduler_lease(s)
    \/ ReadLastSlot(s) \/ CloseSlot(s)
    \/ _analysis_targets(s) \/ TickFails(s)
    \/ Skip(s) \/ create_mock_decision(s) \/ RouteDecision(s) \/ CreateAgentRun(s) \/ ItemFails(s)
    \/ TickEnds(s)

Next ==
    \/ \E s \in Schedulers : Step(s) \/ Stop(s) \/ Crash(s)
    \/ analysis_slot
    \/ LeaseExpires

\* A process that runs keeps taking steps, the lease of a process that is gone
\* expires, and the targets are not unreadable in every tick.
Fairness ==
    /\ \A s \in Schedulers : WF_vars(Step(s)) /\ SF_vars(_analysis_targets(s))
    /\ WF_vars(analysis_slot)
    /\ WF_vars(LeaseExpires /\ \A s \in Schedulers : ~OwnsRow(s))

Spec == Init /\ [][Next]_vars
FairSpec == Spec /\ Fairness

-----------------------------------------------------------------------------
\* The schedulers keep the ledger of SlotLedger, however many of them run a tick
\* at the same time, with or without the lease: a request gets one decision
\* (AI-082), slots are recorded in their order, and a slot that is recorded
\* counts every target that was not served (AI-084).
Ledger == INSTANCE SlotLedger WITH closed <- row.slot, missed <- row.skipped + row.failed
KeepsLedger == Ledger!Ledger

\* The slot in which the clock comes to rest is recorded, whatever ticks and
\* targets fail and processes crash on the way, unless every lease the bound
\* allows is lost again: as long as one more process can take the lease over,
\* the slot is not given up.
LastSlotCloses == <>(row.slot = MaxSlot \/ (lease.token = MaxToken /\ ~lease.live))
=============================================================================
