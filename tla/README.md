# Formal model of Cresta

Cresta is a personal intraday trading system: a FastAPI backend over PostgreSQL, a
Kiwoom broker worker, an analysis scheduler, an agent worker and a Next.js console.
Money is at stake where rows of the database and orders at the broker must agree
although processes crash, leases change hands and answers get lost. This directory
models that core in TLA+, checks it with TLC on small instances and proves the
central results with TLAPS.

All source paths below are relative to `backend/app/`.

## Inventory

| Component | State | Operations | Hard behaviour | What makes it correct |
|---|---|---|---|---|
| Broker lease (`broker/worker_state.py`) | lease, worker state and gate rows | acquire, renew, fenced update, release | takeover after expiry, late writes of a superseded process | tokens fence; nobody without a lease opens the gate |
| Broker worker (`worker.py`) | loop position, `lease_lost`, `failures`, `order_dispatch_enabled`, `event_due` | connect, reconcile, receive, dispatch, heartbeat, shut down | two tasks of one process, reconnects, debounced events | READY is earned by a reconciliation; a superseded process ends |
| Order sender (`broker/order_sender.py`) | order rows, gate | claim, commit, transmit, record the answer; cancel an expired entry | crash or lease loss around an HTTP request, unknown outcomes | at most one request per order; nothing is sent while an outcome is uncertain |
| Reconciliation (`reconciliation.py`) and projection (`account_projection.py`) | order, fill, position, mismatch rows, gate | snapshot, project, compare | non-atomic snapshot, concurrent runs | closed rows tell the truth about the broker; quantities add up |
| Order creation (`order_creation.py`) | intents, orders | create with an idempotency key | concurrent creation | one order per key |
| Decision execution and guard (`decision_execution.py`, `guard.py`, `risk_calc.py`) | executions, guard evaluations | route a decision to shadow, approval or order | checks against state that changes before the order | limits hold, one execution per decision |
| Approvals (`approvals.py`) | approvals | create, approve, reject, expire, invalidate | expiry racing approval | one order per approval, no execution left pending |
| Stop triggers (`stop_trigger.py`, `risk_events.py`) | triggers, risk events | evaluate, emit, recover, fulfil | order outcome after the trigger, position versions | a hit stop ends in an order or in an open risk event |
| Emergency stop (`emergency_stop.py`) | stop rows | pause, release | pause between check and order | no entry while paused |
| Paper broker (`trading/paper.py`) | orders, fills, position, gate | create, fill, cancel, replace | late fills after cancel and replace, duplicate fills | quantities and positions add up |
| Analysis scheduler (`analysis_scheduler*.py`) | lease, state, slots | acquire, tick, renew | a tick that outlives its lease, targets that fail half-way | one decision per slot and target; a recorded slot accounts for every target |
| Agent runtime (`agents/`, `position_agent_fusion.py`) | runs, stages, invocations, bundles | admit, claim, execute, recover, finalise, fuse | expired stage leases, unknown outcomes of model calls, a commit in the middle | nothing is sent twice; a run ends as its stages did; fusion needs complete stages |
| Market data (`watch.py`, `indicators.py`, `broker/kiwoom_ws.py`, `watchlist.py`) | trade cache, snapshots, stream state, minute bars, watchlist | receive a frame, ingest a quote, recover over REST | late, duplicate, reordered and missing frames, which carry no date | the current snapshot never goes back; no share is counted twice, nor on another day |
| LLM profiles and routing (`llm/`) | providers, models, routes, credential files | register, test, synchronise, validate, disable, delete, activate | requests that overlap around network calls; runs in progress | one assignment is active; retired rows stay retired; a run calls what it froze |
| Calendar, venue, policies, authentication | versions, overrides, sessions | draft, validate, activate, revoke | activation races | one active version |
| HTTP API and console | none | parse, call, format | none of its own | |

Components interact through the database only: the API, the scheduler and the agent
worker write decisions, approvals and `CREATED` orders; the broker worker sends them
and writes back what the broker says; the gate and the lease rows tell everyone
whether that is allowed.

## Modules

| Module | Models | Extends |
|---|---|---|
| `BrokerLease` | the lease, worker state and gate rows; the abstract lease specification `LeaseSpec` | |
| `BrokerWorker` | the worker process and the `kiwoom-reconcile-check` command | `BrokerLease` |
| `OrderDispatch` | order rows, sender, reconciliation, projection and the broker | `BrokerLease` |
| `StopTrigger` | fixed stop-loss triggers, their risk events and their orders | |
| `PaperBroker` | orders, fills, cancels and replacements of the paper broker | |
| `DecisionExecution` | routing of decisions, the guard, approvals, the pause of entries, and the orders they create | |
| `AgentStages` | admission, claims, execution and recovery of agent stages, the end of a run and fusion | |
| `SlotLedger` | abstract: what the periodic analysis promises | |
| `AnalysisScheduler` | the scheduler processes, their lease and their ticks; implements `SlotLedger` | |
| `LlmProfiles` | requests that change providers, models and routes, and the versions a run freezes | |
| `MarketWatch` | frames of the WebSocket, the quote stream and its minute bars | |
| `MC...` | instances, symmetry sets and constraints for TLC | the module they name |
| `BrokerWorkerProofs`, `OrderDispatchProofs`, `StopTriggerProofs`, `DecisionExecutionProofs`, `AgentStagesProofs`, `AnalysisSchedulerProofs`, `LlmProfilesProofs` | theorems | the module they name, `TLAPS` |
| `CountingProofs` | theorems about sums: shares and volumes | `PaperBroker`, `MarketWatch`, `TLAPS` |

### BrokerLease

`lease`, `workerState` and `gate` are the three rows of the account; `identity[w]` is
the token in the `LeaseIdentity` that process `w` holds. Each transaction of
`worker_state.py` is one operator. The clock is reduced to the question the code asks
of it: `lease.live` says that `expires_at` lies in the future, and it may become
false at any moment. This drops the assumption that a heartbeat is faster than a
lease (`config.py` requires it), so the safety results do not depend on timing. A
process incarnation is one element of `Workers`, because `owner_id` is fresh per
process.

`LeaseSpec` says what any process may do to these rows: take over an expired lease,
write under a current one, give the lease up, or, without a lease, close the gate.
`BrokerWorker` implements it, which is checked by TLC and proved; `OrderDispatch`
implements it, which is proved.

### BrokerWorker

`proc[w]` holds the place in `run`, `_connection_loop` or `_receive_loop` and the
locals that survive from one transaction to the next. Every `_require_state` and
`_update_state` call is a step; network calls succeed or fail at any time. The
heartbeat task interleaves with the loop at every such point, as it does on the event
loop. `failures` is only compared with `len(RECONNECT_BACKOFF)` and is counted up to
it. `dirty` is a history variable: an account event that no reconciliation has read
past. The stop-trigger timer, the watchlist and quotes inside the receive loop touch
none of this state and are left to the modules of those components.

### OrderDispatch

Each order is a row (`row`, as far as status, quantities, broker id and armed expiry
matter), possibly an imported row with the same broker id (`imported`), and a broker
side (`broker`, `wire`, `cancelWire`). The sender has four steps per request: claim
under a row lock, commit, transmit, record. A process may crash or lose its lease
between any two. A request in flight is accepted, refused or lost, before or after
the sender has given up on it; an acceptance may be answered without a clear
`return_code` (`garbled`), which the adapter takes for a refusal or cannot read. A snapshot is two reads; the third, of positions, does
not touch orders. Reconciliations may run in workers and in lease-less processes at
the same time. `sends`, `cancels` and `intruded` are history variables.

Two details of the persistence layer matter. The session is created with
`expire_on_commit=False`, so `_finish_cancel` sees the row as it was before the
request; the version column of the row refuses a write based on it, which ends the
process. And the unique index on the broker order id refuses an acknowledgement of an
order that was imported meanwhile. The window between loading and flushing the rows
of one projection is not modelled: the same version column turns a conflict in it
into a failed reconciliation, which is modelled.

### StopTrigger

`tick[e]` is the transaction that evaluator `e`, a worker process, is in: `Run` reads
everything that `run_fixed_stop_triggers` reads, `RunCommits` writes it, `Recover`
and its two steps are the second transaction, `recover_exit_pending`. A trigger row
carries the state of its risk event. The stop price appears as the comparison of the
bid with it (`quote.bid`), the rules about age and quality of the snapshot and about
the session as `quote.executable`, and the quantity rule as `position.free`. Positions,
quotes, the gate and orders of other origin change by actions that stand for their
components.

Three details of the code shape the model. `active_risk_policy` is called with the
account alias although policies are stored under user ids, so the policy id of a
trigger is always NULL and the unique constraint on it never refuses a row.
`version` of a trigger is never incremented, so its version column never refuses an
update, and an UPDATE names only the columns the session changed (`Written`). And the
database matters, so `Init` chooses one: PostgreSQL refuses every transaction that
evaluates a trigger, because the guard evaluation names the trigger where a foreign
key wants a decision execution and the correlation id is a character too long; SQLite
checks neither, but lets only one session write at a time, so that what a new trigger
reads after its first write is current when it commits (`Completed`).

### PaperBroker

The paper broker of `trading/paper.py` has one caller, and each of its functions is
one transaction, so each is one action. A row is named by its idempotency key and a
fill by its source key; a repeated key with the same request returns the row it made,
which is a stutter, and with another request is refused, also a stutter. Prices, fees
and the event ledger are left out. `unreserved` is a history variable: a SELL fill, of an
order that was cancelled or replaced meanwhile, took shares that no order had reserved.

### DecisionExecution

`Routers` are the processes that route decisions (the analysis scheduler and the agent
worker), `Clients` the requests that approve. `tx[p]` is the open transaction of a
process: it reads and locks rows in one step and commits in a later one, and other
transactions commit in between, as READ COMMITTED allows. `execution[d][v]` is keyed,
as the table is, by decision and policy version, so a new policy lets a decision be
routed again; the record carries the approval of the execution. `order[k]` is keyed by
its idempotency key: the key of the client, or the decision after which an automatic
order is named.

What the guard reads from rows that no action writes (quote, session, gate,
connection, losses, exposure) passes or fails at random; what it reads from executions,
orders, positions and the pause is modelled. Because any rule may fail, a refused
approval and a routing that ends without approval or order are single steps. The lock
of the quote stream's head only serialises approvals and is left out, which allows
more interleavings than the code has. The idempotency keys of the emergency stop only
choose between an answer and a refusal.

Three details of the persistence layer matter. The locking read of a position returns
the object the session has already loaded (there is no `populate_existing`), so the
sale is planned from `copy`, the position as the tick or the fusion read it. A unique
key taken between lookup and insert makes `create_order` roll back, which also
releases the lock of the approval (`RACED`); `approve` then writes without looking at
the state again. And a decision is inserted by the transaction that routes it, so it
becomes visible only with its execution. `racing` is a history variable: the entries
that were under way when the pause was activated. `Init` gives each position `Shares`
shares; `_project_positions` makes any other quantity.

### AgentStages

A run is its row, its evidence bundle and the state of its fusion; `stage[r][x]` is the
row of stage `x`. `STAGES`, `DEPENDENCY_OK`, `TERMINAL` and the rules of
`claim_next_stage` are those of the code. A claim is one transaction; an execution
locks its row and keeps the lock over the calls of the model (`_invoke_once`) until it
commits, which is why a recovery may read the row (it takes no lock) but not write it in
between. What a stage computes is reduced to the state it ends in: each role has an
operator with the states its code can reach, given the bundle and the calls made.
`_create_run` with the idempotency key of an existing run returns that run, a stutter.
Validity, timeouts and leases may pass at any moment.

`recover_expired_stages` reads rows in one step and overwrites them in a later one. The
rows have no version column, so a recovery whose stage has ended in the meantime undoes
its result. `late` records the runs this happened to, and the properties except them
(see the findings). It needs two workers; the deployment starts one.
`finalize_position_advisory` routes a decision, which commits, and records the result in
a second commit: `FUSED` is the state between.

### SlotLedger and AnalysisScheduler

`SlotLedger` is what AI-080 to AI-085 ask of the periodic analysis, whoever runs it:
every request (slot, target, kind) gets at most one decision; a request is served after
it was decided; slots are recorded in their order, and a slot that is recorded counts
every target that was not served as missed.

`AnalysisScheduler` has a process per scheduler with the lease protocol of
`analysis_scheduler_state.py`. The tick runs in a thread, commits after every target
and looks at no lease, so the ticks of two schedulers interleave freely; a target is
three steps (look up the decision, route it with its commit, admit the agent run), and
each may fail or be the last before a crash. The refinement mapping takes the last slot
of the state row as `closed` and the sum of its skipped and failed counts as `missed`.
The ledger holds because the state row is fenced and the request ids are unique.

### LlmProfiles

`request[q]` is a request in progress: the rows it has read and will write, each with
the version it had. `Commit` writes them if every version is still the one that was read
and the two unique indexes hold, otherwise `Rollback`. Requests that ask a provider over
the network (`DISCOVER`) and `activate_assignments`, which selects ACTIVE routes before
it waits for their locks (`SELECT`, `LOCK`), have steps in between. Credential files are
outside of any transaction: `secret` changes at once, whatever becomes of the row.
`_load_routes` admits a run and freezes versions; `_binding` compares them before a
call. A refused request changes nothing and is not a step. `Init` is an empty database
or a provider with validated models and routes, an assignment of which may be active.

### MarketWatch

One market and symbol. The exchange publishes trades with a time in whole seconds and
the volume of the day so far, and orderbooks; frames arrive in any order, repeatedly,
on a later day or never. A frame carries a time of day and no date: `_event_time` dates
it by the clock of its reception, and to the day before when that would be more than
`Leeway` (five minutes) ahead. The clock of the exchange may be ahead by `Skew`, more or
less than the leeway. `misdated` is a history variable: some trade was given another time
than its own. `trade_cache` belongs to the connection; an orderbook becomes a quote with
the time and volume of the cached trade. `ingest_quote` is one step, as it locks the
stream and one worker calls it. Its branches (discarded, late, gap, applied) and the
volume of the minute bars are those of `watch.py` and `indicators.py`. Prices, indicators
and sequence numbers, which no adapter supplies, are left out. `normalize_basic_quote`
models the recovery snapshot of the REST adapter.

## Runs

| Run | Instance | Shows |
|---|---|---|
| `broker_worker` | 2 workers, 1 command-line process, backoff table of 2 | types, fencing, READY is earned, fenced writes, refinement of `LeaseSpec` |
| `broker_worker_live` | 2 workers, fairness | a superseded worker ends; a standby takes over |
| `order_dispatch` | 2 workers, 1 command-line process, 1 order of 2 shares | the seven invariants of the order rows |
| `stop_trigger` | 1 evaluator, 1 position of 1 share, 3 versions, 3 triggers, fairness | types; the stop signal is kept and sold once; a pending exit is sold once the guard lets it |
| `paper_broker` | 3 orders, 4 fills, 1 symbol, 3 shares | types; an order has one replacement; quantities fit; every fill is counted once; reserved shares are covered |
| `decision_execution` | 1 router, 2 requests, 2 decisions, 2 policy versions, 2 client keys, 1 symbol of 1 share | one order per approval; execution and approval agree; one active sale per symbol; the limit of entries, the pause and approved sales hold although transactions race |
| `stop_never_recorded` | smallest instance with the behaviour, fairness | finding, below |
| `agent_stages` | 2 workers, 1 run, 2 scouts | no call is repeated; run and stages agree; fusion comes from complete stages |
| `agent_stages_live` | 2 workers, 1 run, 1 scout, CORE with a fallback model, fairness | a run that is admitted ends |
| `analysis_scheduler` | 2 schedulers, 2 targets, one of them held, 2 slots, 2 acquisitions, fairness | refinement of `SlotLedger`; the last slot is recorded unless both acquisitions were lost |
| `llm_profiles` | 2 requests at a time, 3 in all, 2 providers, 2 models, 2 roles with 2 routes each | one assignment; retired rows; calls are what was frozen |
| `market_watch` | 3 trades, 2 orderbooks, 6 seconds of 2 days after a first one, clock ahead by 2, leeway 1 | the snapshot never goes back; no share is counted twice unless a trade was misdated |

Bounds. Two workers are the smallest number with a takeover; a third could only
repeat it, because the lease has one owner and tokens only grow. One lease-less
process suffices for a write that no lease covers. A quantity of two shares is the
smallest with a partial fill. Process incarnations do not restart, so behaviours are
finite in the number of takeovers; the proofs do not have this limit. Deadlock
checking is off where every process may end. Positions do not share triggers, orders
or quotes, so one position suffices for `StopTrigger`; three versions of it let a
trigger be superseded, created again and recovered; one share suffices because a stop
order always sells the whole managed quantity. Three paper orders are a parent, its
replacement and the replacement's replacement or a stranger; four fills of three shares
fill each of them in parts. In `DecisionExecution` two requests race on one approval or
one key and a router races with both; two decisions are two sales of one symbol, or a
sale and an entry, or two entries; two policy versions route a decision twice; a limit
of one entry is reached by the first; two versions of a position let a fill come
between any read and its commit. One share suffices because the properties compare a
quantity with what is left, all or nothing. `OrderDispatch` is checked with one order:
orders share only the gate, the lease and the order of claims; what is proved of it
holds for any number.

Runs of agents share no row but the route limits, which pass or fail at random, so one
run suffices; two scouts let one fail while the other runs, and are `TECHNICAL_SCOUT`
and `POSITION_RISK_SCOUT`, the one that may not be applicable. `BeforeLate` stops
exploring a behaviour after a late recovery, about which the properties say nothing.
Two slots (`MaxSlot`) let a tick end in the slot after its own; two acquisitions
(`MaxToken`) are a takeover with the old holder still in its tick; two targets let one
fail and the other be served. For `LastSlotCloses` the second acquisition is the one
that must come to the end after the first was lost anywhere in its tick, by a crash or by
an expiry; only losing it as well is an excuse. `StopTrigger` is checked with one
evaluator, because its liveness with two is beyond TLC; what is proved of it holds for
any number. Three requests (`MaxRequests`), two at a time, are two
activations that overlap and a validation or deletion before or during them; a run may
be admitted and call at any point. `PerMinute` and `PerDay` put two seconds into a
minute and four into a day, and the clock starts on the second day, since a trade may be
dated to the day before; `MaxTime` of ten crosses into the third. Three trades
(`MaxTrades`) are enough for two within a second and one on another day, two orderbooks
(`MaxBooks`) for one before and one after a reordering. A `Skew` of two with a `Leeway`
of one has quotes from the future that keep their day and others that lose it.

Fairness. `broker_worker_live` assumes that a process that has not crashed keeps
taking steps (the event loop runs, every network call has a timeout) and that the
clock passes the expiry of a lease whose owner ended. Nothing is assumed of the
broker, of the command-line process or of signals. `stop_trigger` assumes that a tick
that has begun ends and that the next one follows (the receive loop starts one every
ten seconds), and, because a crash may come at any moment, that not every tick that
could commit crashes before it does (strong fairness of the two commits). The quote
and the gate may change at every step; the property says only what happens when the
guard keeps letting the exit through. `agent_stages_live` assumes that a worker that is
idle or executing goes on (calls have timeouts, the loop catches every exception), that
the lease of a stage whose worker died expires, and that not every recovery crashes
before it commits (strong fairness). Nothing is assumed of the model: every call may
fail. `analysis_scheduler` assumes that a scheduler process that runs keeps taking steps
and is restarted after a crash (the container is), that time passes through the slots,
that a lease nobody renews expires, and that the list of targets can be read now and
then (strong fairness). A holder may lose its lease at any moment all the same, so
`LastSlotCloses` has one alternative: every acquisition the bound allows was used, and
the last one was lost too. To have acquired the lease for the last time is not enough.

## Findings

`StopIsRecorded` (`stop_never_recorded`) is a documented claim a run refutes: on
PostgreSQL every tick that evaluates a trigger is rolled back, so a reached stop is never
recorded (EXE-053).

The models contain further behaviour that differs from what documents or comments say.
No run singles it out; each item names the steps that lead to it. For the first five the
module states the documented claim as well, beside the weaker property that does hold,
and TLC refutes it when it is added to the configuration named:

- `EventsCloseGate` (`MCBrokerWorker.cfg`): a periodic reconciliation during the debounce
  of an account event opens the gate again (`worker.py:254`), the next event is merged
  into the old one (`worker.py:267`), and the worker sends with an event it has not
  compared. REC-082 and KIW-136 close the gate at once and open it only after a clean
  comparison. `ReadyIsEarned` holds: such an event is always due;
- `HaltIsKept` (`MCBrokerWorker.cfg`): the worker applies a clean verdict although a
  concurrent `kiwoom-reconcile-check` has meanwhile halted the account (`worker.py:379`;
  RECONCILIATION_SPEC.md:39 and OPERATIONS_RUNBOOK.md:288 forbid orders while HALTED);
- `RejectedIsRefused` (`MCOrderDispatch.cfg`): every `return_code` that is not the integer
  0, also a missing one or a string, is taken for a refusal (`broker/kiwoom.py:503`), so
  an order that the broker accepted may be `REJECTED`; STM-023 and ORD-035 make an unclear
  answer `UNKNOWN`. `RejectedStaysOut` holds: in every other case a rejected order is not
  at the broker;
- `OneStopOrder` (`MCStopTrigger.cfg` with two evaluators, two versions and two triggers):
  a worker that lost its lease and its successor may both create a stop order of the whole
  managed quantity, although the tick "runs only while this worker holds the lease"
  (`worker.py:309`): `_run_stop_triggers` only tests that there was an identity. The
  PostgreSQL finding above hides it until the evaluation can be stored.
  `ApartTicksSellOnce` holds;
- `BarsFollowExchange` (`MCMarketWatch.cfg`): a trade whose time is more than five minutes
  ahead of the reception is dated yesterday (`broker/kiwoom_ws.py:301`), and its volume is
  counted in the bars of yesterday; MKT-030 forbids bars built from times of reception.
  `VolumeIsNotCountedTwice` holds as long as no trade is misdated, and `EventTimeIsRight`
  says exactly which are;
- a partially filled `CANCELLED` order becomes `RECONCILING` at the next reconciliation
  and halts the account (`account_projection.py:99`; compare the comment at line 130);
- an automatic sale is planned from the copy of the position that the session loaded
  before the lock, so a fill in between leaves an order for shares that are gone
  (`decision_execution.py:243`; EXE-015, ORD-043). An approved sale compares the version
  of the position under a fresh session: `ApprovedSellIsCovered` holds;
- `approve` on an expired approval writes the approval only; the sweep no longer selects
  it, and the execution stays in `APPROVAL_PENDING` (`approvals.py:326`);
- the lease check before a request is not protected against a takeover, so a superseded
  worker may transmit (KIW-040); `SentAtMostOnce` still holds;
- a snapshot that still lists an order turns `CANCEL_PENDING` back into `OPEN`
  (compare STM-028);
- the tick after a stop order was created inserts a second trigger for the same
  position version (GRD-085); a trigger that recovered and is blocked again is pending
  with a resolved risk event (EXE-053); an order of another origin committed between
  the guard of a pending exit and its stop order is not seen (EXE-064);
- in the paper broker, `replace_paper_order` consults neither the gate nor the symbol
  lock (PAP-006), a late fill of the parent reopens a `CANCEL_PENDING` replacement, and
  an order whose last share is filled while it is `REPLACE_PENDING` stays there;
- the number of entries is read without a lock, so transactions that race may exceed the
  limit, by less than one each (`EntriesAreBounded`); exposure does not count pending
  BUY orders (GRD-082);
- a client that uses one key for two approvals may have an `APPROVED` approval
  overwritten with `INVALIDATED`, although its order exists (STM-008);
- `approve` does not compare the policy version of the execution with the active one
  (EXE-043), and a decision that is routed under two versions may make both an approved
  and an automatic order;
- with two agent workers a recovery may overwrite a stage that ended after the recovery
  read it (MAO-051, MAO-102, DB-119; the lease of 30 seconds is never renewed): the run
  may then stay `RUNNING` for ever, or be fused from states that are no longer those of
  its stages;
- a crash between the commit of the router and the last commit of a fusion leaves
  `fusion_state` `PENDING` for ever although the decision was routed: the first commit
  has already ended the run;
- a model is called before anything about the call is committed (MAO-052), so a crash
  loses the invocation row, and the daily limit does not count the call; nor does it
  check before the fallback call;
- a verifier that is executed again meets the unique bundle of the run, and the exception
  leaves its row `RUNNING` until the next recovery;
- the tick looks at no lease (AI-085): two schedulers may work on one slot. Request ids
  are unique, so this is harmless (AI-082), except that a slot may have an ENTRY and a
  POSITION decision for one target when its position opens or closes in between;
- disabling a model or deleting a provider checks that no ACTIVE route uses it, and
  activation that models and providers are validated; each reads rows the other writes
  and locks none of them, so both may commit (LLM-PROVIDER-107). `_load_routes` and
  `_binding` then refuse the route, so runs fail and nothing is called;
- `delete_provider` removes the credential file, and `set_provider_credential` replaces
  it, before the commit that may fail; a model created during the deletion of its
  provider stays; `test_provider` validates a provider whatever its health;
- activation raises the version of a route, so a run that was admitted with it before,
  as VALIDATED, fails (`AGENT_ROUTE_SNAPSHOT_MISMATCH`);
- a trade from the future is discarded but stays in `trade_cache`, and the next orderbook
  carries its volume into the stream, past the bars;
- the hash of a payload contains its time of reception, so a frame that is delivered
  again is a conflict and not a duplicate (MKT-061, MKT-085); both are discarded;
- nothing calls `get_basic_quote`, so a stream with a gap stays so (MKT-012, MKT-064),
  and after a recovery over REST the first frame of the WebSocket has another source and
  is a gap again; two trades of one second in reverse order are a gap as well.

## Proofs

`BrokerWorkerProofs` first proves type correctness and `TokensFence` of `LeaseSpec`;
`TokensFence` is inductive as it stands together with the types. Then it proves
`Spec => LeaseSpec` step by step, so that the fencing result carries over. `ReadyIsEarned` is not inductive: the gate may be READY
while a process is elsewhere in its loop. The strengthening says what each place of
the loop implies about the worker row and the locals of the process that owns the
newest token. `FencedWrites` follows from the same invariant, step by step.

`OrderDispatchProofs` proves `Spec => LeaseSpec`, the types and the six invariants of
the order rows for any number of workers, command-line runs, orders and shares. The
argument has three layers.

- `DispatchInv` gives `SentAtMostOnce` and `CancelledAtMostOnce`: an order that was not
  sent is still in `CREATED`, or in `SUBMITTING` in the hand of exactly one worker that
  has not yet transmitted; an armed expiry has not been cancelled, and a worker about to
  transmit a cancel is the only one that ever disarmed the order. Row locks make two
  claims of the same order impossible.
- `TruthInv` gives `RejectedStaysOut` and `RowsAreConsistent`, with or without a lease:
  the answer a worker is about to record is true of its request, unless the answer had no
  clear `return_code` (`garbled`), and neither a row nor a
  snapshot, however old, is ahead of the broker, because the broker only adds fills.
- `FenceInv` gives `ClosedRowsMatchBroker` and `CertainWhenReady`, as long as nobody wrote
  without a lease: what the snapshot of the owner says of orders that are not listed is
  final, because only the owner gives an order an id (`SnapIsFinal`); and a worker whose
  reconciliation was clean, or that has one order in hand, has no other uncertain order
  (`OthersCertain`). `OthersRest` is the lemma behind both: while one worker owns the
  lease, the others leave the rows alone, except for new orders.

The assumptions are those of the modules: `NoWorker` is no worker, lease-less processes
are no workers, quantities are positive.

`CountingProofs` proves every property of `PaperBroker` for any number of orders,
fills, symbols and shares, and every property of `MarketWatch` for any number of trades
and orderbooks, any length of minutes and days, any skew of the clock and any leeway. Orders and fills are finitely many (`PaperAssumption`), since
their key columns have a bounded length. It has four parts:

- `PaperInv` gives the types, `QuantitiesFit` and `OneReplacement`. Neither is inductive:
  a late fill of a parent takes shares from its replacement, so `PaperInv` also says that
  a parent with a replacement is done (`ParentsAreDone`: it can be neither cancelled nor
  replaced again) and that no two orders name the same parent (`NoTwins`).
- What a sum is. `Total(v, S)` is the sum of `v[x]` over a finite set. The library's
  induction theorems take an operator and cannot be used, but its order of strict subsets
  is well-founded, so a set of counterexamples has a minimal one (`MinimalSubset`). From
  that follow that the equations of a fold have one solution (`SumUnique`, `SumExists`),
  that elements can be taken out in any order (`TotalWithout`), and how a sum changes with
  one value (`TotalChange`) or when a value moves (`TotalMove`). `RemainingIsTotal`,
  `QuantityIsTotal` and `FillsIsTotal` show that the folds of the model are such sums.
- `SumInv` gives `FillsAreCounted` and `ReservedIsCovered`. It says that order rows and
  fills agree (`Counted`), positions and order rows too (`Balanced`), that reservations
  are covered (`Covered`), that a row without an order is empty, and that a replacement
  has the symbol and side of its parent (`LikeParent`), or a late fill would move another
  position than the one whose reservation it uses up. A replacement moves a reservation,
  and a fill lowers one, of its order or of the replacement, by what it takes from the
  position (`FillTakes`).
- `WatchInv` gives the properties of `MarketWatch`; the bars of a day are a sum as well
  (`BarsIsTotal`). It says that the bars of the day together have at most the volume the
  stream has seen since the first quote (`BarsCounted`), that nothing is counted yet for
  a later day (`AheadIsEmpty`), so that the first quote of a day starts from empty bars,
  that the stream is ahead neither of the clock nor of the trades of its day
  (`StreamFollows`), so that a recovery snapshot, which has the largest volume of its day
  and is applied without a comparison, is not behind the stream either, and that the
  cached trade has its own time (`CacheFits`). All but `AheadIsEmpty` and the clock hold
  only until a trade is misdated. A minute need not end with the day. `EventTimeIsRight`
  characterises `_event_time`: the date of a trade is right exactly when the trade is
  received on its day and at most the leeway ahead, or on the next day while its time of
  day is still more than the leeway ahead.

`StopTriggerProofs` proves the types, `SignalIsKept` and `ApartTicksSellOnce` of
`StopTrigger` for any number of evaluators, positions, shares, versions and trigger rows.

- `StopInv` gives the types and `SignalIsKept`. What an
  evaluation read may be old when its transaction commits, so the invariant says which
  parts of it are still true then (`ItemFits`): the row is of the same position and
  version; an item that fulfils its row sells; and an item or a stale row that is to be
  superseded is of a position that was closed or of a version it has left (`Gone`), which
  later projections do not undo, because every change of a position raises its version.
  New rows take the next ids without a gap (`NumberedInOrder`), so a commit never
  overwrites a row of another evaluator (`NewNumbers`, `NumberUnique`). Every step is one
  of three (`StepIs`): an evaluation, a commit, or one that leaves the triggers alone.
- `OneStopOrder` is false when ticks of two workers overlap (see the findings). It is
  proved, as `ApartTicksSellOnce`, for behaviours in which they do not (`[]TicksApart`),
  however many workers there are and whoever holds the lease: an old row that is about to be sold found no active stop order of its position, and
  none has appeared since (`SalesAreFirst`); a new one reads the orders of the symbol in
  the transaction that inserts it.

`DecisionExecutionProofs` proves all properties of `DecisionExecution` for any numbers
of routers, requests, decisions, versions, keys and symbols, from the assumption that
there are finitely many processes. `DecisionInv` adds to the properties what the row
locks are for: the transaction that holds an approval is the only one about to make its
order (`ApprovalLocks`), and none was made before (`NoneBefore`); a sale about to be
made holds the lock of its position, and no active sale of it exists (`SellLocks`,
`SalesFit`). The limit of entries is a count: entries and the transactions about to make
one are fewer than the limit and the processes together (`EntriesFit`).

`AgentStagesProofs` proves `NoResend`, `RunAgreesWithStages` and `FusedFromComplete` for
any number of workers, runs and scouts. `SendInv` says that a routed stage is claimed
once, ever, and that the worker that works on it has made exactly the calls that are
counted. `DagInv` says that stages end in the order of the graph, that the rows a worker
holds are those it read, unless a recovery came late, and that a scout succeeds on a
bundle.

`AnalysisSchedulerProofs` proves that `AnalysisScheduler` implements `SlotLedger` for any
number of schedulers and any finite set of targets. `SchedulerInv` says that the owner of
the lease is in a later slot than the recorded one (`SlotFits`), that a request is decided
when it is advised (`RequestFits`), and that every target a tick has passed is served or
counted (`CountFits`).

`LlmProfilesProofs` proves `OneAssignment`, `CallsWhatWasFrozen` and
`RetiredStaysRetired` for any tables and requests. The core of `LlmInv` is what the
version column is for: a write whose version is still the one of the row was decided on
the row as it is, so no two requests that overlap can both commit.

Only model-checked: the five liveness properties `SupersededWorkerEnds`,
`StandbyTakesOver`, `PendingExitIsSold`, `RunEnds` and `LastSlotCloses` (fairness and
ENABLED are outside the prover). Every other property of a passing run is a theorem, for every value of the
constants.

## Plan

1. Done: all modules above, with proofs of every safety property and both refinements.
2. The fills and positions of the account projection, as part of `OrderDispatch`.
3. Venue selection and the trading calendar, which decide when a quote is executable.

## Not modelled

Field normalisation, provider adapters, prompts, indicator and score arithmetic, the
HTTP layer and the console: parsing, formatting and I/O without state of their own.
Fill rows and the position part of the projection; the amounts behind exposure and
losses, which are decimal arithmetic (the rules that use them pass or fail at random).
The life cycles of policies and calendar overrides, which are single transactions of one
user; sessions and re-authentication, which have no trading state.
