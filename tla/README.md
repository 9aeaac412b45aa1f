# StockScreener: specifications

TLA+ specifications of the realtime pipeline in `src/backend/realtime/`, the TLC
runs that check them and the TLAPS proofs about them. Paths below are relative
to `src/backend/realtime/` unless they start with `src/`.

Contents: 1 the system; 2 what is modelled where; 3 the runs and their bounds;
4 what is proved; 5 what is only checked, and what is not modelled; 6 disagreements
between documents and code; 7 the plan.

## 1. The system

A FastAPI and React portal shows stock and option research over PostgreSQL. The
web process only reads: worker processes acquire bars, turn them into immutable
revisions, compute evidence and alerts, and publish views. All coordination goes
through tables of the `rt` schema; there is no message broker. A process has
threads (one per execution lane, heartbeats, a socket reader), so two kinds of
concurrency meet: processes over the database, threads over locals.

| Component | State | Operations | Interacts with |
|---|---|---|---|
| Window orchestration (`v2_service`, `stage_orchestrator`, `orchestration_repository`, `sql_v2/004`) | `window_runs`, `stage_runs`, `cycle_receipts`, `release_current`, `stage_readiness_current`; locals of a coordinator and of its lane threads | claim, renew, start, finish, block, receipt, advance, readiness, time out, record missed, finish window | stage runners; every other process on the same tables |
| Stage graph (`stage_graph`) | none (catalogs are constants) | decide a window's stages | orchestration |
| Materialization jobs (`materialization_jobs`, `sql_v2/005`) | `materialization_jobs`, `job_barriers`, `job_barrier_members` | enqueue, open, claim, complete, fail, evaluate | finalizers and other workers |
| Five-minute finalizer (`equity_interval_finalizer`, `equity_worker_service`, `stage_runners_equity`, `incremental_finalization`) | what it read, per run | seed, prepare, persist | jobs; bar revisions |
| Process leases and runtime fencing (`advanced_realtime_fencing`, `src/backend/scripts/run_realtime_v2_container.py`) | a lease row with an epoch; the role's service row; a container's heartbeat thread and child | claim, renew, release, assert; record, mark, spawn, end the child | every Advanced service |
| Equity rollover (`advanced_equity_rollover`) | the locals of a pass; leases, ledger and stored facts | plan, claim, recover, reserve, send, settle, release | leases, budget, desired state |
| Options acquisition (`advanced_options_acquisition_runtime`, `provider_socket_lease`) | the status file with its counters and gaps; a host lock | load, connect, reserve, charge, record a gap, pause, complete | gateway; the supervisor that restarts it |
| Gateway, buffer, pump, journal (`advanced_gateway`, `buffer`, `bridge`, `advanced_equity_ingress`, `journal`) | socket, bounded buffer, a SQLite journal with raw rows and decoder progress | receive, admit, claim, append, acknowledge, read back, normalize, recover | provider; readers of the journal |
| Provider budget (`provider_budget`, `acquisition_ledger`) | `provider_request_ledger` | reserve, complete, fail, mark ambiguous | every provider call |
| Acquisition (`incremental_acquisition`, `src/backend/scripts/run_realtime_v2_incremental_equity.py`, `acquisition_*`, `equity_bar_drain`) | `provider_request_ledger`, `acquisition_batches`, `acquisition_watermarks`; the collector's locals | plan, reserve, receive, record, discover, claim, materialize, fail | budget; jobs; bar revisions |
| Bar revisions (`equity_bar_repository`) | `bar_catalog`, `bar_revisions`, `bar_current` | catalogue, supersede | acquisition; finalizer |
| Portal publication (`portal_publisher`, `portal_projection_repository`) | snapshots and the pointer to the published one | stage, publish | API |
| Archive and retention (`session_archive*`, `retention_*`, `partition_*`) | archives, partitions, authorizations | archive, verify, drop | all tables |
| Desired state (`advanced_realtime_desired_state*`, `advanced_equity_lifecycle`, `src/backend/scripts/run_realtime_v2_advanced_controller.py`) | revisions with members, readiness and a snapshot; the current pointer; the plans of sessions | apply, ensure, reconcile, promote, activate | preparation; ingress |
| Equity preparation (`advanced_equity_preparation`) | work rows per member and stage; a process's claim | claim, reserve, complete a chunk, retry, block, promote | desired state, budget |

What is hard: a lease can expire while its holder still works; threads cannot be
killed, so an abandoned one comes back with decisions made from old reads; an
operation of several transactions can stop between any two of them; a retry
recomputes from inputs that have changed; and some steps happen in an order that
only the database's locks decide. `PROJECT.json` lists each hazard at its line.

What makes each component right, in one line:

- *orchestration*: a stage of a window is executed by one attempt at a time, only
  that attempt writes its data, a stage runs only after its prerequisites completed,
  a concluded window is settled, the release pointer names finished work and never
  goes back, and every `run_window` returns;
- *jobs*: a job's output is committed at most once, by the claim granted last,
  from the input its closure names; a window's barrier says what became of its
  jobs, no more and no less;
- *leases and fencing*: a container that loses its lease is told to end its child in
  time, and what a replaced container writes does not cover its successor's report;
- *rollover*: the outcome of a request is recorded once and by the lease it was reserved
  under, the ceilings hold, and nothing is fetched twice without a cause;
- *desired state and preparation*: a session's members are made once, of prepared
  members, and never change; readiness says what the work says in every revision;
  a late member neither takes the pointer back nor makes a second plan;
- *options acquisition*: restarts and reconnects together stay within the session's
  budget; what was admitted is journaled once, in order, and normalized, or the
  status file says there is a gap; a run that is told to stop ends;
- *acquisition and bars*: no bar below the watermark is lost, whatever crashes and in
  whatever order batches are materialized; the content observed last is current; every
  batch is settled in the end;
- *budget*: the ceilings hold for any interleaving of reservations and retries;
- *publication*: a reader never sees a view that is half replaced.

## 2. What is modelled, and where

### StageGraph, WindowOrchestration

`StageGraph` translates `stage_graph.py`: `Decision` is `decide_window`,
`Satisfied` is `_satisfied`, and so on, over any catalog. `WindowOrchestration`
extends it with the tables and the processes.

| Variable | Code |
|---|---|
| `window` | `rt.window_runs`: state, `lease_owner`, `lease_epoch`, `lease_until` |
| `runs[w][s]` | `rt.stage_runs`: the sequence of attempts of a stage |
| `receipt`, `release`, `ready` | `rt.cycle_receipts`, `rt.release_current`, `rt.stage_readiness_current` |
| `written` | data a runner writes through `StageContext.transaction`: who committed last |
| `session[c]` | the locals of the `run_window` call that made claim `c` (window, epoch) |
| `lane[c]` | the locals of its lane threads |

One action is one transaction, or one step of a thread between two of them. A
coordinator's actions: `Claim` (`claim_due_window`), `Recover`
(`timeout_running_stages` for orphans), `BeginRound`, `Heartbeat`,
`CancelOverrun`, `TimeOutLanes`, `EndRound` (the loop of `run_window` with its
polling of the lane threads), `Conclude`, `RecordMissed`, `Reread`, `CloseWindow`
(`_conclude` and `finish_window`), `CoordinatorFault`. A lane thread's: `LaneIdle`,
`LaneDecide` (reads the states and the readiness, chooses a stage), `LaneBlock`,
`LaneStart`, `OpenTransaction`, `CommitTransaction`, `RunnerReturns`,
`LaneReceipt`, `LaneFinish`, `LaneAdvance`, `LaneReadiness`, `LaneFault`. Beside
them: `ResidentTick`, `MarkUnavailable`, `Crash`, `Tick`.

The fence of the repository (`Held`: RUNNING window, this owner, this epoch;
it does not ask whether the lease has expired) and that of a data transaction (`Mine`: the stage run is
RUNNING) are guards of the actions that the code protects with them, and of no
other: `LaneReadiness` has none, as `upsert_readiness` has none.

Kept: every transaction, the order of the four that end a stage, the rounds, the
threads that outlive their lane or their claim. Merged: the two reads that
precede a decision (states, readiness), and `renew_lease` with the `start_stage`
that follows it (a renewal alone only prolongs the lease). Abstracted: receipts
to what they bind, reason codes away, DEGRADED to READY, the retry delay of a
deferral to one constant, time to small numbers. The serial-lanes mode (local
mock) is not modelled. An owner is a process: `owner_id` is a fresh `uuid4`, so a
restarted process is another owner.

`ExclusiveExecution` is the abstract specification: per piece of work, attempts
follow one another, one executes at a time, and only that one writes. It has no
processes and no leases; `WindowOrchestration` implements it with `begun` the
number of attempts, `executing` the RUNNING one and `data` the last writer.

### MaterializationJobs

Jobs, the barrier of a window, and the finalizer runs that use them.

| Variable | Code |
|---|---|
| `jobs` | `rt.materialization_jobs`, keyed by what `closure_sha256` binds: window, instrument, input |
| `barrier`, `expected`, `outcome` | `rt.job_barriers`, `rt.job_barrier_members` |
| `bars` | when each revision of an instrument's minutes was observed |
| `output` | what `persist_output` stored, with the claim that did |
| `runner[r]` | the locals of a finalizer run, its batch of claims included |

`Start` and `Seed` are the first half of `finalize_five_minute_inputs` with
`enqueue_five_minute_finalizer_jobs_cursor`; `Claim` is
`claim_materialization_jobs_cursor`; `Prepare`, `Complete`, `Fail` the loop of
`run_equity_worker_once`; `Evaluate` is `evaluate_job_barrier_cursor`; `Break` and
`Stop` are an exception and the death of a run; `Observe` is the ingest side.

An input is what its digest tells apart: which revisions were observed by the
as-of instant, and the outcome (COMPLETE, LATE, GAP). The instant is the job's
`available_at`, which a retry moves; that is why `Prepare` compares with the
closure. Bars are observed at one time and committed a while later (`CommitLag`),
so two reads as of one instant may differ. The tier is Developer: no NO_TRADE or
gap-free coverage, and a non-empty set of bars stands for the five complete
minutes. The rows a claim returns are any subset within the limit: other claims'
rows are skipped (SKIP LOCKED), and the order of the queue is not kept. EXPIRED
and SUPERSEDED have no writer in the repository and nothing deletes jobs, so
neither is in the model. The lease owner of a stage run's finalizer is derived
from the run, that of the incremental finalizer from the window: two runs of the
latter share it (`Barrier.cfg`).

`LeasedWork` is the abstract specification: a job is granted any number of
times, finished at most once and only by the grant made last, and never granted
again once finished or given up.

### OptionsAcquisition

Runs of `run_acquisition`, one after the other, with everything they use down to
the journal. A run is a process with three threads: the main thread (connections
and sessions), the publisher (writes the status file at a fixed pace), the pump
(buffer to journal).

| Variable | Code |
|---|---|
| `status` | the status file: state, `connection_attempts`, decoded and reserved messages, `transport_gaps` |
| `lease` | the host lock `HostProviderSocketLease` |
| `raw`, `normalized` | `raw_messages` of the journal; `decoder_progress.committed_raw_offset` |
| `main[p]` | the locals of `run_acquisition`, the gateway's session counters, and `value`, what the publisher writes next |
| `pump[p]` | the pump thread (`last` = `last_raw_offset`, `commit` = the batch just committed) and its `RawMessageBuffer` (`queue`, `claim`) |
| `over` | the clock has passed `acquisition_stop` |
| `received`, `sessions` | history: frames the provider delivered, connections that were reserved for |

The main thread: `Load` (`_load_status`, `_resume_budget_usage`), `OpenPump`,
`Acquire` or `StartFails`, then `Connect`, `Reserve`, the session (`Receive`,
`TakeControl`, `ChargeMarket`, `Admit`, `Ready`) and one of its ends (`EndSession`,
`Drop`, `Refuse`, `Overload`, `Abort`), then the finally block: `Close`, `Release`
or `JoinFails`, and `Report` or `Exit`. `usage`, which the gateway calls for each
frame, is `Charge`: only an extended reservation writes the file. The publisher:
`Heartbeat`, `StatusFails`. The pump: `PumpRecover`, `PumpClaim`, `PumpAppend`,
`PumpNormalize`, `PumpStops`, `PumpBreaks`; the raw commit and the normalized commit
are two transactions, so two actions. The environment: `RequestStop`, `Crash`,
`SessionEnds`.

A frame is its connection, its number and the run that received it; connection and
number stand for the stream session (a `uuid5` of the attempt number) and the
message number, which are the journal's unique key. Byte budgets follow the message
budget line by line and are left out, as is the diagnostic mode. The states that
the gateway writes on its way from a lost connection (CONNECTING again) are merged
into the write that follows. The clear of a run's locals at its end only makes equal
what nobody reads again. `CanCrash`, `CanFail`, `CanReject` and `MaxControls` say what
the environment may do in a run of TLC. `Overlap` lets a run start before the last
one has ended: the database lease on the socket (`PostgresLeaseHeartbeat` in
`run_advanced_options_v3_acquisition.py`) normally prevents it, and its loss only
asks the old run to stop, so that the old run may be ending while a new one starts.

### RuntimeLeases, RuntimeFencing

`RuntimeLeases` has one operator for each statement on `rt.worker_leases`: `Claimable`
and `Claimed`, `Renewed`, `Owns` and `ReleasedAt`, `Valid` (the assertion).
`EquityRollover` and `RuntimeFencing` use the same operators.

| Variable of `RuntimeFencing` | Code |
|---|---|
| `row` | `rt.worker_leases`, the row of the role |
| `service` | `rt.advanced_realtime_service_states`, the row of the role (epoch and `observed_at`) |
| `main[c]` | the main thread of `run_fenced_child`, with the lease it was given |
| `beat[c]` | the thread of `PostgresLeaseHeartbeat`; `lost` is its event |
| `child[c]` | whether the role's process runs |

`Start` is `PostgresLeaseHeartbeat.start` up to its first record. A record is two
statements, so two actions: `RecordAsserts` (the lease) and `RecordWrites` (the row).
`Spawn`, `Notice`, `EndChild`, `Join`, `Release` are the rest of the main thread;
`Beat`, `Renew`, `BeatAsserts`, `BeatWrites` the heartbeat thread. A statement may fail
(`Faults`); a failed renewal sets `lost` and the stop event, a failed record kills the
thread and sets neither. Time is real here: `Due` names what the clock may not pass, a
heartbeat's interval and its statements, which take up to `Delay` together. Nothing limits
the child: it may take any time to end. `close` waits for the thread's statement; in
the code it gives up after half a lease, hence `JoinAssumption` (`2 * Delay <
LeaseSeconds`): a thread that is left behind is not modelled. Left out: the group lease that
the options-lifecycle container takes beside its own, the native supervisor and the socket
fence.

### EquityRollover

Passes of `AdvancedEquityRolloverResident` and of the manual script over one target
session, with the leases and the ledger they use.

| Variable | Code |
|---|---|
| `current` | `rt.realtime_desired_current`, one number per revision |
| `cohort` | the source cohort of the current revision, and when it was bound to the history of the earlier ones (`rt.cohort_history_bindings`) |
| `facts[k, c][h]` | a piece of what a `ticker:action` needs, for a cohort: whether it is kept, when it was observed, when `rt.bar_current` was updated |
| `splits[k]` | the splits received (`ref.corporate_action_revisions`): the pieces they make stale, and when |
| `lease[r]` | `rt.worker_leases`, the row of a revision |
| `ledger[r][k]` | `rt.provider_request_ledger`: the attempts of an authorization, each with state, lease epoch, sessions, and the clocks of its reservation and its outcome |
| `proc[o]` | the locals of a pass |

`Begin`, `Plan` (`plan_equity_rollover_cursor`), `Claim`, `Recover`, `Reserve`, `Send`
(`before_request`), `Answer`, `Settle` (outcome and facts, one transaction), `Release`
(the finally clause, then the next item if this one was deferred). The clock of a pass
is read once, at `Begin`: the lease runs from it, while the fence and the headroom look
at a later one. Planning, and planning again under the lease, read bars as of it too: `Seen`
is `load_equity_history_cursor`, which sees no bar updated later, no history bound later and
no bar that a split received by then has made stale; reference facts are read as they are
stored. A fetch goes to the cohort of the revision, is observed at the clock of its pass, and
`Persisted` says what it leaves in place. A request takes any time: `before_request` asks
for its timeout and five seconds, but the client repeats a GET that fails
(section 5). An attempt has `Slots` rows that are reserved together; the account's
ceiling counts every row, whatever became of it. `Fault` is a statement that fails,
`Crash` the death of a process, `Revise` a new desired state, with the same cohort or
another one, `Split` a split that becomes known, perhaps later than its clock says.

Abstracted: the sessions of an interval are numbered pieces and the plan asks for the first
that is missing; a good answer brings what it was asked for (a reference answer that leaves
coverage or identity due is a failure here); a reference fact, once brought, lasts for the target
session; bars have one source. One ledger row may stand for up to three HTTP requests, since
the client's own repetitions are in no ledger.

### DesiredState, EquityPreparation

`DesiredState` has the operator's and the controller's side as functions from one
desired state to the next, so that a transaction of several calls is their composition:
`Recorded`, `Reconciled`, `Promoted`, `Ensured` are the functions of those names.

| Variable | Code |
|---|---|
| `desired.revisions[r]` | session, source and members (`rt.realtime_desired_revisions`, `_members`), `ready` (readiness), `snapshot`, and per member the `work` rows of the stages, requests `reserved` and `used` |
| `desired.current` | `rt.realtime_desired_current` |
| `plans` | `rt.advanced_ingress_plans`: session and revision |
| `proc[o]` | a preparation process's claim, and `checked`, the clock its pass read |

`Apply` is `apply_desired_state`; `Ensure` the first transaction of the controller's
loop; `Activate` `_prepare_continuous_session_cursor`, the snapshot with what is READY
and the plan. `EquityPreparation` adds the processes: `Claim`, `Reserve`, `Complete`
(with `Promoted` when the last stage ends), `Retry`, `Block`, `Stop`. Completing a chunk
asks for the claim's owner, epoch and watermark, not for the lease's clock, nor whether
the revision is still current; and promotion goes by the clock of the claim's pass, which
may be older than an activation. Both are in the model.

A day is three ticks: members are prepared in the first, the session is activated at the
second and open at the third. Whether a capability profile is fresh, and whether the
account's ceiling is reached, is chosen freely at each step. `recorded` stands for
`first_recorded_at`: the clock the recording process had read, which a promotion read when
it claimed its work and the operator and the controller read now (`Reading`; readings are
numbered along the claims, since only their order matters). `Later` compares session,
`recorded` and the order of insertion. Owner and epoch of a claim are one,
since a process has one claim at a time. Only EQUITY members, with their identities
resolved; the operator's readiness command, the bootstrap from stored history and the
length of a backoff are left out.

### BarAcquisition

The Developer tier's bars of one instrument and interval, from the provider to
`bar_current`: the incremental collector, and the drains that materialize its batches (its
own and those of the stages, `drain_equity_bar_jobs`).

| Variable | Code |
|---|---|
| `cutoff` | the newest bar that has closed and may be asked for (`latest_qualified_cutoff`) |
| `provider`, `corrections` | what the provider says of each bar, and how often it changed that |
| `clock` | the number of responses: the time at which one was observed |
| `requests[r]` | `rt.provider_request_ledger` with the stored response, keyed by the range that `request_sha256` binds |
| `watermark` | `rt.acquisition_watermarks` |
| `collector` | where the collector's process is in its cycle, and its request |
| `jobs[r]` | the row of `rt.acquisition_batches` (`recorded`) and its job in `rt.materialization_jobs`; both are named after the request |
| `claims[d]` | the job a drain has in hand, its attempt, and how it raised |
| `catalog[b][c]` | `rt.bar_catalog`: when this content of a bar was first observed |
| `current[b]` | `rt.bar_current` |

A cycle: `Reserve` (plan and admission, a transaction before the request is sent),
`Respond` (response, outcome and ledger) or `Refuse` (any failure; the process ends),
`Record` (`acquire_equity_bars`: batch, facts and watermark in one transaction), then the
collector's own drain, scoped to its batch: `Claim`, `FindNone`, `DiscoverOwn`. A stage's
drain is `Claim` or `Discover` of any batch. A job: `Complete`
(`process_developer_acquisition_job` with `persist_realtime_equity_bars_cursor`, one
transaction), or `Raise` and then `RecordFailure`, two transactions. `Abandon` is a fenced
or cancelled stage, `Restart` the loss of the collector, `Lapse` and `Due` the clock that
passes a lease or a retry's delay.

A content stands for what `bar_revision_id` binds, and a bar's number for its interval. The
queue's order is by `available_at`; that of a batch is its response's time, that of a retry
the time it became due, so `at` holds twice the clock, or twice the clock and one. A stage's
claim with its sweep of exhausted leases and the discovery that follows an empty claim are
one step for a stage (each reads the tables anew), two for the collector, whose end depends
on what it found. A job leased for the last time fails at a later claim. Left out: partial
coverage and gaps (a response without all its bars is refused), other sources and tiers and
their precedence, the batches of a cycle for other instruments, the derivation that follows.

## 3. The runs

Every bound is a constant in the `.cfg`. State counts are distinct states.

| Run | Instance | States | Question |
|---|---|---|---|
| `fence` | 1 window, 2 processes, 1 stage that writes data, 2 claims, 2 attempts, clock to 2; crashes and failing calls | 477k | Do leases, fences and recovery keep the attempts of a stage exclusive, with only the current one writing? |
| `lanes` | 1 process, 2 claims of it, 2 stages in 2 lanes, calls that fail | 704k | Do stages act on final results only, and is a closed window settled although threads live on? |
| `release` | 2 windows, 2 processes, 2 receipt contents, clock to 1 | 1.1M | Is the release pointer always backed and monotone? |
| `progress` | 1 process, a resident prerequisite, deferrals, fairness | 112k | Does every `run_window` return, though a runner may hang? |
| `barrier` | 1 window, 2 instruments, 2 finalizer runs with one owner, 2 attempts, a late revision | 196k | Is each job finished once by its last claim and from what its closure names, are attempts never exceeded, and is the barrier exact? |
| `acquisition` | 2 runs, 6 frames, 3 connections, buffer and batch of 2; crash, refusal, failing writes and pump | 2.3M | Does the accounting survive any crash, the ceiling any restart, and does the journal keep a prefix of each connection, all of it at a clean end? |
| `steady` | 2 runs, 7 frames, 3 connections; no crash; fairness | 239k | Are stops and lost connections recorded as gaps, is COMPLETE complete, and does a run that is told to stop end? |
| `fencing` | 2 containers, lease of 5, heartbeat every 1 and up to 1 long, 3 claims, clock to 8; every statement may fail | 1.6M | Is a container told that its lease is lost, does its child work under a valid lease for as long as two heartbeats and an interval leave of it, and does the service row never go back to an earlier owner? |
| `rollover` | 2 processes, 2 actions (3 slots and 1), 2 attempts, 2 revisions, 2 cohorts, ceiling 6, 3 events (claims, splits, cohort changes), clock to 2; reference facts stored before or not; crashes, failing statements, requests that fail or outlive their lease | 2.8M | Are ceilings kept, is each outcome its own lease's, is nothing fetched twice but for a split, a late binding or an old clock? |
| `preparation` | 2 processes, an established member and two new ones, 2 stages, 3 revisions, 4 claims, clock to 3 | 653k | Do readiness and work agree, is a served session made once and kept, does a late member neither take the pointer back nor make a second plan? |
| `bars` | 3 bars, overlap 1, 2 contents, 1 correction, a collector and 1 worker, 2 attempts; crashes, lapsed leases; fairness | 1.1M | Is no bar below the watermark lost, is the newest content current, is a batch blocked only by a later one, and is each batch settled? |
| `second_plan` | 1 process, 1 claim | found | Section 6. |

Why the bounds are enough for the cases that matter. A lease lasts one unit
(`LeaseSeconds = 1`), so it expires within the clock's two or three: every run has
renewed, expired and retaken leases. `MaxEpoch = 2` gives one takeover, with the
thread of the first claim still alive under the second; the fences distinguish
this claim from another, not which. `MaxAttempts = 2` (jobs: `MaximumAttempts`)
has a retry and an exhausted retry. Two lanes with one dependency are the smallest
in which a decision can be stale. Two windows are the smallest in which the
pointer could go back. Two finalizer runs in one window already finish each other's
jobs; a second window would add only another deadline. A ceiling of
six with one control frame a connection and a quantum of two has reservations
extended within a connection, cut off at the ceiling, and resumed by a later run. A
buffer of two is full with one frame claimed and one queued, and a batch of two is
split or exceeded by a backlog.

The lease of `fencing` is an interval, two heartbeats and two ticks, so that a child has
one tick to end after its container was told; since nothing limits how long it does take, the
lease also runs out and is claimed by the other container while the child works. The clock has
time for a lease to be lost, claimed and written under by a second container while the first
is still in its last record. In `rollover` a lease of two and a headroom of one leave one tick
in which a request may start, and nothing limits when it ends; the session opens at three,
before a lease that begins at two would end, so that either limit is the one that bites; the
ceiling of six is below what three claims can cost. Three events are three claims of a lease
(an exhausted action, an owner that cannot be proven, an action that is passed over for the
next), or two claims with a split or a second cohort between them, which is what a repeated
fetch needs; each of its three causes was seen to occur, as was a reference fetch that the
account refuses. 
In `preparation` a lease of one lapses between two ticks, three revisions are an
operator's change and a promotion after the first, or two promotions, and four claims
finish two stages of a member with two of them lost; a budget of one request with one
needed makes a retry exhaust it.

Three bars and an overlap of one are the smallest session in which two requests share a bar
and a third does not start at the session's begin; one correction is what tells contents
apart, and with two attempts a batch is retried, passed by a later one, and exhausted. A
worker beside the collector already competes with it for its batch. The safety properties
also held with two workers (9.2M states) and with a second correction (2.9M).

The instances are symmetric in processes, contents,
instruments and runs where the `.cfg` says so; the runs with liveness use no
symmetry.

`CHECK_DEADLOCK FALSE` in every run but the two of the preparation, where an operator can
always act: a model stops when the clock has reached its
bound and the work is done, and the real loop goes on polling; the acquisition's
stops when every run has ended.

Fairness in `progress`: the clock advances; a coordinator's next step and a
lane thread's own steps are weakly fair, as the operating system schedules
threads and a database call returns or raises. A stage runner's steps (`Run`) are
not fair: it may be stuck in a provider call for ever. Crashes, claims and
`Heartbeat` are not fair either. With that, `SessionsEnd` says the budget of a lane
is what ends a `run_window`.

Fairness in `steady`: what the main thread and the pump do by themselves, and the
end of the wait for room in the buffer (`ACQUISITION_HANDOFF_WAIT_SECONDS`). The
provider's steps are not fair, nor is the publisher, nor a crash.

Fairness in `bars`: a worker's next step, because every release window runs the stage that
drains, and the clock, which passes leases and delays. Nothing is asked of the collector: it
may die in any cycle and never come back.

## 4. What is proved

Each theorem holds for every value of the constants that satisfies the module's named
assumptions; these give the constants their types, say what must be distinct (`None` is no
process, stage or content) and are evaluated by TLC in every run. `BackoffAssumption` states a
fact of arithmetic that the prover does not know (a power of two is a number). Two
assumptions say more: `DesiredAssumption`, by which an operator may ask for every member and always
asks for the established ones, and `JoinAssumption` (section 2), which no proof uses. A theorem that needs a restriction on
what the environment does has it as a premise.

| Module | Theorems (property) | Assumptions |
|---|---|---|
| `WindowOrchestrationProofs` | `TypeCorrect`, `RunningAttemptUnique` (`OneRunningAttempt`), `Refinement` (`ImplementsExclusiveExecution`) | `CatalogAssumption`, `OrchestrationAssumption` |
| `WindowOrchestrationDecisions` | `StartsAfterPrerequisites`, `BlocksForCause`, `ClosesSettledWindows`, `ReleasesBackedWork`, `ReleaseNeverGoesBack` | the same |
| `MaterializationJobsProofs` | `TypeCorrect`, `MembersAgree`, `VerdictExact`, `OutputOfItsClosure`, `Implements` (`ImplementsLeasedWork`) | `JobAssumption` |
| `OptionsAcquisitionProofs` | `TypeCorrect`, `CrashNeverUndercounts`, `CeilingNeverPassed`, `OneFrameOneIdentity`, `JournalAcceptsPump`, `PrefixesKept`, `DrainedAtCleanEnd`; `CompleteSessionsNormalized`, `HolesAreRecorded` | `AcquisitionAssumption`; `Overlap = FALSE`; the last two also `Calm`, `Served` |
| `RuntimeFencingProofs` | `TypeCorrect`, `ContainersToldInTime` (`ToldInTime`), with `ChildrenFenced` (`ChildUnderLease`) as a consequence, `ServiceNeverGoesBack` | `FencingAssumption`, `LeaseAssumption` |
| `EquityRolloverProofs` | `TypeCorrect`, `CeilingsHeld`, `RepeatsHaveACause` (`FetchedOnce`), `OutcomesOfTheirLease` | `RolloverAssumption`, `BackoffAssumption`, `LeaseAssumption` |
| `EquityPreparationProofs` | `TypeCorrect`, `ReadinessFollowsWork`, `PointerForward`, `MembershipKept`, `PlansOfAChange` (`OnePlanPerChange`) | `DesiredAssumption`, `PreparationAssumption` |
| `BarAcquisitionProofs` | `TypeCorrect`, `WatermarkVouches`, `NewestIsCurrent`, `BlockedIsOvertaken` | `BarAssumption` |

So every safety property that a passing run checks, invariant, action property or
refinement, is also proved.

**Orchestration.** `TypeOK` is not inductive: a row appended by `LaneFinish` has the outcome
its thread holds, and that this is the state of a row depends on the thread's program
counter. `LocalInv` adds what each local means at each program counter (`JobOK`,
`SessionOK`). On it stand layers, each inductive given the ones before:

1. `OrderInv`: a claim whose epoch is above its window's was never made, so that a
   claim is never entered by two sessions;
2. `RowsInv`: in the sequence of attempts only the last row may be RUNNING. It needs
   `ClearToInsert`: a thread of the claim that holds the window, at `start` or `block` with
   an attempt number that is still free, finds no RUNNING row of its stage. This is what
   makes the stale read before `start_stage` harmless: rows are only appended, so a free
   number means that nothing was inserted since the read, and the claim being held means
   that no other claim recovered in between. A new claim inserts only after `Recover`
   failed the RUNNING rows of the old one.
3. `DecisionInv`: what a thread decided from its read still holds when it inserts
   (`JobsDecided`), and what `_conclude` read when the window is finished
   (`SessionsDecided`). The lemmas sort the steps by what they may do to the rows of a
   stage (`RowStep`: nothing, append, or give the RUNNING row its outcome), so that a
   COMPLETE record is last for good; from that follow `PrerequisitesComplete`,
   `BlockedForCause` and `ClosedWindowSettled`.
4. `ReleaseInv`: a thread that reaches `advance_release` has stored its receipt and
   completed its attempt (`JobBacked`), and neither is ever taken back.

`Refinement` maps each step to a step or a stutter of `ExclusiveExecution`; the one hard case
is a commit, where the fence (`Mine`) with `RowsInv` says that the writer is the one that
executes.

**Jobs.** `IInv` says that every run past its seed has a barrier, whose members bind the only
jobs of their window; that outputs are exactly those of the COMPLETE jobs, each with the epoch
and the input of its own; and that members and verdict agree with the jobs. Each transaction
is sorted by what it may do to a row (`RowStep`: keep it, grant it under the next epoch, or
end it under the same one), which keeps what has settled and so the verdicts. The transaction
that commits an output compares owner and epoch with the row's; as every grant has an
epoch of its own, this also tells two claims under one lease owner apart, and each
step is one of `LeasedWork` or a stutter (`Implements`).

**Options acquisition.** The invariant has four layers. *Phases*: types, and which program
counters of the three threads, states of the file and of the lock go together. *Accounts*:
the reservation in the file covers what each local has counted, also between the charge and
the write; what the pending write of a crash leaves is covered as well. *Names*: an attempt
number is durable before the first frame under it, so no later connection repeats it. *Lines*:
the frames of a connection are, in order, those in the journal, in the pump's hands, in the
buffer, and in the gateway's hand; where one part loses its tail to a crash, no later frame of
the connection can follow. The steps of one run are described by what they may do to the
shared state (`Effect`), and a run that does not move keeps its part by `FrameMove`, which is
where `Overlap = FALSE` is used: without it three of the properties are false (section 6).

The last two theorems have stronger premises, and are false without them, as the same section
says of crashes. `Calm` (no crash, no failing write or pump): whenever the pump is idle
the journal is normalized, so that a batch just appended is all there is to read and
fits one read (`Drains`). `Served` (nor a refusal by the provider): each connection with frames
is named in the gaps, or is the one that is open, or none can follow it because the
session's budget or the run is spent, or the run is on its way to record it (`Holes`).

**Fencing.** The invariant bounds what is left of a container's lease by where its heartbeat
is: after a claim or a renewal, while it waits, while a renewal is in flight (`LeaseTimed`).
A heartbeat that fails ends the thread and sets the event at once, so the container of a
working child is told within an interval and two heartbeats of its last renewal, whatever
`Delay` is and however long the child goes on. The container's lease is what the row says
until the next claim, which comes only when it has run out (`LeaseKnown`); from both
follows `ChildrenFenced`, which says nothing where an interval and two heartbeats are as long
as the lease. `ServiceNeverGoesBack` needs no timing: a record that was asserted
under a lease since lost has an observation time before anything its successor observed
(`RecordsOrdered`), and the upsert compares those times.

**Rollover.** One inductive invariant. A pass's locals say which attempt it has reserved and
under which epoch, and epochs of a lease only grow; so of two passes at most one holds
the lease that fences the reservation, and only an action's last attempt lacks an outcome.
`BudgetHeld` is a sum over the whole ledger, whose lemma says what one more attempt adds.
`FetchedOnce` is about clocks. What was missing when a pass planned again is missing as of
its clock when it reserves (`StaysMissing`). What the ledger says was brought is kept, in the
current cohort if it was brought under the current revision (`Stored`), and the clocks of a
bar are those of attempts in the ledger (`Witnessed`). So if a pass finds a piece missing that
an attempt has brought, its clock is before that attempt's outcome, or the binding of the
cohort, or a split was received between; and under one revision attempts are in the order of
their clocks (`Ordered`: `_rollover_retry_at`), which leaves the split.

**Preparation.** A transaction of several calls is a composition of operators on the
desired state, so the proof is one of operators: each keeps `WellFormed` and makes the state
evolve (`Evolves`: revisions are appended, identities and snapshots kept, the pointer goes
forward), and both compose (`Transacts`). `WellFormed` says of each revision that its fields
fit its members and its source's snapshot (`Fits`), that its source is an earlier revision
with a snapshot (`Rooted`), that stages are prepared in order (`InOrder`: the end of the last
stage is the end of the preparation), and that readiness and work agree. The last leaves
members out that are in `Dropped`, as the properties do.

`PlansOfAChange` needs to know in which order the revisions became current, and what a claim
that ends late may still do. Its invariant is `IInv /\ Discipline`, where `Discipline` says of
a state without dropped members:

1. `Ordered`: the pointer is at the last of all revisions by `Later`, a claim is on a
   revision that was the last when it was made (`Leaders`), and what claims, promotions and
   carried revisions draw on is in the order of the clocks they read (`DrawnInOrder`,
   `DrawnAfter`). Two promotions to one session therefore have sources that were current
   one after the other, and where these go back to one record they are the same revision,
   and so is what they promote to.
2. `Apart`: a revision that was carried from one of its own session is never served, and the
   pointer has gone on to a later session. `Supplied` says which of the revisions that are
   carried while the pointer is further on can be served at all.
3. `Timely`, `ReadInOrder` and `Awaited`: a session is served only from its activation on, and
   a claim made before the activation that finds its session served finds it planned, or the
   pointer at a later session. This is what a promotion to the session itself, with a
   clock from before the activation, would otherwise break. `Awaited` rests on `RunningWarms`: a
   member with running work is still WARMING, so that the snapshot a promotion makes does not
   leave its claim behind (`Excused`).
4. For every assignment `f` of revisions to records that follows the sources (`Lineage`), and
   `Origin` is one (`OriginTraces`), `Distinct`: of the revisions of a session that go back to
   one record only the first was ever the last of all; and `PlansLast`: a plan is of the last
   one that is served. With `PlansServed` this leaves one plan (`DisciplinedPlans`).

Each transaction either claims nothing and keeps the clocks (`Proceeds`: planning, activation,
an operator's change), or claims, rests, completes or promotes; the `Sound...` lemmas have
one of these each, and `DisciplineKept` puts them together.

`RunningWarms` is false for a member in `Dropped`: it may be READY, by a readiness that a late
promotion copied, with work of it still running, and the snapshot that its own promotion
makes then includes it. Hence the premise of `OnePlanPerChange`; without it the property
is false (section 5).

**Acquisition.** All four theorems are from one inductive invariant:

- `NothingLost` follows from `WatermarkCovered` (each bar below the watermark is in the
  range of a recorded batch) and `CompleteIsCurrent` (a batch that is COMPLETE has a current
  row for each of its bars). The first is kept by `Record` only because of `CollectorKnows`:
  the range in the collector's hands starts no later than the bar after the watermark, and
  ends at the cutoff, so that the watermark never jumps over a bar.
- `CurrentIsNewest` is kept by `Complete` because a pointer moves only to a content whose
  catalogued time is not earlier, and the catalogue never changes a time it has.
- `OnlyOvertakenBlocked` needs `CatalogFounded` (each time in the catalogue is that of a
  materialized batch with that content): a conflict is a catalogued time later than the
  batch's own, so there is a later batch that was materialized. `ClaimsSound` carries this
  from `Raise` to `RecordFailure`: a claim that raised a ValueError and still holds its
  lease has met a conflict, since a lost lease is never regained. `ResponsesTimed` gives
  each recorded batch a time of its own above zero, which tells "never catalogued" apart.

## 5. What is only checked, and what is not modelled

Only model-checked are the liveness properties `SessionsEnd`, `StopEnds` and `BatchesSettle`
(TLAPS does not prove liveness under fairness). The type invariants of `WindowOrchestration`
and `BarAcquisition` are the other way round: proved for every instance, and in no run.

What the proofs taught about the model and its properties:

- A session may well have two plans: a claim on an older revision that ends late makes a
  carried revision of its own beside that of the members an operator asked for since. So
  the property is `OnePlanPerChange`, one plan of a session for each thing an operator asked for.
- Readiness and work may part for a member in `Dropped`: it was in the snapshot of one
  session and, because a late promotion copied an older readiness over a newer, not in that of
  the next one carried from it. It then has readiness but no work in one revision, and
  both in the other. That takes two processes, one of which goes on after its lease has
  expired; the default of `maximum_concurrency` is 1.
- With members dropped a session may get a second plan although nobody changed anything,
  and `OnePlanPerChange` says nothing of such states. The attempt to prove it without that
  premise led to a behaviour of ten ticks and seven revisions, far beyond the bounds of
  `preparation`, which TLC confirmed step by step: two members are prepared in one session's revision and
  put back to WARMING by a late promotion, so that the next session is served without them;
  in the revision of the session after that both are claimed, one before its activation and one
  after, and a promotion copies READY over the second. When the second claim ends, the
  snapshot it makes has its member, so the promotion to the next session is left out; when
  the first ends, its member missed a snapshot of a session that has no plan yet, and it is
  promoted to a second revision of the same session. A further late member takes the pointer
  to the next session, the controller plans the first of the two revisions, which alone is
  served, and when the last claim on the other one ends, that one is served and planned too.
  It takes some eight claims that end late, under several processes or leases that lapsed.
- The set of the items that a rollover pass has planned is all that its later steps ask of
  the plan, and the pump never meets a frame it has already journaled, so that its skip of
  such frames is not in the model.

Assumed rather than modelled: PostgreSQL's transactions are atomic and their
outcomes serializable where the code locks the rows it decides on; all processes
read one clock in `WindowOrchestration` (the code passes its own `clock()` to some
statements; the fences use the database's). Errors of a call leave no effect,
except `record_receipt`, whose insert may have committed.

What the code promises of a fenced child is `ToldInTime`, and no more. It has an
interval of 10 seconds and a poll of half a second in a lease of 30; a statement may take up
to its timeout of 30 seconds, and after the stop event the container waits for its child
however long that takes (`run_realtime_v2_container.py:399`; the ten seconds and the kill of
the finally clause are reached only when the main thread raised). So a child may outlive the
lease, beside the next container's: `ChildUnderLease` says for how long it cannot, and says
nothing when heartbeats are slow. Both properties except a heartbeat thread
that died in `_record`, which `_run` calls outside its try block: nobody notices, the lease
lapses, and the child goes on.

That a rollover's request ends within its lease and before the open is not a property either.
`before_request` asks for the timeout and five seconds (`advanced_equity_rollover.py:562`), but
`get_session` repeats a GET twice, with a pause, on read failures and 5xx
(`src/backend/http_client.py:21-50`), and the timeout bounds each connect and read of each try
(`src/backend/equity/polygon.py:64`, `237-242`): a request may take a minute and a half, outlive
the lease and run beside that of the next owner, or into the session. Its answer then records
nothing (`OutcomeOfItsLease`); the requests themselves count as one ledger row.

A repeated fetch is possible in the code, and `FetchedOnce` says when. A pass reads its clock;
another one settles an action later; the desired state is revised; the first plans the new
revision as of its old clock, does not see the facts, takes that revision's lease, which is
free, and asks for them again. A pass whose clock is before the binding of a new
cohort's history repeats even more. A split makes earlier bars stale, as it should; but where
the bars that are fetched again are the same, the catalogue keeps the time at which they were first
observed, so that they stay stale and the action is fetched until its attempts are spent and
it is BLOCKED, with the actions behind it. `FetchedOnce` counts the fetches of one target
session: in the model the bars a session needs are never stored before it, so it does not speak
of a split that makes older bars stale and is answered with the same ones.

Narrower than the code: `BatchesSettle` assumes that stages of the batch's cohort go on
running, and leaves out that discovery looks back seven days only
(`acquisition_consumer.py:126`); `MaterializationJobs` leaves out the pruning of jobs after seven
days and the contract error by which a completion with a valid lease and a matching input
BLOCKs its job.

Not modelled, and why: numerical work (detectors, scanners, research), request
handlers, the frontend, scripts an operator runs, and reference refreshes (one
idempotent upsert each) hold no protocol. Provider wire formats are outside the
source. The remaining stateful components are in the plan. The notes of
`PROJECT.json` name what is left out inside a modelled component.

Behaviour met while modelling that no document contradicts: a crash between
`finish_stage` and `advance_release` leaves the pointer un-advanced for that window;
`upsert_readiness` is unfenced, so a late thread may overwrite a newer readiness;
a runner's own `retry_not_before` past the deadline violates a CHECK; the result of
`renew_lease` is ignored by the lane; a job whose retry moves its `available_at` past
the deadline ends BLOCKED because its input then reads LATE; a slow first job of a
batch uses up the attempts of the jobs behind it; a later attempt of a stage whose
inputs changed cannot re-open the barrier of its window; the pump thread, no daemon,
is started before the lock is taken, so a run that finds the lock taken stays as a
process that does nothing (`StartFails`); `pump.join` raises in the finally block
before the publisher is stopped and the lock released, which leaves the status at
DRAINING or PAUSED without a gap (`JoinFails`); a pump that dies is noticed when the
buffer is full; a refusal by the provider records no gap; of two open gaps a
reconnection closes the last. The rollover's `run_once` ends at the first action that is not
in backoff, so an action whose attempts are exhausted keeps those behind it from being
tried; a pass that defers an action releases its lease with a later clock than the one it
claims the next with, and ends BUSY. A join of the heartbeat thread that gives up may let
a renewal set `lease_until` anew after the release.

## 6. Disagreements between documents and code

One is kept as a run that TLC finds violated:

- `second_plan`: `docs/REALTIME_V3_PIPELINE.md` wants the first selected plan and budgets
  of a session pinned, so that a same-day configuration change creates no second usage
  ledger. `load_pinned_advanced_ingress_plan_cursor` looks for the plan of the snapshot's
  cohort and manifest, not of the session: a change of the members between a session's
  activation and its open gets a snapshot and a plan of its own, with a usage ledger of its
  own. A late member makes none (`OnePlanPerChange`, and section 5 on dropped members).

The others were found with the same models by stating the document's sentence as a
property, and are described here only.

*Orchestration.* The module comment of `stage_orchestrator.py` says every write an overrun
lane attempts is rejected. A thread that had chosen its next stage when its lane was
abandoned still inserts a RUNNING stage run, because `start_stage` only asks whether the
claim is held; `ClosedWindowSettled` shows that the window is concluded correctly all the
same. The same comment says a slow Options stage never delays an equity or portal stage: a
round waits for all lanes, and an alert or portal lane that returned before its
prerequisite completed gets no new thread until the Options lane ends.

*Options acquisition.* A run takes the gaps over from the status file and connects. Nothing
notices that the last run never ended, so after its death the journal goes from one
connection to the next and no gap says so (`HolesAreGaps` with `CanCrash = TRUE`); the
design asks of a crash for "explicit gaps". A crash between the raw commit and the
normalized commit leaves a backlog; the pump reads it together with the next batch, within
the limit of one batch, and when both exceed it the last row read is not the one just
committed: the pump fails with "Advanced journal commit is not readable", of a commit that
is, and the batch is then raw too. With crashes `CompleteIsNormalized` fails as well: the
pump normalizes only after an append, so a restart that receives nothing leaves the backlog
raw and is reported COMPLETE. With `Overlap = TRUE`, `AccountingCovers` and
`FramesIdentified` fail because the counters are read before the host lock is taken, and
`PumpAccepted` because the decoder's progress is; `DrainedOnEnd` holds all the same.

*Rollover.* Requests that a lost process left RESERVED are proven its own by the lease that
directly preceded. A claim in between, for another action or by a pass that ended before
its recovery, makes the owner unprovable, and the action stays BLOCKED for the revision.

*Preparation.* From activation on, and without a fresh capability profile, promotion returns
before it marks the member READY: its stages are COMPLETE, no work is left to claim, and it
stays WARMING in that revision. A promotion from an older revision that a process still
works on copies its members over a newer one: what that one had prepared is done again, and
since the promoted revision is recorded later it becomes the current one also where an
operator asked for other members in the meantime.

*Acquisition.* Batches of overlapping ranges may be materialized in another order than they
were observed: a retry waits for its delay, a lease lapses, or a batch that the collector
left is found later. The earlier observation of an unchanged bar then meets a catalogued
time that is later than its own, `persist_realtime_equity_bars_cursor` calls that an
identity conflict, and the ValueError blocks the batch for good, with its other bars. The
comment of `equity_bar_drain.py` promises that a retryable failure leaves the job PENDING for
a later cycle, which it does, and the delay is what lets a later batch pass.
`OnlyOvertakenBlocked` says that this is the only way a batch is blocked, `NothingLost` that
its bars are at least recorded; that they reach `bar_current` is not so. Where the provider
returns to what it said before a correction, the content keeps the time at which it was
first observed, and the pointer stays at the correction. A request that was left RESERVED or
FAILED for a session's last cutoff can never be asked again, since nothing changes its
range any more. A collector's drain can end with nothing claimed and nothing found although
its batch waits: a stage made the job between its claim and its discovery; a stage then
drains it (`BatchesSettle`).

## 7. The plan

Done: `StageGraph`, `WindowOrchestration` with `ExclusiveExecution`, `MaterializationJobs`
with `LeasedWork`, `OptionsAcquisition`, `RuntimeLeases` with `RuntimeFencing`,
`EquityRollover` (with the budget and ledger it uses), `DesiredState` with
`EquityPreparation`, `BarAcquisition`. To model next, in this order:

1. The rest of the acquisition: the option batches of `acquisition_handoff`, the repair
   attempts of the Advanced tier, gaps and partial coverage.
2. The precedence between sources and tiers in `bar_current`, and `BarAcquisition` composed
   with `MaterializationJobs` in place of its abstract `Observe`.
3. The equity ingress on the pump of `OptionsAcquisition`, and the generations of
   `advanced_ingress_repository` under the plans of `DesiredState`.
4. `PortalPublication`, then the archive.

Proofs to add: with each module above its type correctness and its safety properties.
