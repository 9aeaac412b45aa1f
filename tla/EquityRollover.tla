--------------------------- MODULE EquityRollover ---------------------------
(* The recurring equity rollover: bringing the facts of the members that are  *)
(* ready up to the next session before it opens.  Each pass plans the work    *)
(* that is due, takes the revision's lease, reserves provider requests in the *)
(* ledger, asks the provider, and commits the ledger outcome with the facts   *)
(* (advanced_equity_rollover.py; provider_budget.py and acquisition_ledger.py *)
(* for the ledger).  Several processes may run it: the resident, its          *)
(* replacement after a crash, the manual script.                              *)
EXTENDS RuntimeLeases, Sequences, FiniteSets

CONSTANTS
  Owners,          \* processes that run the rollover
  Actions,         \* the sequence of ticker:action keys in the order of a plan
  Chunks,          \* [actions -> Nat]: how many fetches bring one up to date
  References,      \* the actions that fetch reference facts; the others fetch bars
  MaximumAttempts, \* ROLLOVER_MAXIMUM_ATTEMPTS, of one authorization
  AccountCeiling,  \* ledger rows of the account for the target session
  RetryInitial, RetryMaximum,  \* seconds of backoff
  Headroom,        \* a request's timeout and the margin of before_request
  SessionOpen,     \* the open of the target session
  MaxRevisions,    \* bound: desired-state revisions for the target session
  MaxCohorts,      \* bound: source cohorts of these revisions
  MaxEvents,       \* bound: claims of leases, splits and changes of the cohort
  MaxTime          \* bound: the clock

ASSUME RolloverAssumption ==
  /\ {MaximumAttempts, MaxRevisions, MaxCohorts, MaxEvents} \subseteq Nat \ {0}
  /\ {AccountCeiling, RetryInitial, RetryMaximum, Headroom, SessionOpen, MaxTime} \subseteq Nat
  /\ Len(Actions) \in Nat /\ DOMAIN Actions = 1..Len(Actions)
  /\ \A i \in DOMAIN Actions : Chunks[Actions[i]] \in Nat \ {0}
  /\ None \notin Owners

\* The prover has no arithmetic of powers: those of the backoff are numbers.
ASSUME BackoffAssumption == \A n \in 0..MaximumAttempts : 2 ^ n \in Nat

VARIABLES
  now,       \* the clock of the processes and of the database
  current,   \* rt.realtime_desired_current
  cohort,    \* its source cohort, and when that was bound to the earlier ones' history
  facts,     \* rt.bar_current with rt.bar_revisions, and the reference facts
  splits,    \* ref.corporate_action_revisions: the splits received
  lease,     \* rt.worker_leases, the row of each revision
  ledger,    \* rt.provider_request_ledger: the attempts of each authorization
  proc       \* the locals of each process

vars == <<now, current, cohort, facts, splits, lease, ledger, proc>>

Revisions == 1..MaxRevisions
Cohorts == 1..MaxCohorts
Keys == {Actions[i] : i \in DOMAIN Actions}
Slots(k) == IF k \in References THEN 3 ELSE 1
Off == [pc |-> "off", checked |-> 0, revision |-> 0, plan |-> {}, lease |-> NoLease,
        previous |-> NoRow, ok |-> FALSE, deferred |-> FALSE]

\* The pieces of the facts of an action: what one fetch brings.
Pieces == UNION {{k} \X (1..Chunks[k]) : k \in Keys}
Absent == [kept |-> FALSE, observed |-> 0, updated |-> 0]

Present == [kept |-> TRUE, observed |-> 0, updated |-> 0]

\* Reference facts may have been brought before; the bars of the last session not.

Init ==
  /\ now = 0
  /\ current = 1
  /\ cohort = [id |-> 1, bound |-> 0]
  /\ \E before \in SUBSET {p \in Pieces : p[1] \in References} :
       facts = [p \in Pieces |->
                  [h \in Cohorts |-> IF p \in before /\ h = 1 THEN Present ELSE Absent]]
  /\ splits = [k \in Keys |-> {}]
  /\ lease = [r \in Revisions |-> NoRow]
  /\ ledger = [r \in Revisions |-> [k \in Keys |-> <<>>]]
  /\ proc = [o \in Owners |-> Off]

-----------------------------------------------------------------------------
(* The plan and the ledger.                                                  *)

\* What is left of a plan is tried in the plan's order.
First(plan) == CHOOSE work \in plan : \A other \in plan : work.at <= other.at

Item(o) == First(proc[o].plan)
Rows(o) == ledger[proc[o].revision][Item(o).key]
LastOf(rows) == rows[Len(rows)]

\* stale_adjustment_lineage: a split of a later day, received by then, that was
\* not known yet when the bars were observed.
Stale(k, c, bar, at) ==
  \E split \in splits[k] :
    c <= split.before /\ bar.observed < split.received /\ split.received <= at

\* Deliberate error: what the clock of the pass does not see is not there, for
\* reference facts as well.
SeenByClock(k, c, h, at) ==
  LET bar == facts[<<k, c>>][h] IN
  bar.kept /\ bar.updated <= at /\ (h = cohort.id \/ cohort.bound <= at) /\ ~Stale(k, c, bar, at)

\* load_equity_history_cursor, for one cohort of the history: a read as of a clock
\* sees no bar that was updated later, nor earlier cohorts before they were bound.
\* _reference_work_cursor reads what is stored, whatever the clock.
Seen(k, c, h, at) ==
  LET bar == facts[<<k, c>>][h] IN
  /\ bar.kept
  /\ k \notin References =>
       /\ bar.updated <= at
       /\ h = cohort.id \/ cohort.bound <= at
       /\ ~Stale(k, c, bar, at)

Missing(k, c, at) == \A h \in 1..cohort.id : ~Seen(k, c, h, at)

\* _missing_sessions_cursor: the first gap, here the number of the piece.
FirstMissing(k, at) ==
  {c \in 1..Chunks[k] : Missing(k, c, at) /\ \A b \in 1..(c - 1) : ~Missing(k, b, at)}

\* plan_equity_rollover_cursor: what is missing as of a clock, and the place in the plan.
Due(at) ==
  UNION {{[at |-> i, key |-> Actions[i], chunk |-> c] : c \in FirstMissing(Actions[i], at)} :
           i \in DOMAIN Actions}

\* The work is planned again, as of the same clock.  Its sessions are part of a
\* work item, so one that has been fetched is gone if the clock sees the facts.
StillDue(o, work) == work \in Due(proc[o].checked)

\* persist_realtime_equity_bars_cursor: bars that differ from those stored take
\* their place unless they were observed earlier.  The same bars keep the clock at
\* which they were first observed (with an earlier one the call raises: a Fault),
\* and so do bars that return, which therefore do not replace what came between.
Persisted(old, observed, t) ==
  LET new == [kept |-> TRUE, observed |-> observed, updated |-> t] IN
  IF ~old.kept THEN {new}
  ELSE IF old.observed <= observed THEN {new, [old EXCEPT !.updated = t], old}
  ELSE {old}

\* _rollover_retry_at; a row that has no completion clock counts from its reservation.
RetryAt(row, attempt) ==
  LET wait == RetryInitial * 2 ^ (attempt - 1)
  IN  row.at + IF wait < RetryMaximum THEN wait ELSE RetryMaximum

\* The ledger's rows: an authorization, an attempt and a slot of its action.
Requests ==
  {x \in (Revisions \X Keys) \X ((1..MaximumAttempts) \X (1..3)) :
     x[2][1] <= Len(ledger[x[1][1]][x[1][2]]) /\ x[2][2] <= Slots(x[1][2])}

\* Deliberate error: requests that failed are given back to the account.
SpentNotFailed ==
  Cardinality({x \in Requests : ledger[x[1][1]][x[1][2]][x[2][1]].state # "FAILED"})

\* account_provider_budget_status_cursor: every row counts, whatever became of it.
Spent == Cardinality(Requests)

\* Deliberate error: the fence looks at the desired state only.
VerifyScope(o) == proc[o].revision = current

\* EquityRolloverFence.verify: the lease is valid and the plan's revision current.
Verify(o) ==
  /\ Valid(lease[proc[o].revision], proc[o].lease, now)
  /\ proc[o].revision = current

\* The requests of the last attempt were reserved under the lease that preceded
\* this one, for the same sessions, and that lease had lapsed when it was read.
Proven(o) ==
  LET last == LastOf(Rows(o)) IN
  /\ proc[o].previous.epoch # 0
  /\ proc[o].previous.until <= proc[o].checked
  /\ last.epoch = proc[o].previous.epoch
  /\ last.chunk = Item(o).chunk

\* Deliberate error: requests that a lost process left reserved are not noticed.
ReservedUnnoticed(rows) == FALSE

Reserved(rows) == rows # <<>> /\ LastOf(rows).state = "RESERVED"

\* The state of the last attempt of a process's work.
Marked(o, state, at) ==
  [ledger EXCEPT ![proc[o].revision][Item(o).key][Len(Rows(o))] =
     [@ EXCEPT !.state = state, !.at = at]]

-----------------------------------------------------------------------------
(* A pass of the rollover.                                                   *)

Goto(o, pc) == proc' = [proc EXCEPT ![o].pc = pc]
Defer(o) == proc' = [proc EXCEPT ![o].pc = "release", ![o].deferred = TRUE]

\* run_once: nothing is done in or after the session, nor while live ingress
\* has priority.
Begin(o) ==
  /\ proc[o].pc = "off" /\ now < SessionOpen
  /\ proc' = [proc EXCEPT ![o] = [Off EXCEPT !.pc = "plan", !.checked = now]]
  /\ UNCHANGED <<now, current, cohort, facts, splits, lease, ledger>>

Plan(o) ==
  /\ proc[o].pc = "plan"
  /\ proc' = [proc EXCEPT ![o] =
       IF Due(proc[o].checked) = {} THEN Off
       ELSE [@ EXCEPT !.pc = "claim", !.revision = current, !.plan = Due(proc[o].checked)]]
  /\ UNCHANGED <<now, current, cohort, facts, splits, lease, ledger>>

\* What is bounded: each of these gives rise to more requests.
Events ==
  LET claims == {x \in Revisions \X (1..MaxEvents) : x[2] <= lease[x[1]].epoch}
      received == UNION {{k} \X splits[k] : k \in Keys}
  IN  Cardinality(claims) + Cardinality(received) + cohort.id - 1

\* The first transaction of _execute.  The lease runs from the clock of the
\* pass, not of the claim; BUSY ends the pass.
Claim(o) ==
  LET r == proc[o].revision
      claimed == Claimed(lease[r], o, proc[o].checked)
  IN
  /\ proc[o].pc = "claim" /\ Events < MaxEvents
  /\ \/ /\ Claimable(lease[r], proc[o].checked)
        /\ lease' = [lease EXCEPT ![r] = claimed]
        /\ proc' = [proc EXCEPT ![o].pc = "recover", ![o].lease = claimed,
                                ![o].previous = lease[r], ![o].deferred = FALSE]
     \/ /\ ~Claimable(lease[r], proc[o].checked)
        /\ proc' = [proc EXCEPT ![o] = Off]
        /\ UNCHANGED lease
  /\ UNCHANGED <<now, current, cohort, facts, splits, ledger>>

\* The second: the work must still be due, and requests a lost process left
\* reserved become AMBIGUOUS if they are proven to be its own.
Recover(o) ==
  LET open == Reserved(Rows(o)) IN
  /\ proc[o].pc = "recover"
  /\ \/ /\ Verify(o) /\ StillDue(o, Item(o)) /\ (open => Proven(o))
        /\ ledger' = IF open THEN Marked(o, "AMBIGUOUS", LastOf(Rows(o)).at) ELSE ledger
        /\ proc' = [proc EXCEPT ![o].pc = "reserve", ![o].previous = NoRow]
     \/ /\ ~(Verify(o) /\ StillDue(o, Item(o)) /\ (open => Proven(o)))
        /\ Goto(o, "release") /\ UNCHANGED ledger
  /\ UNCHANGED <<now, current, cohort, facts, splits, lease>>

\* _reserve_rollover_requests_cursor and reserve_coordinated_provider_request_cursor:
\* all slots of the attempt, or none.
Reserve(o) ==
  LET rows == Rows(o)
      refused == Reserved(rows) \/ Len(rows) + 1 > MaximumAttempts
      waits == rows # <<>> /\ proc[o].checked < RetryAt(LastOf(rows), Len(rows))
      broke == Spent + Slots(Item(o).key) > AccountCeiling
      attempt == [state |-> "RESERVED", epoch |-> proc[o].lease.epoch,
                  chunk |-> Item(o).chunk, reserved |-> proc[o].checked, at |-> proc[o].checked]
  IN
  /\ proc[o].pc = "reserve"
  /\ \/ Verify(o) /\ ~refused /\ waits /\ Defer(o) /\ UNCHANGED ledger
     \/ /\ Verify(o) /\ ~refused /\ ~waits /\ ~broke
        /\ ledger' = [ledger EXCEPT ![proc[o].revision][Item(o).key] = Append(@, attempt)]
        /\ Goto(o, "send")
     \/ /\ ~Verify(o) \/ refused \/ (~waits /\ broke)
        /\ Goto(o, "release") /\ UNCHANGED ledger
  /\ UNCHANGED <<now, current, cohort, facts, splits, lease>>

\* before_request: its timeout and a margin are left of the lease and to the open.
\* The client may take longer: it repeats a request that fails.
RoomFor(o) == now + Headroom < proc[o].lease.until /\ now + Headroom < SessionOpen

\* A request to the provider goes out.  Without room, or when live ingress took
\* priority, the attempt fails without one; a broken fence ends it.
Send(o) ==
  /\ proc[o].pc = "send"
  /\ \/ /\ RoomFor(o) /\ Verify(o)
        /\ Goto(o, "await")
     \/ proc' = [proc EXCEPT ![o].pc = "settle", ![o].ok = FALSE] /\ (RoomFor(o) => Verify(o))
     \/ RoomFor(o) /\ ~Verify(o) /\ Goto(o, "release")
  /\ UNCHANGED <<now, current, cohort, facts, splits, lease, ledger>>

\* The provider's answer, or the request's failure.
Answer(o) ==
  /\ proc[o].pc = "await"
  /\ \E ok \in BOOLEAN : proc' = [proc EXCEPT ![o].pc = "settle", ![o].ok = ok]
  /\ UNCHANGED <<now, current, cohort, facts, splits, lease, ledger>>

\* The last transaction: reconcile_equity_preparation_provider_requests_cursor,
\* and with a good answer the facts.  A broken fence leaves the rows RESERVED.
Settle(o) ==
  LET settles == LastOf(Rows(o)).state \in {"RESERVED", "AMBIGUOUS"}
      piece == <<Item(o).key, Item(o).chunk>>
  IN
  /\ proc[o].pc = "settle"
  /\ \/ /\ Verify(o) /\ settles /\ proc[o].ok
        /\ ledger' = Marked(o, "COMPLETE", now)
        /\ \E bar \in Persisted(facts[piece][cohort.id], proc[o].checked, now) :
             facts' = [facts EXCEPT ![piece][cohort.id] = bar]
     \/ /\ Verify(o) /\ settles /\ ~proc[o].ok
        /\ ledger' = Marked(o, "FAILED", now) /\ UNCHANGED facts
     \/ ~(Verify(o) /\ settles) /\ UNCHANGED <<ledger, facts>>
  /\ Goto(o, "release")
  /\ UNCHANGED <<now, current, cohort, splits, lease>>

\* The finally clause; a work item that has to wait makes way for the next one.
Release(o) ==
  LET r == proc[o].revision
      plan == proc[o].plan \ {Item(o)}
  IN
  /\ proc[o].pc = "release"
  /\ lease' = [lease EXCEPT ![r] = ReleasedAt(@, proc[o].lease, now)]
  /\ proc' = [proc EXCEPT ![o] =
       IF proc[o].deferred /\ plan # {}
       THEN [Off EXCEPT !.pc = "claim", !.checked = proc[o].checked, !.revision = r,
                        !.plan = plan]
       ELSE Off]
  /\ UNCHANGED <<now, current, cohort, facts, splits, ledger>>

\* A statement fails: its transaction is rolled back, and the lease released.
Fault(o) ==
  /\ proc[o].pc \in {"recover", "reserve", "send", "settle"}
  /\ Goto(o, "release")
  /\ UNCHANGED <<now, current, cohort, facts, splits, lease, ledger>>

\* The process is lost; another one starts in its place.
Crash(o) ==
  /\ proc[o].pc # "off"
  /\ proc' = [proc EXCEPT ![o] = Off]
  /\ UNCHANGED <<now, current, cohort, facts, splits, lease, ledger>>

\* The desired state changes: a new revision for the same session, of the same
\* source cohort, or of one that was prepared from it and bound to its history.
Revise ==
  /\ current < MaxRevisions
  /\ current' = current + 1
  /\ \/ UNCHANGED cohort
     \/ /\ cohort.id < MaxCohorts /\ Events < MaxEvents
        /\ \E t \in cohort.bound..now : cohort' = [id |-> cohort.id + 1, bound |-> t]
  /\ UNCHANGED <<now, facts, splits, lease, ledger, proc>>

\* A split that makes bars stale becomes known; it may have been received earlier.
Split ==
  /\ Events < MaxEvents
  /\ \E k \in Keys \ References, t \in 0..now : \E before \in 1..Chunks[k] :
       splits' = [splits EXCEPT ![k] = @ \cup {[before |-> before, received |-> t]}]
  /\ UNCHANGED <<now, current, cohort, facts, lease, ledger, proc>>

\* A request may take any time.
Tick ==
  /\ now < MaxTime
  /\ now' = now + 1
  /\ UNCHANGED <<current, cohort, facts, splits, lease, ledger, proc>>

Step(o) ==
  \/ Begin(o) \/ Plan(o) \/ Claim(o) \/ Recover(o) \/ Reserve(o) \/ Send(o)
  \/ Answer(o) \/ Settle(o) \/ Release(o) \/ Fault(o) \/ Crash(o)

Next == (\E o \in Owners : Step(o)) \/ Revise \/ Split \/ Tick

Spec == Init /\ [][Next]_vars

-----------------------------------------------------------------------------
(* Properties.                                                               *)

States == {"RESERVED", "COMPLETE", "FAILED", "AMBIGUOUS"}
LeaseRows ==
  [owner : Owners \cup {None}, epoch : Nat, until : 0..(MaxTime + LeaseSeconds)]
Attempts == [state : States, epoch : Nat, chunk : Nat, reserved : 0..MaxTime, at : 0..MaxTime]
Bars == [kept : BOOLEAN, observed : 0..MaxTime, updated : 0..MaxTime]
WorkItems ==
  {work \in [at : DOMAIN Actions, key : Keys, chunk : Nat] : <<work.key, work.chunk>> \in Pieces}
Locals ==
  [pc : {"off", "plan", "claim", "recover", "reserve", "send", "await", "settle", "release"},
   checked : 0..MaxTime, revision : {0} \cup Revisions, plan : SUBSET WorkItems, lease : LeaseRows,
   previous : LeaseRows, ok : BOOLEAN, deferred : BOOLEAN]

\* The types of the variables; only the last attempt can be without an outcome.
TypeOK ==
  /\ now \in 0..MaxTime /\ current \in Revisions
  /\ cohort \in [id : Cohorts, bound : 0..now]
  /\ facts \in [Pieces -> [Cohorts -> Bars]]
  /\ splits \in [Keys -> SUBSET [before : Nat, received : 0..now]]
  /\ lease \in [Revisions -> LeaseRows]
  /\ ledger \in [Revisions -> [Keys -> Seq(Attempts)]]
  /\ proc \in [Owners -> Locals]
  /\ \A o \in Owners : proc[o].checked <= now /\ proc[o].revision <= current
  /\ \A r \in Revisions, k \in Keys : \A i \in DOMAIN ledger[r][k] :
       ledger[r][k][i].state = "RESERVED" => i = Len(ledger[r][k])

\* No sequence of crashes, retries and revisions spends more than the ceilings:
\* the attempts of an authorization, and the account's requests for the session.
BudgetHeld ==
  /\ \A r \in Revisions, k \in Keys : Len(ledger[r][k]) <= MaximumAttempts
  /\ LET total == {x \in (Revisions \X Keys) \X ((1..MaximumAttempts) \X (1..3)) :
                     /\ x[2][1] <= Len(ledger[x[1][1]][x[1][2]])
                     /\ x[2][2] <= Slots(x[1][2])}
     IN  Cardinality(total) <= AccountCeiling

\* What the ledger says of a request stays: rows are not removed, an outcome is
\* recorded once, and only while the lease under which the request was reserved
\* is valid.  Anyone else can at most call the request AMBIGUOUS.
OutcomeOfItsLease ==
  [][\A r \in Revisions, k \in Keys :
       /\ Len(ledger'[r][k]) >= Len(ledger[r][k])
       /\ \A i \in DOMAIN ledger[r][k] :
            LET before == ledger[r][k][i]
                after == ledger'[r][k][i]
            IN  after # before =>
                  /\ before.state = "RESERVED" /\ after.epoch = before.epoch
                  /\ after.state # "AMBIGUOUS" =>
                       lease[r].epoch = before.epoch /\ lease[r].until > now]_vars

\* An earlier attempt, i under revision x, has brought what attempt j asks for.
Answered(k, r, j, x, i) ==
  /\ x < r \/ (x = r /\ i < j)
  /\ ledger[x][k][i].state = "COMPLETE" /\ ledger[x][k][i].chunk = ledger[r][k][j].chunk

\* Why that is asked for again: a split was received since the answer was asked
\* for; or, under a later revision, the pass has a clock that is older than the
\* answer, or older than the binding of the cohort it plans for.
Cause(k, r, j, x, i) ==
  LET again == ledger[r][k][j]
      before == ledger[x][k][i]
  IN  \/ \E split \in splits[k] :
           before.reserved < split.received /\ split.received <= again.reserved
      \/ x < r /\ (again.reserved < before.at \/ again.reserved < cohort.bound)

\* Nothing is fetched twice without a cause, by whichever process and under
\* whichever revision: reference facts never, and bars only for a split, or by a
\* pass that plans a later revision as of a clock too old to see an answer.
FetchedOnce ==
  \A k \in Keys, r \in Revisions : \A j \in DOMAIN ledger[r][k] :
    (\E x \in Revisions : \E i \in DOMAIN ledger[x][k] : Answered(k, r, j, x, i)) =>
      /\ k \notin References
      /\ \E x \in Revisions : \E i \in DOMAIN ledger[x][k] :
           Answered(k, r, j, x, i) /\ Cause(k, r, j, x, i)
=============================================================================
