------------------------- MODULE MaterializationJobs -------------------------
(* Materialization jobs, the barrier over the jobs of a window, and the       *)
(* five-minute finalizer that uses them.  A finalizer run seeds one job per   *)
(* instrument and opens the window's barrier, claims jobs in batches under    *)
(* leases, completes or fails each in a transaction of its own, and evaluates *)
(* the barrier (materialization_jobs.py, equity_worker_service.py,            *)
(* equity_interval_finalizer.py, stage_runners_equity.py).                    *)
EXTENDS Integers, FiniteSets

CONSTANTS
  Windows,         \* five-minute windows of a cohort, one barrier each
  Deadline,        \* [Windows -> Nat]
  Members,         \* the cohort's equity instruments
  Runners,         \* finalizer runs (attempts of the stage, or incremental runs)
  WindowOf,        \* [Runners -> Windows]
  OwnerOf,         \* [Runners -> lease owner]: derived from a stage run, or from
                   \* the window, so that two runs may share one
  LeaseSeconds, RetryDelay, MaximumAttempts, ClaimLimit,
  None,            \* no owner, no outcome, no input
  CommitLag,       \* bound: how late a bar becomes visible after it was observed
  MaxRevisions,    \* bound: bar revisions of an instrument in a window
  MaxTime          \* bound: the clock

ASSUME JobAssumption ==
  /\ Deadline \in [Windows -> Nat] /\ IsFiniteSet(Members)
  /\ WindowOf \in [Runners -> Windows]
  /\ OwnerOf \in [Runners -> {OwnerOf[r] : r \in Runners}]
  /\ {LeaseSeconds, MaximumAttempts, ClaimLimit} \subseteq Nat \ {0}
  /\ {RetryDelay, CommitLag, MaxRevisions, MaxTime} \subseteq Nat
  /\ None \notin {OwnerOf[r] : r \in Runners}
  /\ None \notin {"COMPLETE", "FAILED", "BLOCKED", "MISSING"}

VARIABLES
  now,       \* the database clock
  bars,      \* rt.bar_revisions: when each instrument's revisions were observed
  jobs,      \* rt.materialization_jobs, by what closure_sha256 binds
  barrier,   \* rt.job_barriers, by window
  expected,  \* rt.job_barrier_members: the input each member must be made from
  outcome,   \* rt.job_barrier_members.outcome
  output,    \* what completing a job persisted: its input, and the claim's epoch
  runner     \* the locals of each finalizer run

tables == <<bars, jobs, barrier, expected, outcome, output>>
vars == <<now, tables, runner>>

Owners == {OwnerOf[r] : r \in Runners}
Absent == "ABSENT"
Revisions == {o \in SUBSET (0..MaxTime) : Cardinality(o) <= MaxRevisions}
Inputs == [bars : Revisions, outcome : {"COMPLETE", "LATE", "GAP"}]
JobIds == Windows \X Members \X Inputs
NoClaim == [id |-> None, epoch |-> 0, attempts |-> 0, availableAt |-> 0]
Idle == [pc |-> "off", checked |-> 0, batch |-> {}, claim |-> NoClaim,
         prepared |-> None, retryable |-> FALSE, rounds |-> 0]

Init ==
  /\ now = 0
  /\ bars = [w \in Windows |-> [m \in Members |-> {}]]
  /\ jobs = [id \in {} |-> None]
  /\ barrier = [w \in Windows |-> Absent]
  /\ expected = [w \in Windows |-> [m \in Members |-> None]]
  /\ outcome = [w \in Windows |-> [m \in Members |-> None]]
  /\ output = [id \in {} |-> None]
  /\ runner = [r \in Runners |-> Idle]

-----------------------------------------------------------------------------
(* The finalizer's input and the rows of the tables.                         *)

\* build_five_minute_finalizer_input: the input of an instrument as known at t.
InputAt(w, m, t) ==
  LET known == {o \in bars[w][m] : o <= t} IN
  [bars |-> known,
   outcome |-> CASE known # {} /\ t <= Deadline[w] -> "COMPLETE"
                 [] known # {} /\ t > Deadline[w] -> "LATE"
                 [] known = {} /\ t >= Deadline[w] -> "GAP"
                 [] OTHER -> "PENDING"]

PendingRow(availableAt) ==
  [status |-> "PENDING", availableAt |-> availableAt, owner |-> None,
   epoch |-> 0, lease |-> 0, attempts |-> 0]

\* enqueue_materialization_job_cursor: a closure that is known keeps its row.
Enqueued(ids, availableAt) ==
  [id \in DOMAIN jobs \cup ids |->
     IF id \in DOMAIN jobs THEN jobs[id] ELSE PendingRow(availableAt)]

\* open_job_barrier_cursor raises: the barrier binds other inputs.
OpenedForOther(w, input) == barrier[w] # Absent /\ expected[w] # input

\* record_job_barrier_outcome_cursor raises: another outcome is recorded.
RecordedOther(w, m, result) == outcome[w][m] \notin {None, result}

\* Deliberate error: the row keeps its lease when its status changes.
KeepLease(row, status) == [row EXCEPT !.status = status]

\* A row that is no longer leased.
Released(row, status) == [row EXCEPT !.status = status, !.owner = None, !.lease = 0]

\* Deliberate error: the lease is the owner's, whichever claim took it.
OwnerHoldsLease(r, c) ==
  /\ c.id \in DOMAIN jobs /\ jobs[c.id].status = "LEASED"
  /\ jobs[c.id].owner = OwnerOf[r]

\* The lease fence of a completion and of a failure.
HoldsLease(r, c) ==
  /\ c.id \in DOMAIN jobs /\ jobs[c.id].status = "LEASED"
  /\ jobs[c.id].owner = OwnerOf[r]
  /\ jobs[c.id].epoch = c.epoch
  /\ jobs[c.id].lease > now

-----------------------------------------------------------------------------
(* Finalizer runs.                                                           *)

Finish(r) == runner' = [runner EXCEPT ![r] = [Idle EXCEPT !.pc = "ended"]]

Rounds == (Cardinality(Members) + ClaimLimit - 1) \div ClaimLimit + 1

\* What comes after a job: the next one of the batch, the next round, the verdict.
AfterJob(r) ==
  LET rest == runner[r].batch # {}
      left == IF rest THEN runner[r].rounds ELSE runner[r].rounds - 1
  IN  runner' = [runner EXCEPT
        ![r].pc = IF rest THEN "work" ELSE IF left = 0 THEN "evaluate" ELSE "claim",
        ![r].claim = NoClaim, ![r].prepared = None, ![r].rounds = left]

Start(r) ==
  /\ runner[r].pc = "off"
  /\ runner' = [runner EXCEPT ![r].pc = "seed", ![r].checked = now]
  /\ UNCHANGED <<now, tables>>

\* enqueue_five_minute_finalizer_jobs_cursor with open_job_barrier_cursor, in
\* one transaction: nothing is stored while an input is ambiguous, nor when the
\* barrier was opened for other inputs.
Seed(r) ==
  LET w == WindowOf[r]
      input == [m \in Members |-> InputAt(w, m, runner[r].checked)]
      ids == {<<w, m, input[m]>> : m \in Members}
      ambiguous == \E m \in Members : input[m].outcome = "PENDING"
      conflict == OpenedForOther(w, input)
  IN
  /\ runner[r].pc = "seed"
  /\ \/ (ambiguous \/ conflict) /\ Finish(r) /\ UNCHANGED <<jobs, barrier, expected>>
     \/ /\ ~ambiguous /\ ~conflict
        /\ jobs' = Enqueued(ids, runner[r].checked)
        /\ barrier' = [barrier EXCEPT ![w] = IF @ = Absent THEN "OPEN" ELSE @]
        /\ expected' = [expected EXCEPT ![w] = input]
        /\ runner' = [runner EXCEPT ![r].pc = "claim", ![r].rounds = Rounds]
  /\ UNCHANGED <<now, bars, outcome, output>>

Claimable(id) ==
  /\ jobs[id].attempts < MaximumAttempts
  /\ \/ jobs[id].status = "PENDING" /\ jobs[id].availableAt <= now
     \/ jobs[id].status = "LEASED" /\ jobs[id].lease <= now

Exhausted(id) ==
  /\ jobs[id].status = "LEASED" /\ jobs[id].lease <= now
  /\ jobs[id].attempts >= MaximumAttempts

\* claim_materialization_jobs_cursor: exhausted jobs are failed, then up to
\* ClaimLimit jobs of the cohort, of any window, are leased.  Rows locked by
\* another claim are skipped, so that any of them may be returned.
Claim(r) ==
  LET candidates == {id \in DOMAIN jobs : Claimable(id)} IN
  /\ runner[r].pc = "claim"
  /\ \E ids \in SUBSET candidates :
       /\ Cardinality(ids) <= ClaimLimit
       /\ ids = {} => candidates = {}
       /\ jobs' = [id \in DOMAIN jobs |->
            IF id \in ids
              THEN [jobs[id] EXCEPT !.status = "LEASED", !.owner = OwnerOf[r],
                      !.epoch = @ + 1, !.lease = now + LeaseSeconds, !.attempts = @ + 1]
              ELSE IF Exhausted(id) THEN Released(jobs[id], "FAILED") ELSE jobs[id]]
       /\ runner' = [runner EXCEPT
            ![r].pc = IF ids = {} THEN "evaluate" ELSE "work",
            ![r].batch = {[id |-> id, epoch |-> jobs[id].epoch + 1,
                           attempts |-> jobs[id].attempts + 1,
                           availableAt |-> jobs[id].availableAt] : id \in ids}]
  /\ UNCHANGED <<now, bars, barrier, expected, outcome, output>>

\* What the worker reads for a claim: the input as known when the job became
\* available.
InputOf(c) == InputAt(c.id[1], c.id[2], c.availableAt)

\* Deliberate error: the worker does not compare its input with the closure.
AnyInput(c) == TRUE

SameInput(c) == InputOf(c) = c.id[3]

\* prepare_five_minute_finalizer_output, for one job of the batch.
Prepare(r) ==
  /\ runner[r].pc = "work"
  /\ \E c \in runner[r].batch :
       runner' = [runner EXCEPT ![r].batch = @ \ {c}, ![r].claim = c,
                    ![r].prepared = IF SameInput(c) THEN InputOf(c) ELSE None,
                    ![r].pc = IF SameInput(c) THEN "complete" ELSE "fail",
                    ![r].retryable = FALSE]
  /\ UNCHANGED <<now, tables>>

\* Preparing or completing raises something else than a contract error.
Break(r) ==
  /\ runner[r].pc = "complete"
  /\ runner' = [runner EXCEPT ![r].pc = "fail", ![r].retryable = TRUE]
  /\ UNCHANGED <<now, tables>>

\* complete_materialization_job_with_barriers_cursor: the output, the job and
\* its member of an OPEN barrier change together, or the error is recorded.
Complete(r) ==
  LET c == runner[r].claim
      w == c.id[1]
      m == c.id[2]
      made == IF runner[r].prepared.outcome = "GAP" THEN "MISSING" ELSE "COMPLETE"
      member == barrier[w] = "OPEN" /\ expected[w][m] = c.id[3]
      refused == ~HoldsLease(r, c) \/ (member /\ RecordedOther(w, m, made))
  IN
  /\ runner[r].pc = "complete"
  /\ \/ /\ refused
        /\ runner' = [runner EXCEPT ![r].pc = "fail", ![r].retryable = FALSE]
        /\ UNCHANGED <<jobs, outcome, output>>
     \/ /\ ~refused
        /\ jobs' = [jobs EXCEPT ![c.id] = Released(@, "COMPLETE")]
        /\ output' = [id \in DOMAIN output \cup {c.id} |->
             IF id = c.id THEN [input |-> runner[r].prepared, epoch |-> c.epoch]
             ELSE output[id]]
        /\ outcome' = IF member THEN [outcome EXCEPT ![w][m] = made] ELSE outcome
        /\ AfterJob(r)
  /\ UNCHANGED <<now, bars, barrier, expected>>

\* _record_failure with fail_materialization_job_cursor.  Without its lease it
\* raises, and the run ends with the rest of its batch untouched.
Fail(r) ==
  LET c == runner[r].claim
      status == IF ~runner[r].retryable THEN "BLOCKED"
                ELSE IF c.attempts >= MaximumAttempts THEN "FAILED" ELSE "PENDING"
      row == [Released(jobs[c.id], status) EXCEPT
                !.availableAt = IF status = "PENDING" THEN now + RetryDelay ELSE @]
  IN
  /\ runner[r].pc = "fail"
  /\ \/ ~HoldsLease(r, c) /\ Finish(r) /\ UNCHANGED jobs
     \/ /\ HoldsLease(r, c)
        /\ jobs' = [jobs EXCEPT ![c.id] = row]
        /\ AfterJob(r)
  /\ UNCHANGED <<now, bars, barrier, expected, outcome, output>>

-----------------------------------------------------------------------------
(* The barrier's verdict.                                                    *)

JobOf(w, m) == <<w, m, expected[w][m]>>

\* Deliberate error: an attempt that failed and will be retried fails its member.
DerivedFromAttempt(w, m) ==
  IF outcome[w][m] = None /\ jobs[JobOf(w, m)].status = "PENDING"
                          /\ jobs[JobOf(w, m)].attempts > 0
    THEN "FAILED" ELSE outcome[w][m]

\* A member without an outcome takes that of a job that failed or was blocked.
Derived(w, m) ==
  IF outcome[w][m] = None /\ jobs[JobOf(w, m)].status \in {"FAILED", "BLOCKED"}
    THEN jobs[JobOf(w, m)].status ELSE outcome[w][m]

\* Deliberate error: members without an outcome are not waited for.
VerdictOfSome(w) ==
  IF \E m \in Members : Derived(w, m) \notin {None, "COMPLETE"} THEN "FAILED" ELSE "COMPLETE"

Verdict(w) ==
  CASE \E m \in Members : Derived(w, m) \notin {None, "COMPLETE"} -> "FAILED"
    [] \A m \in Members : Derived(w, m) = "COMPLETE" -> "COMPLETE"
    [] OTHER -> "OPEN"

\* evaluate_job_barrier_cursor
Evaluate(r) ==
  LET w == WindowOf[r] IN
  /\ runner[r].pc = "evaluate"
  /\ outcome' = [outcome EXCEPT ![w] = [m \in Members |-> Derived(w, m)]]
  /\ barrier' = [barrier EXCEPT ![w] = IF @ = "OPEN" THEN Verdict(w) ELSE @]
  /\ Finish(r)
  /\ UNCHANGED <<now, bars, jobs, expected, output>>

-----------------------------------------------------------------------------
\* A run stops anywhere: it is cancelled, its process dies, a call raises.
Stop(r) ==
  /\ runner[r].pc \notin {"off", "ended"}
  /\ Finish(r)
  /\ UNCHANGED <<now, tables>>

\* The ingest side records a revision, perhaps a while after observing it.
Observe(w, m, t) ==
  /\ t <= now /\ now <= t + CommitLag /\ t \notin bars[w][m]
  /\ Cardinality(bars[w][m]) < MaxRevisions
  /\ bars' = [bars EXCEPT ![w][m] = @ \cup {t}]
  /\ UNCHANGED <<now, jobs, barrier, expected, outcome, output, runner>>

Tick == now < MaxTime /\ now' = now + 1 /\ UNCHANGED <<tables, runner>>

\* A window's finalization, by a stage runner or by the incremental finalizer.
Finalize(r) ==
  \/ Start(r) \/ Seed(r) \/ Claim(r) \/ Prepare(r) \/ Break(r)
  \/ Complete(r) \/ Fail(r) \/ Evaluate(r) \/ Stop(r)

Next ==
  \/ \E r \in Runners : Finalize(r)
  \/ \E w \in Windows, m \in Members, t \in 0..MaxTime : Observe(w, m, t)
  \/ Tick

Spec == Init /\ [][Next]_vars

-----------------------------------------------------------------------------
(* Properties.                                                               *)

JobRows == [status : {"PENDING", "LEASED", "COMPLETE", "FAILED", "BLOCKED"},
            availableAt : Nat, owner : Owners \cup {None}, epoch : Nat,
            lease : Nat, attempts : 0..MaximumAttempts]
ClaimRows == [id : JobIds, epoch : Nat, attempts : Nat, availableAt : Nat]
RunnerRows ==
  [pc : {"off", "seed", "claim", "work", "complete", "fail", "evaluate", "ended"},
   checked : Nat, batch : SUBSET ClaimRows, claim : ClaimRows \cup {NoClaim},
   prepared : Inputs \cup {None}, retryable : BOOLEAN, rounds : Nat]

\* Every table and local has its type, and a job is LEASED exactly when it has
\* an owner (the CHECK of rt.materialization_jobs).
TypeOK ==
  /\ now \in Nat
  /\ bars \in [Windows -> [Members -> Revisions]]
  /\ DOMAIN jobs \subseteq JobIds
  /\ \A id \in DOMAIN jobs :
       jobs[id] \in JobRows /\ (jobs[id].status = "LEASED" <=> jobs[id].owner # None)
  /\ barrier \in [Windows -> {Absent, "OPEN", "COMPLETE", "FAILED"}]
  /\ expected \in [Windows -> [Members -> Inputs \cup {None}]]
  /\ outcome \in [Windows -> [Members -> {None, "COMPLETE", "FAILED", "BLOCKED", "MISSING"}]]
  /\ DOMAIN output \subseteq DOMAIN jobs
  /\ \A id \in DOMAIN output : output[id] \in [input : Inputs \cup {None}, epoch : Nat]
  /\ runner \in [Runners -> RunnerRows]

\* The queue implements LeasedWork: however runs overlap, expire and restart,
\* also under one lease owner, a job's output is committed at most once, by the
\* claim granted last, and a settled job is never claimed again ("the same
\* closure is never computed twice").
Queue == INSTANCE LeasedWork WITH
  Work <- JobIds,
  granted <- [id \in JobIds |-> IF id \in DOMAIN jobs THEN jobs[id].epoch ELSE 0],
  finished <- [id \in JobIds |-> IF id \in DOMAIN output THEN output[id].epoch ELSE 0],
  given <- {id \in DOMAIN jobs : jobs[id].status \in {"FAILED", "BLOCKED"}}
ImplementsLeasedWork == Queue!Spec

\* A barrier's member and its job always agree: an outcome is COMPLETE or
\* MISSING only with the job's committed output, FAILED or BLOCKED only when
\* the job is so for good; no retry that may still succeed fails the window.
\* And an open barrier never waits for a member whose job has completed: no
\* seed, claim or evaluation slips between a completion and its record.
MembersAgreeWithJobs ==
  \A w \in Windows, m \in Members :
    /\ outcome[w][m] \in {"COMPLETE", "MISSING"} =>
         jobs[JobOf(w, m)].status = "COMPLETE" /\ JobOf(w, m) \in DOMAIN output
    /\ outcome[w][m] \in {"FAILED", "BLOCKED"} => jobs[JobOf(w, m)].status = outcome[w][m]
    /\ barrier[w] = "OPEN" /\ outcome[w][m] = None =>
         jobs[JobOf(w, m)].status # "COMPLETE"

\* A verdict is exact for the universe it was opened for: COMPLETE only when
\* every member completed, FAILED only when some member never will.
VerdictIsExact ==
  \A w \in Windows :
    /\ barrier[w] = "COMPLETE" => \A m \in Members : outcome[w][m] = "COMPLETE"
    /\ barrier[w] = "FAILED" =>
         \E m \in Members : outcome[w][m] \in {"FAILED", "BLOCKED", "MISSING"}

\* What a job committed was made from the very input its closure names,
\* although bars arrive late and a retry moves the instant it looks from.
OutputIsOfItsClosure ==
  \A id \in DOMAIN output : output[id].input = id[3]
=============================================================================
