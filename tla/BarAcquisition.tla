--------------------------- MODULE BarAcquisition ---------------------------
(* The Developer tier's incremental acquisition of the bars of one instrument *)
(* and interval, and what becomes of them: a collector asks the provider for  *)
(* the bars that have closed since its watermark, with some overlap, records  *)
(* them as a batch, and jobs that several drains compete for copy the batches *)
(* into the bar tables.  incremental_acquisition.py,                          *)
(* run_realtime_v2_incremental_equity.py, stage_runners_ingest.py,            *)
(* acquisition_consumer.py, equity_bar_drain.py, equity_bar_repository.py.    *)
EXTENDS Naturals, FiniteSets

CONSTANTS
  Close,            \* the bars of a session are 1..Close
  Overlap,          \* bars before the watermark that are asked for again
  Contents,         \* what a bar may say
  Original,         \* what every bar says at first
  MaxCorrections,   \* bound: changes of a bar by the provider
  Workers,          \* stage attempts that drain the jobs
  Collector,        \* the process of the collector, which also drains
  MaximumAttempts,  \* claims of a job
  None              \* no claim, no content

ASSUME BarAssumption ==
  /\ {Close, MaximumAttempts} \subseteq Nat \ {0}
  /\ {Overlap, MaxCorrections} \subseteq Nat
  /\ Original \in Contents
  /\ None \notin Contents
  /\ Collector \notin Workers

Bars == 1..Close
Drains == Workers \cup {Collector}

(* A request is for the bars from+1..to; it names the request in the ledger,   *)
(* its batch, and the batch's job, which are derived from one another.         *)
Ranges == {r \in [from : 0..Close, to : 1..Close] : r.from < r.to}

\* Deliberate error: the first bar of the range is taken for the bar before it.
BarsAfterFirst(r) == (r.from + 2)..r.to

BarsOf(r) == (r.from + 1)..r.to

VARIABLES
  cutoff,       \* bars that have closed and may be asked for
  provider,     \* what the provider says of each bar
  corrections,  \* changes it has made
  clock,        \* responses received: the time one was observed
  requests,     \* provider requests, by range
  watermark,    \* the last complete bar recorded, 0 if none
  collector,    \* the collector's process
  jobs,         \* batches and their materialization jobs, by range
  claims,       \* the job that each drain works on
  catalog,      \* bar_catalog: when a revision was first observed, 0 if never
  current       \* bar_current: the content of each bar, or None

source == <<cutoff, provider, corrections>>
ledger == <<clock, requests>>
tables == <<catalog, current>>
vars == <<source, ledger, watermark, collector, jobs, claims, tables>>

NoRequest == [state |-> "none", bars |-> [b \in Bars |-> Original], observed |-> 0]
Resting == [pc |-> "idle", range |-> None]
NoJob == [status |-> "none", attempts |-> 0, at |-> 0, lapsed |-> FALSE]

Init ==
  /\ cutoff = 0
  /\ provider = [b \in Bars |-> Original]
  /\ corrections = 0
  /\ clock = 0
  /\ requests = [r \in Ranges |-> NoRequest]
  /\ watermark = 0
  /\ collector = Resting
  /\ jobs = [r \in Ranges |-> NoJob]
  /\ claims = [d \in Drains |-> None]
  /\ catalog = [b \in Bars |-> [c \in Contents |-> 0]]
  /\ current = [b \in Bars |-> None]

-------------------------------------------------------------------------------
(* A cycle of the collector.                                                   *)

(* The first bar is asked for again when the watermark is within the overlap. *)
RequestStart == IF watermark <= Overlap THEN 0 ELSE watermark - Overlap

(* The request for the bars that have closed by now is reserved before it is    *)
(* sent; one that was reserved before is replayed when its response was stored, *)
(* and raises otherwise.                                                        *)
Reserve(now) ==
  /\ collector.pc = "idle"
  /\ watermark < now
  /\ LET r == [from |-> RequestStart, to |-> now]
         state == requests[r].state
     IN /\ state \in {"none", "COMPLETE"}
        /\ collector' = [pc |-> IF state = "none" THEN "sending" ELSE "fetched", range |-> r]
        /\ requests' = IF state = "none" THEN [requests EXCEPT ![r].state = "RESERVED"]
                       ELSE requests
  /\ cutoff' = now
  /\ UNCHANGED <<provider, corrections, clock, watermark, jobs, claims, tables>>

(* What the provider may answer: any bar may have been corrected since it was   *)
(* last asked for.                                                              *)
Changed(says) == {b \in Bars : says[b] # provider[b]}
Answers(r) ==
  {says \in [Bars -> Contents] :
     /\ Changed(says) \subseteq BarsOf(r)
     /\ corrections + Cardinality(Changed(says)) <= MaxCorrections}

(* The response and the end of the request are one transaction. *)
Respond ==
  /\ collector.pc = "sending"
  /\ LET r == collector.range
     IN \E says \in Answers(r) :
          /\ provider' = says
          /\ corrections' = corrections + Cardinality(Changed(says))
          /\ requests' = [requests EXCEPT ![r] =
               [state |-> "COMPLETE", observed |-> clock + 1,
                bars |-> [b \in Bars |-> IF b \in BarsOf(r) THEN says[b] ELSE Original]]]
  /\ clock' = clock + 1
  /\ collector' = [collector EXCEPT !.pc = "fetched"]
  /\ UNCHANGED <<cutoff, watermark, jobs, claims, tables>>

(* An error, a response without all its bars, or none: the process ends. *)
Refuse ==
  /\ collector.pc = "sending"
  /\ requests' = [requests EXCEPT ![collector.range].state = "FAILED"]
  /\ collector' = Resting
  /\ UNCHANGED <<source, clock, watermark, jobs, claims, tables>>

(* A batch is recorded once; it was completed when its response came. *)
WithBatch(r) ==
  IF jobs[r].status = "none"
  THEN [jobs EXCEPT ![r].status = "recorded", ![r].at = 2 * requests[r].observed]
  ELSE jobs

(* The watermark never goes back. *)
Advanced(to) == IF watermark < to THEN to ELSE watermark

(* The batch, its facts and the watermark are one transaction. *)
Record ==
  /\ collector.pc = "fetched"
  /\ jobs' = WithBatch(collector.range)
  /\ watermark' = Advanced(collector.range.to)
  /\ collector' = [collector EXCEPT !.pc = "draining"]
  /\ UNCHANGED <<source, ledger, claims, tables>>

(* The process is lost, and started again. *)
Restart ==
  /\ collector.pc # "idle"
  /\ collector' = Resting
  /\ claims' = [claims EXCEPT ![Collector] = None]
  /\ UNCHANGED <<source, ledger, watermark, jobs, tables>>

-------------------------------------------------------------------------------
(* Draining: the collector drains the batch it has just recorded, the attempts  *)
(* of a stage any.  One job is claimed at a time.                               *)

Idle(d) == claims[d] = None /\ (d = Collector => collector.pc = "draining")
Scope(d) == IF d = Collector THEN {collector.range} ELSE Ranges

\* Deliberate error: only a job that nobody has leased is claimed.
ClaimablePending(r) ==
  jobs[r].attempts < MaximumAttempts /\ jobs[r].status = "PENDING" /\ jobs[r].at # 0

Claimable(r) ==
  /\ jobs[r].attempts < MaximumAttempts
  /\ \/ jobs[r].status = "PENDING" /\ jobs[r].at # 0
     \/ jobs[r].status = "LEASED" /\ jobs[r].lapsed
Candidates(d) == {r \in Scope(d) : Claimable(r)}

Exhausted(r) ==
  jobs[r].status = "LEASED" /\ jobs[r].lapsed /\ jobs[r].attempts >= MaximumAttempts

\* What a claim does first: lapsed leases of the last attempt fail.
Swept(d) ==
  [r \in Ranges |-> IF r \in Scope(d) /\ Exhausted(r)
                    THEN [jobs[r] EXCEPT !.status = "FAILED", !.lapsed = FALSE] ELSE jobs[r]]

(* The job that has been available for longest, leased with its next attempt. *)
Claim(d) ==
  /\ Idle(d)
  /\ \E r \in Candidates(d) :
       /\ \A s \in Candidates(d) : jobs[r].at <= jobs[s].at
       /\ jobs' = [Swept(d) EXCEPT ![r].status = "LEASED", ![r].attempts = @ + 1,
                                   ![r].lapsed = FALSE]
       /\ claims' = [claims EXCEPT ![d] = [range |-> r, attempt |-> jobs[r].attempts + 1,
                                           error |-> "none"]]
  /\ UNCHANGED <<source, ledger, watermark, collector, tables>>

Undiscovered(d) == {r \in Scope(d) : jobs[r].status = "recorded"}

(* Batches that have no job are only looked for when there is none to claim. *)
Discovered(d) ==
  [r \in Ranges |-> IF r \in Undiscovered(d)
                    THEN [jobs[r] EXCEPT !.status = "PENDING"] ELSE Swept(d)[r]]

Discover(w) ==
  /\ Idle(w)
  /\ Candidates(w) = {}
  /\ jobs' = Discovered(w)
  /\ jobs' # jobs
  /\ UNCHANGED <<source, ledger, watermark, collector, claims, tables>>

(* The collector's drain ends when it has claimed nothing and found nothing. *)
FindNone ==
  /\ Idle(Collector)
  /\ Candidates(Collector) = {}
  /\ jobs' = Swept(Collector)
  /\ collector' = [collector EXCEPT !.pc = "discovering"]
  /\ UNCHANGED <<source, ledger, watermark, claims, tables>>

DiscoverOwn ==
  /\ collector.pc = "discovering"
  /\ jobs' = [r \in Ranges |-> IF r \in Undiscovered(Collector)
                               THEN [jobs[r] EXCEPT !.status = "PENDING"] ELSE jobs[r]]
  /\ collector' = IF Undiscovered(Collector) = {} THEN Resting
                  ELSE [collector EXCEPT !.pc = "draining"]
  /\ UNCHANGED <<source, ledger, watermark, claims, tables>>

-------------------------------------------------------------------------------
(* A job: the bars of its batch are written and the job completed in one        *)
(* transaction, under the lease of the claim.                                   *)

Held(d) ==
  LET job == jobs[claims[d].range]
  IN job.status = "LEASED" /\ job.attempts = claims[d].attempt /\ ~job.lapsed

Content(r, b) == requests[r].bars[b]

\* Deliberate error: a revision is only ever written with the time it has.
ConflictsUnlessSame(r) ==
  \E b \in BarsOf(r) : catalog[b][Content(r, b)] \notin {0, requests[r].observed}

(* A revision is catalogued once, with the time it was first observed; a later  *)
(* observation of the same content is a replay, an earlier one a conflict.      *)
Conflicts(r) == \E b \in BarsOf(r) : catalog[b][Content(r, b)] > requests[r].observed

Catalogued(r) ==
  [b \in Bars |-> [c \in Contents |->
     IF b \in BarsOf(r) /\ c = Content(r, b) /\ catalog[b][c] = 0
     THEN requests[r].observed ELSE catalog[b][c]]]

\* Deliberate error: whatever is written last is current.
WrittenLast(b, c) == TRUE

(* A bar goes from the current revision to one that was not observed before it. *)
Supersedes(b, c) == current[b] = None \/ catalog'[b][current[b]] <= catalog'[b][c]

Persist(r) ==
  /\ catalog' = Catalogued(r)
  /\ current' = [b \in Bars |->
       IF b \in BarsOf(r) /\ Supersedes(b, Content(r, b)) THEN Content(r, b) ELSE current[b]]

Complete(d) ==
  /\ claims[d] # None
  /\ claims[d].error = "none"
  /\ Held(d)
  /\ ~Conflicts(claims[d].range)
  /\ Persist(claims[d].range)
  /\ jobs' = [jobs EXCEPT ![claims[d].range].status = "COMPLETE"]
  /\ claims' = [claims EXCEPT ![d] = None]
  /\ collector' = IF d = Collector THEN Resting ELSE collector
  /\ UNCHANGED <<source, ledger, watermark>>

(* A lost lease or a conflict is a ValueError; any other error is transient. *)
Raise(d) ==
  /\ claims[d] # None
  /\ claims[d].error = "none"
  /\ \/ /\ ~Held(d) \/ Conflicts(claims[d].range)
        /\ claims' = [claims EXCEPT ![d].error = "invalid"]
     \/ claims' = [claims EXCEPT ![d].error = "transient"]
  /\ UNCHANGED <<source, ledger, watermark, collector, jobs, tables>>

Failed(d) ==
  LET r == claims[d].range
  IN CASE claims[d].error = "invalid" -> [jobs[r] EXCEPT !.status = "BLOCKED"]
       [] claims[d].error # "invalid" /\ claims[d].attempt >= MaximumAttempts ->
            [jobs[r] EXCEPT !.status = "FAILED"]
       [] OTHER -> [jobs[r] EXCEPT !.status = "PENDING", !.at = 0]

(* The failure is a transaction of its own, and nothing if the lease is lost; a *)
(* failure ends the collector.                                                  *)
RecordFailure(d) ==
  /\ claims[d] # None
  /\ claims[d].error # "none"
  /\ jobs' = IF Held(d) THEN [jobs EXCEPT ![claims[d].range] = Failed(d)] ELSE jobs
  /\ claims' = [claims EXCEPT ![d] = None]
  /\ collector' = IF d = Collector THEN Resting ELSE collector
  /\ UNCHANGED <<source, ledger, watermark, tables>>

(* A stage attempt is abandoned, fenced or lost with a job in hand. *)
Abandon(w) ==
  /\ claims[w] # None
  /\ claims' = [claims EXCEPT ![w] = None]
  /\ UNCHANGED <<source, ledger, watermark, collector, jobs, tables>>

(* A lease lapses, or the delay of a retry passes. *)
Lapse(r) ==
  /\ jobs[r].status = "LEASED"
  /\ ~jobs[r].lapsed
  /\ jobs' = [jobs EXCEPT ![r].lapsed = TRUE]
  /\ UNCHANGED <<source, ledger, watermark, collector, claims, tables>>

Due(r) ==
  /\ jobs[r].status = "PENDING"
  /\ jobs[r].at = 0
  /\ jobs' = [jobs EXCEPT ![r].at = 2 * clock + 1]
  /\ UNCHANGED <<source, ledger, watermark, collector, claims, tables>>

Work(d) == Claim(d) \/ Complete(d) \/ Raise(d) \/ RecordFailure(d)
TimePasses == \E r \in Ranges : Lapse(r) \/ Due(r)

Next ==
  \/ \E now \in cutoff..Close : Reserve(now)
  \/ Respond \/ Refuse \/ Record \/ Restart
  \/ \E d \in Drains : Work(d)
  \/ \E w \in Workers : Discover(w) \/ Abandon(w)
  \/ FindNone \/ DiscoverOwn
  \/ TimePasses

Spec == Init /\ [][Next]_vars

(* The release windows run their stage, which drains; time passes. *)
FairSpec ==
  /\ Spec
  /\ \A w \in Workers : WF_vars(Work(w) \/ Discover(w))
  /\ WF_vars(TimePasses)

-------------------------------------------------------------------------------
(* Properties.                                                                 *)

Requests == [state : {"none", "RESERVED", "FAILED", "COMPLETE"},
             bars : [Bars -> Contents], observed : Nat]
Jobs == [status : {"none", "recorded", "PENDING", "LEASED", "COMPLETE", "FAILED", "BLOCKED"},
         attempts : 0..MaximumAttempts, at : Nat, lapsed : BOOLEAN]
Claims == [range : Ranges, attempt : 1..MaximumAttempts,
           error : {"none", "invalid", "transient"}]

(* Types, with what bounds them: the collector never records a bar that has not  *)
(* closed, no job is claimed more than MaximumAttempts times, and no revision   *)
(* was observed later than the last response (latest_qualified_cutoff, the      *)
(* claim's attempts, observed_at).                                              *)
TypeOK ==
  /\ cutoff \in 0..Close
  /\ provider \in [Bars -> Contents]
  /\ corrections \in 0..MaxCorrections
  /\ clock \in Nat
  /\ requests \in [Ranges -> Requests]
  /\ watermark \in 0..cutoff
  /\ collector \in {Resting} \cup
       [pc : {"sending", "fetched", "draining", "discovering"}, range : Ranges]
  /\ jobs \in [Ranges -> Jobs]
  /\ claims \in [Drains -> Claims \cup {None}]
  /\ catalog \in [Bars -> [Contents -> 0..clock]]
  /\ current \in [Bars -> Contents \cup {None}]

Recorded(r) == jobs[r].status # "none"
Settled(r) == jobs[r].status \in {"COMPLETE", "FAILED", "BLOCKED"}

(* The watermark vouches for the bars: whatever crashes, retries and competing    *)
(* drains there were, each bar at or below it is in the bar tables, or in a       *)
(* recorded batch that was not materialized (the overlap, the transactions of     *)
(* acquire_equity_bars and process_developer_acquisition_job).                    *)
NothingLost ==
  \A b \in 1..watermark :
    \/ current[b] # None
    \/ \E r \in Ranges : b \in BarsOf(r) /\ Recorded(r) /\ jobs[r].status # "COMPLETE"

(* Whatever order batches are materialized in, the current content of a bar is    *)
(* that of its revisions which was first observed last (the condition of the      *)
(* upsert into bar_current).                                                      *)
CurrentIsNewest ==
  \A b \in Bars :
    IF current[b] = None THEN \A c \in Contents : catalog[b][c] = 0
    ELSE /\ catalog[b][current[b]] # 0
         /\ \A c \in Contents : catalog[b][c] <= catalog[b][current[b]]

\* A batch that was observed later and says the same of a bar is materialized.
Overtaken(r) ==
  \E t \in Ranges :
    /\ jobs[t].status = "COMPLETE"
    /\ requests[t].observed > requests[r].observed
    /\ \E b \in BarsOf(r) \cap BarsOf(t) : Content(r, b) = Content(t, b)

(* A batch is only ever blocked when one that was observed later and says the     *)
(* same of a bar was materialized before it: asking for bars again is otherwise   *)
(* harmless (content_idempotent_replay).                                          *)
OnlyOvertakenBlocked == \A r \in Ranges : jobs[r].status = "BLOCKED" => Overtaken(r)

(* No batch is left behind: when stages drain, each recorded batch is in the end  *)
(* materialized, failed or blocked, also when its collector died before or while  *)
(* it drained it, or a stage was abandoned with its job in hand                   *)
(* (enqueue_pending_developer_acquisition_jobs, lease expiry, MAXIMUM_ATTEMPTS).  *)
BatchesSettle == <>[](\A r \in Ranges : Recorded(r) => Settled(r))
=============================================================================
