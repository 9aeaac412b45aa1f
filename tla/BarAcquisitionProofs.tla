------------------------ MODULE BarAcquisitionProofs ------------------------
(* What BarAcquisition keeps for any session, overlap, provider and number of *)
(* drains: the inductive invariant, and the proof that every step keeps it.   *)
EXTENDS BarAcquisition, FiniteSetTheorems, TLAPS

(* A response that was stored has its own time, and only such a one is recorded. *)
ResponsesTimed ==
  \A r \in Ranges :
    /\ requests[r].observed <= clock
    /\ requests[r].state = "COMPLETE" => requests[r].observed # 0
    /\ Recorded(r) => requests[r].state = "COMPLETE"

(* What the collector holds is what the ledger says, and starts no later than   *)
(* the bar after the watermark.                                                  *)
CollectorKnows ==
  LET r == collector.range
  IN /\ collector.pc = "sending" => requests[r].state = "RESERVED"
     /\ collector.pc = "fetched" => requests[r].state = "COMPLETE"
     /\ collector.pc \in {"sending", "fetched"} => r.to = cutoff /\ r.from <= watermark

WatermarkCovered ==
  \A b \in 1..watermark : \E r \in Ranges : b \in BarsOf(r) /\ Recorded(r)

CompleteIsCurrent ==
  \A r \in Ranges : jobs[r].status = "COMPLETE" => \A b \in BarsOf(r) : current[b] # None

(* A catalogued time is that of a batch that was materialized. *)
Origin(b, c) ==
  \E t \in Ranges :
    /\ jobs[t].status = "COMPLETE"
    /\ b \in BarsOf(t)
    /\ Content(t, b) = c
    /\ requests[t].observed = catalog[b][c]
CatalogFounded == \A b \in Bars, c \in Contents : catalog[b][c] # 0 => Origin(b, c)

(* A claim that still holds its lease and met a ValueError met a conflict. *)
ClaimSound(d) ==
  claims[d] # None =>
    /\ claims[d].attempt <= jobs[claims[d].range].attempts
    /\ claims[d].error = "invalid" /\ Held(d) => Overtaken(claims[d].range)
ClaimsSound == \A d \in Drains : ClaimSound(d)

IInv ==
  /\ TypeOK
  /\ ResponsesTimed
  /\ CollectorKnows
  /\ WatermarkCovered
  /\ CompleteIsCurrent
  /\ CurrentIsNewest
  /\ CatalogFounded
  /\ ClaimsSound
  /\ OnlyOvertakenBlocked

-----------------------------------------------------------------------------
(* Types.                                                                    *)

LEMMA BarsFinite ==
  ASSUME NEW S \in SUBSET Bars
  PROVE  Cardinality(S) \in Nat
<1>1. IsFiniteSet(Bars) BY FS_Interval, BarAssumption DEF Bars
<1> QED BY <1>1, FS_Subset, FS_CardinalityType

LEMMA RangeShape ==
  ASSUME NEW r \in Ranges
  PROVE  /\ r.from \in 0..Close /\ r.to \in 1..Close /\ r.from < r.to
         /\ BarsOf(r) \subseteq Bars
BY BarAssumption DEF Ranges, BarsOf, Bars

LEMMA CollectorShape ==
  ASSUME TypeOK, collector.pc # "idle"
  PROVE  /\ collector.range \in Ranges
         /\ collector.pc \in {"sending", "fetched", "draining", "discovering"}
         /\ collector = [pc |-> collector.pc, range |-> collector.range]
BY DEF TypeOK, Resting

LEMMA PlannedRange ==
  ASSUME TypeOK, NEW now \in cutoff..Close, watermark < now
  PROVE  /\ [from |-> RequestStart, to |-> now] \in Ranges
         /\ RequestStart <= watermark
BY BarAssumption DEF TypeOK, RequestStart, Ranges

LEMMA InitType == Init => TypeOK
<1> SUFFICES ASSUME Init PROVE TypeOK
  OBVIOUS
<1>1. NoRequest \in Requests BY BarAssumption DEF NoRequest, Requests
<1>2. NoJob \in Jobs BY BarAssumption DEF NoJob, Jobs
<1> QED BY <1>1, <1>2, BarAssumption DEF Init, TypeOK, Bars

LEMMA ReserveType ==
  ASSUME IInv, NEW now \in cutoff..Close, Reserve(now)
  PROVE  TypeOK'
<1> DEFINE r == [from |-> RequestStart, to |-> now]
<1>0. r \in Ranges BY PlannedRange DEF IInv, Reserve
<1>1. requests' \in [Ranges -> Requests]
  <2>1. /\ requests \in [Ranges -> Requests]
        /\ requests' \in {requests, [requests EXCEPT ![r].state = "RESERVED"]}
    BY DEF IInv, TypeOK, Reserve
  <2> HIDE DEF r
  <2> QED BY <1>0, <2>1 DEF Requests
<1>2. /\ collector' \in [pc : {"sending", "fetched"}, range : {r}]
      /\ cutoff' \in 0..Close /\ watermark' \in 0..cutoff'
  BY BarAssumption DEF IInv, TypeOK, Reserve
<1> QED BY <1>0, <1>1, <1>2 DEF IInv, TypeOK, Reserve, tables

LEMMA RespondType ==
  ASSUME IInv, Respond
  PROVE  TypeOK'
<1> DEFINE r == collector.range
<1>0. r \in Ranges /\ collector.pc = "sending" BY CollectorShape DEF IInv, Respond
<1>1. PICK says \in Answers(r) :
        /\ provider' = says
        /\ corrections' = corrections + Cardinality(Changed(says))
        /\ requests' = [requests EXCEPT ![r] =
             [state |-> "COMPLETE", observed |-> clock + 1,
              bars |-> [b \in Bars |-> IF b \in BarsOf(r) THEN says[b] ELSE Original]]]
  BY DEF Respond
<1>2. /\ says \in [Bars -> Contents] /\ Cardinality(Changed(says)) \in Nat
      /\ corrections + Cardinality(Changed(says)) <= MaxCorrections
  BY <1>1, BarsFinite DEF Answers, Changed
<1>3. [b \in Bars |-> IF b \in BarsOf(r) THEN says[b] ELSE Original] \in [Bars -> Contents]
  BY <1>2, BarAssumption
<1>4. requests' \in [Ranges -> Requests]
  <2> DEFINE answer == [state |-> "COMPLETE", observed |-> clock + 1,
                        bars |-> [b \in Bars |-> IF b \in BarsOf(r) THEN says[b] ELSE Original]]
  <2>1. answer \in Requests BY <1>3 DEF IInv, TypeOK, Requests
  <2>2. requests' = [requests EXCEPT ![r] = answer] BY <1>1
  <2> HIDE DEF answer
  <2> QED BY <2>1, <2>2 DEF IInv, TypeOK
<1>5. corrections' \in 0..MaxCorrections
  BY <1>1, <1>2, BarAssumption DEF IInv, TypeOK
<1>6. collector' \in [pc : {"fetched"}, range : Ranges] BY <1>0, CollectorShape DEF IInv, Respond
<1>7. clock' = clock + 1 /\ catalog' \in [Bars -> [Contents -> 0..clock']]
  BY DEF IInv, TypeOK, Respond, tables
<1> QED BY <1>1, <1>2, <1>4, <1>5, <1>6, <1>7 DEF IInv, TypeOK, Respond, tables

LEMMA RefuseType ==
  ASSUME IInv, Refuse
  PROVE  TypeOK'
<1>1. requests' \in [Ranges -> Requests]
  BY CollectorShape DEF IInv, TypeOK, Refuse, Requests
<1> QED BY <1>1 DEF IInv, TypeOK, Refuse, tables, source

LEMMA RecordType ==
  ASSUME IInv, Record
  PROVE  TypeOK'
<1> DEFINE r == collector.range
<1>0. /\ r \in Ranges /\ collector.pc = "fetched" /\ r.to = cutoff
      /\ collector' = [pc |-> "draining", range |-> r]
  BY CollectorShape DEF IInv, CollectorKnows, Record
<1>1. jobs' \in [Ranges -> Jobs]
  <2> DEFINE job == [jobs[r] EXCEPT !.status = "recorded", !.at = 2 * requests[r].observed]
  <2>1. requests[r].observed \in Nat /\ jobs[r] \in Jobs
    BY <1>0 DEF IInv, TypeOK, Requests
  <2>2. job \in Jobs
    <3>1. 2 * requests[r].observed \in Nat BY <2>1
    <3> QED BY <2>1, <3>1, Zenon DEF Jobs
  <2>3. jobs \in [Ranges -> Jobs] BY DEF IInv, TypeOK
  <2>4. jobs' \in {jobs, [jobs EXCEPT ![r] = job]} BY <1>0, <2>3 DEF Record, WithBatch
  <2> HIDE DEF job, r
  <2> QED BY <1>0, <2>2, <2>3, <2>4
<1>2. watermark' \in 0..cutoff' BY <1>0, RangeShape DEF IInv, TypeOK, Record, Advanced, source
<1> QED BY <1>0, <1>1, <1>2 DEF IInv, TypeOK, Record, tables, ledger, source

(* Most steps leave everything but the jobs, the claims and the collector alone. *)
JobsTyped ==
  /\ jobs' \in [Ranges -> Jobs]
  /\ claims' \in [Drains -> Claims \cup {None}]
  /\ collector' = Resting \/ collector' = collector
     \/ /\ collector.pc # "idle"
        /\ \E pc \in {"draining", "discovering"} : collector' = [collector EXCEPT !.pc = pc]
  /\ UNCHANGED <<source, ledger, watermark>>

LEMMA JobsTypedKeepsType ==
  ASSUME TypeOK, JobsTyped, UNCHANGED tables
  PROVE  TypeOK'
<1>1. collector' \in {Resting} \cup
        [pc : {"sending", "fetched", "draining", "discovering"}, range : Ranges]
  BY CollectorShape DEF TypeOK, JobsTyped
<1> QED BY <1>1 DEF TypeOK, JobsTyped, source, ledger, tables

LEMMA SweptType ==
  ASSUME TypeOK, NEW d \in Drains
  PROVE  /\ Swept(d) \in [Ranges -> Jobs]
         /\ \A r \in Ranges :
              \/ Swept(d)[r] = jobs[r]
              \/ /\ Exhausted(r)
                 /\ Swept(d)[r] = [jobs[r] EXCEPT !.status = "FAILED", !.lapsed = FALSE]
<1> DEFINE failed(r) == [jobs[r] EXCEPT !.status = "FAILED", !.lapsed = FALSE]
<1>1. jobs \in [Ranges -> Jobs] BY DEF TypeOK
<1>2. ASSUME NEW r \in Ranges PROVE failed(r) \in Jobs
  BY <1>1 DEF Jobs
<1>3. Swept(d) = [r \in Ranges |-> IF r \in Scope(d) /\ Exhausted(r) THEN failed(r) ELSE jobs[r]]
  BY DEF Swept
<1> HIDE DEF failed
<1>4. /\ Swept(d) \in [Ranges -> Jobs]
      /\ \A r \in Ranges : Swept(d)[r] = jobs[r] \/ (Exhausted(r) /\ Swept(d)[r] = failed(r))
  BY <1>1, <1>2, <1>3
<1> QED BY <1>4 DEF failed

LEMMA ClaimTyped ==
  ASSUME TypeOK, NEW d \in Drains, Claim(d)
  PROVE  JobsTyped
<1>1. PICK r \in Candidates(d) :
        /\ jobs' = [Swept(d) EXCEPT ![r].status = "LEASED", ![r].attempts = @ + 1,
                                    ![r].lapsed = FALSE]
        /\ claims' = [claims EXCEPT ![d] = [range |-> r, attempt |-> jobs[r].attempts + 1,
                                            error |-> "none"]]
  BY DEF Claim
<1>2. r \in Ranges /\ Claimable(r) /\ jobs[r] \in Jobs
  BY CollectorShape DEF Candidates, Scope, Claim, Idle, TypeOK
<1>3. Swept(d)[r] = jobs[r]
  <2>1. jobs[r].attempts \in Nat /\ MaximumAttempts \in Nat BY <1>2, BarAssumption DEF Jobs
  <2>2. jobs[r].attempts < MaximumAttempts BY <1>2 DEF Claimable
  <2>3. ~Exhausted(r) BY <2>1, <2>2 DEF Exhausted
  <2> QED BY <1>2, <2>3, SweptType
<1>4. jobs[r].attempts + 1 \in 1..MaximumAttempts
  BY <1>2, BarAssumption DEF Claimable, Jobs
<1>5. jobs' \in [Ranges -> Jobs]
  <2> DEFINE job == [jobs[r] EXCEPT !.status = "LEASED", !.attempts = @ + 1, !.lapsed = FALSE]
  <2>0. jobs[r].attempts + 1 \in 0..MaximumAttempts BY <1>4, BarAssumption
  <2>1. job \in Jobs BY <1>2, <2>0 DEF Jobs
  <2>2. jobs' = [Swept(d) EXCEPT ![r] = job] BY <1>1, <1>2, <1>3, SweptType
  <2> HIDE DEF job
  <2> QED BY <1>2, <2>1, <2>2, SweptType
<1>6. claims' \in [Drains -> Claims \cup {None}]
  BY <1>1, <1>2, <1>4 DEF TypeOK, Claims
<1> QED BY <1>5, <1>6 DEF JobsTyped, Claim

LEMMA DiscoverTyped ==
  ASSUME TypeOK, NEW d \in Drains
  PROVE  /\ Discovered(d) \in [Ranges -> Jobs]
         /\ \A r \in Ranges : Discovered(d)[r] =
              IF r \in Undiscovered(d) THEN [jobs[r] EXCEPT !.status = "PENDING"] ELSE Swept(d)[r]
<1> DEFINE pending(r) == [jobs[r] EXCEPT !.status = "PENDING"]
<1>1. ASSUME NEW r \in Ranges PROVE pending(r) \in Jobs
  BY DEF TypeOK, Jobs
<1>2. Discovered(d) = [r \in Ranges |-> IF r \in Undiscovered(d) THEN pending(r) ELSE Swept(d)[r]]
  BY DEF Discovered
<1> HIDE DEF pending
<1>3. \A r \in Ranges :
        Discovered(d)[r] = IF r \in Undiscovered(d) THEN pending(r) ELSE Swept(d)[r]
  BY <1>2
<1>4. ASSUME NEW r \in Ranges PROVE Discovered(d)[r] \in Jobs
  BY <1>1, <1>3, SweptType
<1>5. Discovered(d) \in [Ranges -> Jobs] BY <1>2, <1>4
<1> QED BY <1>3, <1>5 DEF pending

LEMMA DiscoverOwnTyped ==
  ASSUME TypeOK, DiscoverOwn
  PROVE  jobs' \in [Ranges -> Jobs]
<1> DEFINE pending(r) == [jobs[r] EXCEPT !.status = "PENDING"]
<1>1. ASSUME NEW r \in Ranges PROVE pending(r) \in Jobs /\ jobs[r] \in Jobs
  BY DEF TypeOK, Jobs
<1>2. jobs' = [r \in Ranges |-> IF r \in Undiscovered(Collector) THEN pending(r) ELSE jobs[r]]
  BY DEF DiscoverOwn
<1> HIDE DEF pending
<1> QED BY <1>1, <1>2

LEMMA ClaimsTyped ==
  ASSUME TypeOK, NEW d \in Drains, claims[d] # None
  PROVE  claims[d] \in Claims /\ claims[d].range \in Ranges
BY DEF TypeOK, Claims

LEMMA FailedTyped ==
  ASSUME TypeOK, NEW d \in Drains, claims[d] # None
  PROVE  [jobs EXCEPT ![claims[d].range] = Failed(d)] \in [Ranges -> Jobs]
<1> DEFINE r == claims[d].range
<1>1. r \in Ranges /\ jobs[r] \in Jobs BY ClaimsTyped DEF TypeOK
<1>2. /\ [jobs[r] EXCEPT !.status = "BLOCKED"] \in Jobs
      /\ [jobs[r] EXCEPT !.status = "FAILED"] \in Jobs
      /\ [jobs[r] EXCEPT !.status = "PENDING", !.at = 0] \in Jobs
  BY <1>1 DEF Jobs
<1>3. Failed(d) \in Jobs BY <1>2 DEF Failed
<1> QED BY <1>1, <1>3 DEF TypeOK

LEMMA WorkTyped ==
  ASSUME TypeOK, NEW d \in Drains, Raise(d) \/ RecordFailure(d) \/ Complete(d)
  PROVE  JobsTyped
<1>1. claims[d] # None /\ claims[d] \in Claims
  BY ClaimsTyped DEF Raise, RecordFailure, Complete
<1>2. CASE Raise(d)
  <2>1. claims' \in [Drains -> Claims \cup {None}]
    BY <1>1, <1>2 DEF TypeOK, Raise, Claims
  <2> QED BY <1>2, <2>1 DEF TypeOK, JobsTyped, Raise
<1>3. CASE RecordFailure(d)
  <2>1. jobs' \in [Ranges -> Jobs] BY <1>1, <1>3, FailedTyped DEF TypeOK, RecordFailure
  <2> QED BY <1>3, <2>1 DEF TypeOK, JobsTyped, RecordFailure
<1>4. CASE Complete(d)
  <2>1. jobs' \in [Ranges -> Jobs] BY <1>1, <1>4 DEF TypeOK, Complete, Claims, Jobs
  <2> QED BY <1>4, <2>1 DEF TypeOK, JobsTyped, Complete
<1> QED BY <1>2, <1>3, <1>4

LEMMA TimeTyped ==
  ASSUME TypeOK, NEW r \in Ranges, Lapse(r) \/ Due(r)
  PROVE  JobsTyped
<1>1. CASE Lapse(r)
  <2>1. jobs' \in [Ranges -> Jobs] BY <1>1 DEF TypeOK, Lapse, Jobs
  <2> QED BY <1>1, <2>1 DEF TypeOK, JobsTyped, Lapse
<1>2. CASE Due(r)
  <2>1. 2 * clock + 1 \in Nat BY DEF TypeOK
  <2>2. jobs' \in [Ranges -> Jobs] BY <1>2, <2>1 DEF TypeOK, Due, Jobs
  <2> QED BY <1>2, <2>2 DEF TypeOK, JobsTyped, Due
<1> QED BY <1>1, <1>2

LEMMA CollectorInDrains == Collector \in Drains /\ Workers \subseteq Drains
BY DEF Drains

LEMMA OthersTyped ==
  ASSUME TypeOK,
         \/ Restart \/ FindNone \/ DiscoverOwn
         \/ \E w \in Workers : Discover(w) \/ Abandon(w)
  PROVE  JobsTyped
<1>1. CASE Restart BY <1>1 DEF TypeOK, JobsTyped, Restart
<1>2. CASE FindNone
  <2>1. jobs' \in [Ranges -> Jobs] BY <1>2, SweptType, CollectorInDrains DEF FindNone
  <2> QED BY <1>2, <2>1 DEF TypeOK, JobsTyped, FindNone, Idle
<1>3. CASE DiscoverOwn
  BY <1>3, DiscoverOwnTyped DEF TypeOK, JobsTyped, DiscoverOwn
<1>4. ASSUME NEW w \in Workers, Discover(w) PROVE JobsTyped
  <2>1. jobs' \in [Ranges -> Jobs] BY <1>4, DiscoverTyped, CollectorInDrains DEF Discover
  <2> QED BY <1>4, <2>1 DEF TypeOK, JobsTyped, Discover
<1>5. ASSUME NEW w \in Workers, Abandon(w) PROVE JobsTyped
  BY <1>5 DEF TypeOK, JobsTyped, Abandon
<1> QED BY <1>1, <1>2, <1>3, <1>4, <1>5

-----------------------------------------------------------------------------
(* What a step may do to a job and to a claim while requests are unchanged.  *)

JobStep(r) ==
  /\ jobs[r].status = "COMPLETE" => jobs'[r].status = "COMPLETE"
  /\ jobs'[r].status = "BLOCKED" => jobs[r].status = "BLOCKED" \/ Overtaken(r)
  /\ jobs[r].attempts <= jobs'[r].attempts
  /\ /\ jobs'[r].status = "LEASED"
     /\ ~jobs'[r].lapsed
     /\ jobs'[r].attempts = jobs[r].attempts
     => jobs[r].status = "LEASED" /\ ~jobs[r].lapsed

ClaimStep(d) ==
  \/ claims'[d] = None
  \/ claims'[d] = claims[d]
  \/ /\ claims'[d].attempt <= jobs'[claims'[d].range].attempts
     /\ claims'[d].error = "invalid" /\ Held(d)' => Overtaken(claims'[d].range)

LEMMA OvertakenKeeps ==
  ASSUME requests' = requests, NEW r \in Ranges, Overtaken(r), \A t \in Ranges : JobStep(t)
  PROVE  Overtaken(r)'
BY DEF Overtaken, JobStep, Content

LEMMA ClaimsKeep ==
  ASSUME IInv, TypeOK', requests' = requests,
         \A r \in Ranges : JobStep(r), \A d \in Drains : ClaimStep(d)
  PROVE  ClaimsSound' /\ OnlyOvertakenBlocked'
<1>1. OnlyOvertakenBlocked'
  BY OvertakenKeeps DEF IInv, OnlyOvertakenBlocked, JobStep
<1>2. ASSUME NEW d \in Drains, claims'[d] # None
      PROVE  /\ claims'[d].attempt <= jobs'[claims'[d].range].attempts
             /\ claims'[d].error = "invalid" /\ Held(d)' => Overtaken(claims[d].range)'
  <2> DEFINE r == claims'[d].range
  <2>0. r \in Ranges /\ claims'[d] \in Claims BY <1>2 DEF TypeOK, Claims
  <2>1. CASE claims'[d] = claims[d]
    <3>1. ClaimSound(d) BY DEF IInv, ClaimsSound
    <3>2. /\ claims[d].attempt <= jobs[r].attempts
          /\ claims[d].error = "invalid" /\ Held(d) => Overtaken(r)
      BY <1>2, <2>1, <3>1 DEF ClaimSound
    <3>3. /\ claims[d].attempt \in Nat
          /\ jobs[r].attempts \in Nat /\ jobs'[r].attempts \in Nat
      BY <2>0, <2>1, BarAssumption DEF IInv, TypeOK, Claims, Jobs
    <3>4. JobStep(r) BY <2>0
    <3>5. claims[d].attempt <= jobs'[r].attempts
      BY <3>2, <3>3, <3>4 DEF JobStep
    <3>6. ASSUME Held(d)' PROVE Held(d)
      BY <2>1, <3>2, <3>3, <3>4, <3>6 DEF Held, JobStep
    <3>7. Overtaken(r) => Overtaken(claims[d].range)'
      BY <2>0, OvertakenKeeps
    <3> QED BY <2>1, <3>2, <3>5, <3>6, <3>7
  <2>2. CASE claims'[d] # claims[d]
    <3>1. ClaimStep(d) OBVIOUS
    <3>2. Overtaken(r) => Overtaken(claims[d].range)'
      BY <2>0, OvertakenKeeps
    <3> QED BY <1>2, <2>2, <3>1, <3>2 DEF ClaimStep
  <2> QED BY <2>1, <2>2
<1>3. ClaimsSound'
  BY <1>2 DEF ClaimsSound, ClaimSound
<1> QED BY <1>1, <1>3

(* The tables agree with the batches that are materialized while these are the same. *)
LEMMA TablesKeep ==
  ASSUME IInv, UNCHANGED <<requests, tables>>,
         \A r \in Ranges : jobs'[r].status = "COMPLETE" <=> jobs[r].status = "COMPLETE"
  PROVE  CompleteIsCurrent' /\ CurrentIsNewest' /\ CatalogFounded'
<1> USE DEF IInv, tables
<1>1. CompleteIsCurrent' BY DEF CompleteIsCurrent
<1>2. CurrentIsNewest' BY DEF CurrentIsNewest
<1>3. ASSUME NEW b \in Bars, NEW c \in Contents, catalog'[b][c] # 0
      PROVE  Origin(b, c)'
  <2>1. Origin(b, c) BY <1>3 DEF CatalogFounded
  <2> QED BY <2>1 DEF Origin, Content
<1> QED BY <1>1, <1>2, <1>3 DEF CatalogFounded

(* The ledger and the watermark agree with the batches that are recorded. *)
LEMMA LedgerKeeps ==
  ASSUME IInv, UNCHANGED <<requests, clock, watermark, cutoff>>,
         \A r \in Ranges : Recorded(r)' <=> Recorded(r),
         collector' = collector \/ collector'.pc \notin {"sending", "fetched"}
  PROVE  ResponsesTimed' /\ CollectorKnows' /\ WatermarkCovered'
<1> USE DEF IInv
<1>1. ResponsesTimed' BY DEF ResponsesTimed
<1>2. CollectorKnows' BY DEF CollectorKnows
<1>3. WatermarkCovered' BY DEF WatermarkCovered
<1> QED BY <1>1, <1>2, <1>3

(* A step that leaves the ledger, the watermark and the tables alone. *)
RoutineJob(r) ==
  /\ JobStep(r)
  /\ jobs'[r].status = "COMPLETE" <=> jobs[r].status = "COMPLETE"
  /\ jobs'[r].status = "none" <=> jobs[r].status = "none"
Routine ==
  /\ UNCHANGED tables
  /\ \A r \in Ranges : RoutineJob(r)
  /\ \A d \in Drains : ClaimStep(d)

LEMMA RoutineKeeps ==
  ASSUME IInv, JobsTyped, Routine
  PROVE  IInv'
<1>1. TypeOK' BY JobsTypedKeepsType DEF IInv, Routine
<1>2. UNCHANGED <<requests, clock, watermark, cutoff>>
  BY DEF JobsTyped, source, ledger
<1>3. ClaimsSound' /\ OnlyOvertakenBlocked'
  BY <1>1, <1>2, ClaimsKeep DEF Routine, RoutineJob
<1>4. CompleteIsCurrent' /\ CurrentIsNewest' /\ CatalogFounded'
  BY <1>2, TablesKeep DEF Routine, RoutineJob
<1>5. collector' = collector \/ collector'.pc \notin {"sending", "fetched"}
  BY CollectorShape DEF IInv, JobsTyped, Resting
<1>6. \A r \in Ranges : Recorded(r)' <=> Recorded(r)
  BY DEF Routine, RoutineJob, Recorded
<1>7. ResponsesTimed' /\ CollectorKnows' /\ WatermarkCovered'
  BY <1>2, <1>5, <1>6, LedgerKeeps
<1> QED BY <1>1, <1>3, <1>4, <1>7 DEF IInv

LEMMA Unchanged ==
  ASSUME TypeOK, NEW r \in Ranges, jobs'[r] = jobs[r]
  PROVE  RoutineJob(r)
BY DEF TypeOK, Jobs, RoutineJob, JobStep

LEMMA SweptRoutine ==
  ASSUME TypeOK, NEW d \in Drains, NEW r \in Ranges, jobs'[r] = Swept(d)[r]
  PROVE  RoutineJob(r)
<1>1. CASE Swept(d)[r] = jobs[r] BY <1>1, Unchanged
<1>2. CASE /\ Exhausted(r)
           /\ Swept(d)[r] = [jobs[r] EXCEPT !.status = "FAILED", !.lapsed = FALSE]
  BY <1>2 DEF TypeOK, Jobs, RoutineJob, JobStep, Exhausted
<1> QED BY <1>1, <1>2, SweptType

LEMMA PendingRoutine ==
  ASSUME TypeOK, NEW d \in Drains, NEW r \in Undiscovered(d), r \in Ranges,
         jobs'[r] = [jobs[r] EXCEPT !.status = "PENDING"]
  PROVE  RoutineJob(r)
BY DEF TypeOK, Jobs, RoutineJob, JobStep, Undiscovered

LEMMA ClaimKeeps ==
  ASSUME IInv, NEW d \in Drains, Claim(d)
  PROVE  IInv'
<1> USE DEF IInv
<1>1. JobsTyped BY ClaimTyped
<1>2. PICK r \in Candidates(d) :
        /\ jobs' = [Swept(d) EXCEPT ![r].status = "LEASED", ![r].attempts = @ + 1,
                                    ![r].lapsed = FALSE]
        /\ claims' = [claims EXCEPT ![d] = [range |-> r, attempt |-> jobs[r].attempts + 1,
                                            error |-> "none"]]
  BY DEF Claim
<1>3. r \in Ranges /\ Claimable(r)
  BY CollectorShape DEF Candidates, Scope, Claim, Idle
<1>4. jobs[r] \in Jobs /\ jobs[r].attempts \in Nat
  BY <1>3, BarAssumption DEF TypeOK, Jobs
<1>5. Swept(d)[r] = jobs[r]
  <2>1. ~Exhausted(r) BY <1>3, <1>4, BarAssumption DEF Exhausted, Claimable
  <2> QED BY <1>3, <2>1, SweptType
<1>6. jobs'[r] = [jobs[r] EXCEPT !.status = "LEASED", !.attempts = @ + 1, !.lapsed = FALSE]
  BY <1>2, <1>3, <1>5, SweptType
<1>7. jobs'[r].status = "LEASED" /\ jobs'[r].attempts = jobs[r].attempts + 1
  BY <1>4, <1>6 DEF Jobs
<1>8. RoutineJob(r) BY <1>3, <1>4, <1>7 DEF RoutineJob, JobStep, Claimable
<1>9. ASSUME NEW s \in Ranges, s # r PROVE RoutineJob(s)
  BY <1>2, <1>9, SweptType, SweptRoutine
<1>10. ClaimStep(d)
  <2>1. claims'[d] = [range |-> r, attempt |-> jobs[r].attempts + 1, error |-> "none"]
    BY <1>2 DEF TypeOK
  <2>2. /\ claims'[d].error = "none" /\ claims'[d].range = r
        /\ claims'[d].attempt = jobs[r].attempts + 1
    BY <2>1
  <2> QED BY <1>4, <1>7, <2>2 DEF ClaimStep
<1>11. ASSUME NEW e \in Drains, e # d PROVE ClaimStep(e)
  BY <1>2, <1>11 DEF ClaimStep, TypeOK
<1>12. UNCHANGED tables BY DEF Claim
<1> QED BY <1>1, <1>8, <1>9, <1>10, <1>11, <1>12, RoutineKeeps DEF Routine

LEMMA DrainKeepsClaims ==
  ASSUME claims' = claims
  PROVE  \A d \in Drains : ClaimStep(d)
BY DEF ClaimStep

LEMMA OthersKeep ==
  ASSUME IInv,
         \/ Restart \/ FindNone \/ DiscoverOwn
         \/ \E w \in Workers : Discover(w) \/ Abandon(w)
  PROVE  IInv'
<1> USE DEF IInv
<1>1. JobsTyped BY OthersTyped
<1>2. CASE Restart
  <2>1. \A r \in Ranges : RoutineJob(r) BY <1>2, Unchanged DEF Restart
  <2>2. \A d \in Drains : ClaimStep(d) BY <1>2 DEF Restart, ClaimStep, TypeOK
  <2> QED BY <1>1, <1>2, <2>1, <2>2, RoutineKeeps DEF Routine, Restart
<1>3. CASE FindNone
  <2>1. \A r \in Ranges : RoutineJob(r) BY <1>3, SweptRoutine, CollectorInDrains DEF FindNone
  <2> QED BY <1>1, <1>3, <2>1, DrainKeepsClaims, RoutineKeeps DEF Routine, FindNone
<1>4. CASE DiscoverOwn
  <2>1. ASSUME NEW r \in Ranges PROVE RoutineJob(r)
    BY <1>4, Unchanged, PendingRoutine, CollectorInDrains DEF DiscoverOwn
  <2> QED BY <1>1, <1>4, <2>1, DrainKeepsClaims, RoutineKeeps DEF Routine, DiscoverOwn
<1>5. ASSUME NEW w \in Workers, Discover(w) PROVE IInv'
  <2>0. w \in Drains BY CollectorInDrains
  <2>1. ASSUME NEW r \in Ranges PROVE RoutineJob(r)
    BY <1>5, <2>0, DiscoverTyped, SweptRoutine, PendingRoutine DEF Discover
  <2> QED BY <1>1, <1>5, <2>1, DrainKeepsClaims, RoutineKeeps DEF Routine, Discover
<1>6. ASSUME NEW w \in Workers, Abandon(w) PROVE IInv'
  <2>1. \A r \in Ranges : RoutineJob(r) BY <1>6, Unchanged DEF Abandon
  <2>2. \A d \in Drains : ClaimStep(d) BY <1>6 DEF Abandon, ClaimStep, TypeOK
  <2> QED BY <1>1, <1>6, <2>1, <2>2, RoutineKeeps DEF Routine, Abandon
<1> QED BY <1>2, <1>3, <1>4, <1>5, <1>6

LEMMA TimeKeeps ==
  ASSUME IInv, NEW r \in Ranges, Lapse(r) \/ Due(r)
  PROVE  IInv'
<1> USE DEF IInv
<1>1. JobsTyped BY TimeTyped
<1>2. RoutineJob(r) BY DEF TypeOK, Jobs, RoutineJob, JobStep, Lapse, Due
<1>3. ASSUME NEW s \in Ranges, s # r PROVE RoutineJob(s)
  BY <1>3, Unchanged DEF TypeOK, Lapse, Due
<1> QED BY <1>1, <1>2, <1>3, DrainKeepsClaims, RoutineKeeps DEF Routine, Lapse, Due

(* A conflict is with a batch that was observed later and is materialized. *)
LEMMA ConflictOvertaken ==
  ASSUME IInv, NEW r \in Ranges, Conflicts(r)
  PROVE  Overtaken(r)
<1>1. PICK b \in BarsOf(r) : catalog[b][Content(r, b)] > requests[r].observed
  BY DEF Conflicts
<1>2. b \in Bars /\ Content(r, b) \in Contents /\ requests[r].observed \in Nat
  BY <1>1, RangeShape DEF IInv, TypeOK, Requests, Content
<1>3. catalog[b][Content(r, b)] \in Nat BY <1>2 DEF IInv, TypeOK
<1>4. Origin(b, Content(r, b)) BY <1>1, <1>2, <1>3 DEF IInv, CatalogFounded
<1> QED BY <1>1, <1>4 DEF Origin, Overtaken

LEMMA RaiseKeeps ==
  ASSUME IInv, NEW d \in Drains, Raise(d)
  PROVE  IInv'
<1> USE DEF IInv
<1>1. JobsTyped BY WorkTyped
<1>2. \A r \in Ranges : RoutineJob(r) BY Unchanged DEF Raise
<1>3. claims[d] \in Claims /\ claims[d].range \in Ranges
  BY ClaimsTyped DEF Raise
<1>4. ClaimStep(d)
  <2>1. claims[d].attempt <= jobs[claims[d].range].attempts
    BY DEF Raise, ClaimsSound, ClaimSound
  <2>2. /\ claims'[d].range = claims[d].range /\ claims'[d].attempt = claims[d].attempt
        /\ jobs' = jobs
    BY <1>3 DEF Raise, TypeOK, Claims
  <2>3. claims'[d].error = "invalid" => ~Held(d) \/ Conflicts(claims[d].range)
    BY <1>3 DEF Raise, TypeOK, Claims
  <2>4. Held(d)' => Held(d) BY <2>2 DEF Held
  <2> QED BY <1>3, <2>1, <2>2, <2>3, <2>4, ConflictOvertaken DEF ClaimStep
<1>5. ASSUME NEW e \in Drains, e # d PROVE ClaimStep(e)
  BY <1>5 DEF ClaimStep, TypeOK, Raise
<1> QED BY <1>1, <1>2, <1>4, <1>5, RoutineKeeps DEF Routine, Raise

LEMMA RecordFailureKeeps ==
  ASSUME IInv, NEW d \in Drains, RecordFailure(d)
  PROVE  IInv'
<1> USE DEF IInv
<1> DEFINE r == claims[d].range
<1>1. JobsTyped BY WorkTyped
<1>2. claims[d] \in Claims /\ r \in Ranges BY ClaimsTyped DEF RecordFailure
<1>3. RoutineJob(r)
  <2>1. CASE ~Held(d) BY <1>2, <2>1, Unchanged DEF RecordFailure
  <2>2. CASE Held(d)
    <3>1. jobs'[r] = Failed(d) BY <1>2, <2>2 DEF RecordFailure, TypeOK
    <3>2. /\ jobs[r] \in Jobs /\ jobs[r].status = "LEASED"
          /\ claims[d].error = "invalid" => Overtaken(r)
      BY <1>2, <2>2 DEF RecordFailure, TypeOK, Held, ClaimsSound, ClaimSound
    <3>3. /\ jobs'[r].attempts = jobs[r].attempts
          /\ jobs'[r].status \in {"BLOCKED", "FAILED", "PENDING"}
          /\ jobs'[r].status = "BLOCKED" => claims[d].error = "invalid"
      BY <3>1, <3>2 DEF Failed, Jobs
    <3> QED BY <3>2, <3>3 DEF RoutineJob, JobStep, Jobs
  <2> QED BY <2>1, <2>2
<1>4. ASSUME NEW s \in Ranges, s # r PROVE RoutineJob(s)
  BY <1>2, <1>4, Unchanged DEF TypeOK, RecordFailure
<1>5. \A e \in Drains : ClaimStep(e) BY DEF ClaimStep, TypeOK, RecordFailure
<1> QED BY <1>1, <1>3, <1>4, <1>5, RoutineKeeps DEF Routine, RecordFailure

-----------------------------------------------------------------------------
(* A batch is materialized.                                                  *)

LEMMA CataloguedValue ==
  ASSUME IInv, NEW d \in Drains, Complete(d), NEW b \in Bars, NEW c \in Contents
  PROVE  LET r == claims[d].range
         IN /\ catalog'[b][c] =
                 IF b \in BarsOf(r) /\ c = Content(r, b) /\ catalog[b][c] = 0
                 THEN requests[r].observed ELSE catalog[b][c]
            /\ catalog[b][c] \in 0..clock
BY DEF Complete, Persist, Catalogued, IInv, TypeOK

LEMMA CompletedBatch ==
  ASSUME IInv, NEW d \in Drains, Complete(d)
  PROVE  LET r == claims[d].range
         IN /\ r \in Ranges /\ claims[d] \in Claims
            /\ jobs[r].status = "LEASED"
            /\ jobs' = [jobs EXCEPT ![r].status = "COMPLETE"]
            /\ jobs'[r].status = "COMPLETE"
            /\ requests[r].observed \in 1..clock
            /\ \A b \in Bars : Content(r, b) \in Contents
<1> DEFINE r == claims[d].range
<1>1. r \in Ranges /\ claims[d] \in Claims BY ClaimsTyped DEF IInv, Complete
<1>2. jobs[r].status = "LEASED" BY DEF Complete, Held
<1>3. Recorded(r) BY <1>2 DEF Recorded
<1>4. requests[r].observed \in 1..clock
  BY <1>1, <1>3 DEF IInv, ResponsesTimed, TypeOK, Requests
<1>5. \A b \in Bars : Content(r, b) \in Contents
  BY <1>1 DEF IInv, TypeOK, Requests, Content
<1>6. jobs' = [jobs EXCEPT ![r].status = "COMPLETE"] BY DEF Complete
<1>7. jobs'[r].status = "COMPLETE" BY <1>1, <1>6 DEF IInv, TypeOK, Jobs
<1> QED BY <1>1, <1>2, <1>4, <1>5, <1>6, <1>7

LEMMA PersistKeepsNewest ==
  ASSUME IInv, NEW d \in Drains, Complete(d), NEW b \in Bars
  PROVE  IF current'[b] = None THEN \A c \in Contents : catalog'[b][c] = 0
         ELSE /\ current'[b] \in Contents
              /\ catalog'[b][current'[b]] # 0
              /\ \A c \in Contents : catalog'[b][c] <= catalog'[b][current'[b]]
<1> DEFINE r == claims[d].range
           k == Content(r, b)
<1>0. /\ k \in Contents /\ requests[r].observed \in 1..clock /\ clock \in Nat
      /\ current[b] \in Contents \cup {None} /\ None \notin Contents
  BY CompletedBatch, BarAssumption DEF IInv, TypeOK
<1>1. IF current[b] = None THEN \A c \in Contents : catalog[b][c] = 0
      ELSE /\ catalog[b][current[b]] # 0
           /\ \A c \in Contents : catalog[b][c] <= catalog[b][current[b]]
  BY DEF IInv, CurrentIsNewest
<1>2. current'[b] = IF b \in BarsOf(r) /\ Supersedes(b, k) THEN k ELSE current[b]
  BY DEF Complete, Persist
<1>3. \A c \in Contents :
        /\ catalog'[b][c] = IF b \in BarsOf(r) /\ c = k /\ catalog[b][c] = 0
                            THEN requests[r].observed ELSE catalog[b][c]
        /\ catalog[b][c] \in Nat /\ catalog'[b][c] \in Nat
  BY <1>0, CataloguedValue
<1>4. Supersedes(b, k) <=> current[b] = None \/ catalog'[b][current[b]] <= catalog'[b][k]
  BY DEF Supersedes
<1> HIDE DEF r, k
<1>5. CASE b \notin BarsOf(r) BY <1>0, <1>1, <1>2, <1>3, <1>5
<1>6. CASE b \in BarsOf(r) /\ current[b] = None
  BY <1>0, <1>1, <1>2, <1>3, <1>4, <1>6
<1>7. CASE b \in BarsOf(r) /\ current[b] # None
  BY <1>0, <1>1, <1>2, <1>3, <1>4, <1>7
<1> QED BY <1>5, <1>6, <1>7

LEMMA CompleteKeepsTables ==
  ASSUME IInv, NEW d \in Drains, Complete(d)
  PROVE  CompleteIsCurrent' /\ CatalogFounded'
<1> DEFINE r == claims[d].range
<1>0. /\ r \in Ranges /\ jobs'[r].status = "COMPLETE" /\ requests' = requests
      /\ jobs' = [jobs EXCEPT ![r].status = "COMPLETE"]
      /\ \A b \in Bars : Content(r, b) \in Contents
  BY CompletedBatch DEF Complete, ledger
<1>1. \A t \in Ranges : t # r => jobs'[t] = jobs[t]
  BY <1>0 DEF IInv, TypeOK
<1>2. ASSUME NEW t \in Ranges, jobs'[t].status = "COMPLETE", NEW b \in BarsOf(t)
      PROVE  current'[b] # None
  <2>0. b \in Bars BY <1>2, RangeShape
  <2>1. current'[b] = IF b \in BarsOf(r) /\ Supersedes(b, Content(r, b))
                      THEN Content(r, b) ELSE current[b]
    BY <2>0 DEF Complete, Persist
  <2>2. CASE t = r BY <1>0, <2>0, <2>1, <2>2, <1>2, BarAssumption DEF Supersedes
  <2>3. CASE t # r
    BY <1>0, <1>1, <1>2, <2>0, <2>1, <2>3, BarAssumption DEF IInv, CompleteIsCurrent
  <2> QED BY <2>2, <2>3
<1>3. ASSUME NEW b \in Bars, NEW c \in Contents, catalog'[b][c] # 0
      PROVE  Origin(b, c)'
  <2>1. CASE catalog'[b][c] = catalog[b][c]
    <3>1. PICK t \in Ranges :
            /\ jobs[t].status = "COMPLETE" /\ b \in BarsOf(t)
            /\ Content(t, b) = c /\ requests[t].observed = catalog[b][c]
      BY <1>3, <2>1 DEF IInv, CatalogFounded, Origin
    <3>2. jobs'[t].status = "COMPLETE" BY <1>0, <1>1, <3>1
    <3> QED BY <1>0, <2>1, <3>1, <3>2 DEF Origin, Content
  <2>2. CASE catalog'[b][c] # catalog[b][c]
    <3>1. b \in BarsOf(r) /\ c = Content(r, b) /\ catalog'[b][c] = requests[r].observed
      BY <2>2, CataloguedValue
    <3> QED BY <1>0, <3>1 DEF Origin, Content
  <2> QED BY <2>1, <2>2
<1>4. CompleteIsCurrent' BY <1>2 DEF CompleteIsCurrent
<1> QED BY <1>3, <1>4 DEF CatalogFounded

LEMMA CompleteKeeps ==
  ASSUME IInv, NEW d \in Drains, Complete(d)
  PROVE  IInv'
<1> DEFINE r == claims[d].range
<1>0. /\ r \in Ranges /\ jobs[r].status = "LEASED" /\ jobs'[r].status = "COMPLETE"
      /\ jobs' = [jobs EXCEPT ![r].status = "COMPLETE"]
      /\ requests[r].observed \in 1..clock
      /\ \A b \in Bars : Content(r, b) \in Contents
  BY CompletedBatch
<1>1. \A t \in Ranges : t # r => jobs'[t] = jobs[t]
  BY <1>0 DEF IInv, TypeOK
<1>2. JobsTyped /\ UNCHANGED <<cutoff, clock, requests, watermark>>
  BY WorkTyped DEF IInv, Complete, source, ledger
<1>3. TypeOK'
  <2>1. \A b \in Bars, c \in Contents : catalog'[b][c] \in 0..clock
    BY <1>0, CataloguedValue
  <2>2. catalog' = Catalogued(r) BY DEF Complete, Persist
  <2>3. catalog' \in [Bars -> [Contents -> 0..clock]]
    <3>1. ASSUME NEW b \in Bars PROVE catalog'[b] \in [Contents -> 0..clock]
      BY <2>1, <2>2 DEF Catalogued
    <3> QED BY <2>2, <3>1 DEF Catalogued
  <2>4. current' \in [Bars -> Contents \cup {None}]
    <3>1. current' = [b \in Bars |-> IF b \in BarsOf(r) /\ Supersedes(b, Content(r, b))
                                     THEN Content(r, b) ELSE current[b]]
      BY DEF Complete, Persist
    <3> QED BY <1>0, <3>1 DEF IInv, TypeOK
  <2>5. collector' \in {Resting} \cup
          [pc : {"sending", "fetched", "draining", "discovering"}, range : Ranges]
    BY DEF Complete, IInv, TypeOK
  <2> QED BY <1>2, <2>3, <2>4, <2>5 DEF IInv, TypeOK, JobsTyped, source, ledger
<1>4. \A t \in Ranges : JobStep(t)
  <2>1. JobStep(r) BY <1>0 DEF IInv, TypeOK, Jobs, JobStep
  <2> QED BY <1>1, <2>1, Unchanged DEF IInv, RoutineJob
<1>5. \A e \in Drains : ClaimStep(e) BY DEF Complete, ClaimStep, IInv, TypeOK
<1>6. ClaimsSound' /\ OnlyOvertakenBlocked' BY <1>2, <1>3, <1>4, <1>5, ClaimsKeep
<1>7. \A t \in Ranges : Recorded(t)' <=> Recorded(t) BY <1>0, <1>1 DEF Recorded
<1>8. collector' = collector \/ collector'.pc \notin {"sending", "fetched"}
  BY DEF Complete, Resting
<1>9. ResponsesTimed' /\ CollectorKnows' /\ WatermarkCovered'
  BY <1>2, <1>7, <1>8, LedgerKeeps
<1>10. CurrentIsNewest' BY PersistKeepsNewest DEF CurrentIsNewest
<1> QED BY <1>3, <1>6, <1>9, <1>10, CompleteKeepsTables DEF IInv

-----------------------------------------------------------------------------
(* The collector asks, and records what it got.                              *)

LEMMA RequestKeeps ==
  ASSUME IInv, UNCHANGED <<jobs, claims, tables>>,
         \A r \in Ranges : Recorded(r) => requests'[r] = requests[r]
  PROVE  /\ CompleteIsCurrent' /\ CurrentIsNewest' /\ CatalogFounded'
         /\ ClaimsSound' /\ OnlyOvertakenBlocked'
<1> USE DEF IInv, tables
<1>1. CompleteIsCurrent' BY DEF CompleteIsCurrent
<1>2. CurrentIsNewest' BY DEF CurrentIsNewest
<1>3. ASSUME NEW b \in Bars, NEW c \in Contents, catalog'[b][c] # 0
      PROVE  Origin(b, c)'
  <2>1. PICK t \in Ranges :
          /\ jobs[t].status = "COMPLETE" /\ b \in BarsOf(t)
          /\ Content(t, b) = c /\ requests[t].observed = catalog[b][c]
    BY <1>3 DEF CatalogFounded, Origin
  <2>2. requests'[t] = requests[t] BY <2>1 DEF Recorded
  <2> QED BY <2>1, <2>2 DEF Origin, Content
<1>4. CatalogFounded' BY <1>3 DEF CatalogFounded
<1>5. ASSUME NEW r \in Ranges, Recorded(r), Overtaken(r) PROVE Overtaken(r)'
  <2>1. PICK t \in Ranges :
          /\ jobs[t].status = "COMPLETE"
          /\ requests[t].observed > requests[r].observed
          /\ \E b \in BarsOf(r) \cap BarsOf(t) : Content(r, b) = Content(t, b)
    BY <1>5 DEF Overtaken
  <2>2. requests'[t] = requests[t] /\ requests'[r] = requests[r]
    BY <1>5, <2>1 DEF Recorded
  <2> QED BY <2>1, <2>2 DEF Overtaken, Content
<1>6. OnlyOvertakenBlocked' BY <1>5 DEF OnlyOvertakenBlocked, Recorded
<1>7. ASSUME NEW d \in Drains PROVE ClaimSound(d)'
  <2>1. ClaimSound(d) BY DEF ClaimsSound
  <2>2. Held(d)' => Held(d) /\ Recorded(claims[d].range) BY DEF Held, Recorded
  <2>3. claims[d] # None => claims[d].range \in Ranges BY ClaimsTyped
  <2> QED BY <1>5, <2>1, <2>2, <2>3 DEF ClaimSound
<1>8. ClaimsSound' BY <1>7 DEF ClaimsSound
<1> QED BY <1>1, <1>2, <1>4, <1>6, <1>8

LEMMA ReserveKeeps ==
  ASSUME IInv, NEW now \in cutoff..Close, Reserve(now)
  PROVE  IInv'
<1> DEFINE r == [from |-> RequestStart, to |-> now]
<1>0. /\ r \in Ranges /\ r.from <= watermark /\ r.to = now
      /\ requests[r].state \in {"none", "COMPLETE"}
      /\ collector' = [pc |-> IF requests[r].state = "none" THEN "sending" ELSE "fetched",
                       range |-> r]
      /\ requests' = IF requests[r].state = "none" THEN [requests EXCEPT ![r].state = "RESERVED"]
                     ELSE requests
      /\ UNCHANGED <<clock, watermark, jobs, claims, tables>> /\ cutoff' = now
  BY PlannedRange DEF IInv, Reserve
<1>1. TypeOK' BY ReserveType
<1>2. requests \in [Ranges -> Requests] BY DEF IInv, TypeOK
<1> HIDE DEF r
<1>3. \A t \in Ranges : t # r => requests'[t] = requests[t] BY <1>0, <1>2
<1>4. requests[r].state = "none" =>
        requests'[r].state = "RESERVED" /\ requests'[r].observed = requests[r].observed
  BY <1>0, <1>2 DEF Requests
<1>5. \A t \in Ranges : Recorded(t) => requests'[t] = requests[t]
  BY <1>0, <1>3 DEF IInv, ResponsesTimed
<1>6. ResponsesTimed'
  BY <1>0, <1>3, <1>4 DEF IInv, ResponsesTimed, Recorded
<1>7. CollectorKnows'
  BY <1>0, <1>4 DEF CollectorKnows
<1>8. WatermarkCovered' BY <1>0 DEF IInv, WatermarkCovered, Recorded
<1> QED BY <1>0, <1>1, <1>5, <1>6, <1>7, <1>8, RequestKeeps DEF IInv

LEMMA RespondKeeps ==
  ASSUME IInv, Respond
  PROVE  IInv'
<1> DEFINE r == collector.range
<1>0. r \in Ranges /\ requests[r].state = "RESERVED" /\ ~Recorded(r)
  BY CollectorShape DEF IInv, CollectorKnows, Respond, ResponsesTimed
<1>1. TypeOK' BY RespondType
<1>2. /\ requests'[r].state = "COMPLETE" /\ requests'[r].observed = clock + 1
      /\ \A t \in Ranges : t # r => requests'[t] = requests[t]
      /\ clock' = clock + 1 /\ clock \in Nat
      /\ UNCHANGED <<jobs, claims, tables, watermark, cutoff>>
  BY <1>0 DEF IInv, TypeOK, Respond
<1>3. collector' = [pc |-> "fetched", range |-> r] BY CollectorShape DEF IInv, Respond
<1>4. ResponsesTimed'
  <2>1. ASSUME NEW t \in Ranges
        PROVE  /\ requests'[t].observed <= clock'
               /\ requests'[t].state = "COMPLETE" => requests'[t].observed # 0
               /\ Recorded(t)' => requests'[t].state = "COMPLETE"
    <3>1. CASE t = r BY <1>2, <3>1
    <3>2. CASE t # r
      <4>1. requests[t].observed \in Nat BY DEF IInv, TypeOK, Requests
      <4> QED BY <1>2, <3>2, <4>1 DEF IInv, ResponsesTimed, Recorded
    <3> QED BY <3>1, <3>2
  <2> QED BY <2>1 DEF ResponsesTimed
<1>5. CollectorKnows' BY <1>2, <1>3 DEF IInv, CollectorKnows, Respond
<1>6. WatermarkCovered' BY <1>2 DEF IInv, WatermarkCovered, Recorded
<1>7. \A t \in Ranges : Recorded(t) => requests'[t] = requests[t] BY <1>0, <1>2
<1> QED BY <1>1, <1>2, <1>4, <1>5, <1>6, <1>7, RequestKeeps DEF IInv

LEMMA RefuseKeeps ==
  ASSUME IInv, Refuse
  PROVE  IInv'
<1> DEFINE r == collector.range
<1>0. r \in Ranges /\ requests[r].state = "RESERVED" /\ ~Recorded(r)
  BY CollectorShape DEF IInv, CollectorKnows, Refuse, ResponsesTimed
<1>1. TypeOK' BY RefuseType
<1>2. /\ requests'[r].state = "FAILED" /\ requests'[r].observed = requests[r].observed
      /\ \A t \in Ranges : t # r => requests'[t] = requests[t]
      /\ UNCHANGED <<jobs, claims, tables, watermark, cutoff, clock>>
  BY <1>0 DEF IInv, TypeOK, Requests, Refuse, source
<1>3. collector'.pc = "idle" BY DEF Refuse, Resting
<1>4. ResponsesTimed' BY <1>0, <1>2 DEF IInv, ResponsesTimed, Recorded
<1>5. CollectorKnows' BY <1>3 DEF CollectorKnows
<1>6. WatermarkCovered' BY <1>2 DEF IInv, WatermarkCovered, Recorded
<1>7. \A t \in Ranges : Recorded(t) => requests'[t] = requests[t] BY <1>0, <1>2
<1> QED BY <1>1, <1>2, <1>4, <1>5, <1>6, <1>7, RequestKeeps DEF IInv

LEMMA RecordKeeps ==
  ASSUME IInv, Record
  PROVE  IInv'
<1> DEFINE r == collector.range
<1>0. /\ r \in Ranges /\ requests[r].state = "COMPLETE"
      /\ r.from <= watermark /\ r.to \in 1..Close
      /\ UNCHANGED <<requests, clock, cutoff, claims, tables>>
      /\ collector'.pc = "draining"
  BY CollectorShape, RangeShape DEF IInv, CollectorKnows, Record, source, ledger
<1>1. TypeOK' BY RecordType
<1>2. /\ \A t \in Ranges : t # r => jobs'[t] = jobs[t]
      /\ jobs'[r] = jobs[r] \/
         (/\ jobs[r].status = "none"
          /\ jobs'[r].status = "recorded" /\ jobs'[r].attempts = jobs[r].attempts)
      /\ jobs'[r].status # "none"
  BY <1>0 DEF IInv, TypeOK, Jobs, Record, WithBatch
<1>3. \A t \in Ranges :
        /\ JobStep(t)
        /\ jobs'[t].status = "COMPLETE" <=> jobs[t].status = "COMPLETE"
        /\ Recorded(t)' <=> Recorded(t) \/ t = r
  <2>1. ASSUME NEW t \in Ranges, jobs'[t] = jobs[t] PROVE JobStep(t)
    BY <2>1, Unchanged DEF IInv, RoutineJob
  <2>2. jobs'[r] # jobs[r] => JobStep(r)
    BY <1>0, <1>2 DEF IInv, TypeOK, Jobs, JobStep
  <2>3. \A t \in Ranges : JobStep(t) BY <1>2, <2>1, <2>2
  <2> HIDE DEF r
  <2> QED BY <1>2, <2>3 DEF Recorded
<1>4. ClaimsSound' /\ OnlyOvertakenBlocked'
  BY <1>0, <1>1, <1>3, ClaimsKeep, DrainKeepsClaims
<1>5. CompleteIsCurrent' /\ CurrentIsNewest' /\ CatalogFounded'
  BY <1>0, <1>3, TablesKeep
<1>6. ResponsesTimed' BY <1>0, <1>3 DEF IInv, ResponsesTimed
<1>7. CollectorKnows' BY <1>0 DEF CollectorKnows
<1>8. WatermarkCovered'
  <2>1. watermark' = IF watermark < r.to THEN r.to ELSE watermark BY DEF Record, Advanced
  <2>2. watermark \in Nat BY BarAssumption DEF IInv, TypeOK
  <2>3. ASSUME NEW b \in 1..watermark' PROVE \E t \in Ranges : b \in BarsOf(t) /\ Recorded(t)'
    <3>1. CASE b <= watermark BY <1>3, <2>2, <3>1 DEF IInv, WatermarkCovered
    <3>2. CASE watermark < b
      <4>1. b \in BarsOf(r)
        BY <1>0, <2>1, <2>2, <3>2, RangeShape, BarAssumption DEF BarsOf
      <4>2. jobs'[r].status # "none" BY <1>2
      <4> HIDE DEF r
      <4> QED BY <1>0, <4>1, <4>2 DEF Recorded
    <3> QED BY <2>1, <2>2, <3>1, <3>2, <1>0
  <2> QED BY <2>3 DEF WatermarkCovered
<1> QED BY <1>1, <1>4, <1>5, <1>6, <1>7, <1>8 DEF IInv

-----------------------------------------------------------------------------
(* The invariant holds in every state.                                       *)

LEMMA InitIInv == Init => IInv
<1> SUFFICES ASSUME Init PROVE IInv
  OBVIOUS
<1>1. TypeOK BY InitType
<1>2. \A r \in Ranges : jobs[r].status = "none" /\ requests[r].state = "none"
                        /\ requests[r].observed = 0
  BY DEF Init, NoJob, NoRequest
<1>3. ResponsesTimed BY <1>2 DEF Init, ResponsesTimed, Recorded
<1>4. CollectorKnows BY DEF Init, Resting, CollectorKnows
<1>5. WatermarkCovered BY DEF Init, WatermarkCovered
<1>6. CompleteIsCurrent /\ OnlyOvertakenBlocked
  BY <1>2 DEF CompleteIsCurrent, OnlyOvertakenBlocked
<1>7. CurrentIsNewest /\ CatalogFounded
  BY DEF Init, CurrentIsNewest, CatalogFounded
<1>8. ClaimsSound BY DEF Init, ClaimsSound, ClaimSound
<1> QED BY <1>1, <1>3, <1>4, <1>5, <1>6, <1>7, <1>8 DEF IInv

LEMMA NextIInv == IInv /\ [Next]_vars => IInv'
<1> SUFFICES ASSUME IInv, [Next]_vars PROVE IInv'
  OBVIOUS
<1>1. ASSUME NEW now \in cutoff..Close, Reserve(now) PROVE IInv' BY <1>1, ReserveKeeps
<1>2. CASE Respond BY <1>2, RespondKeeps
<1>3. CASE Refuse BY <1>3, RefuseKeeps
<1>4. CASE Record BY <1>4, RecordKeeps
<1>5. ASSUME NEW d \in Drains, Work(d) PROVE IInv'
  BY <1>5, ClaimKeeps, CompleteKeeps, RaiseKeeps, RecordFailureKeeps DEF Work
<1>6. CASE \/ Restart \/ FindNone \/ DiscoverOwn
           \/ \E w \in Workers : Discover(w) \/ Abandon(w)
  BY <1>6, OthersKeep
<1>7. CASE TimePasses BY <1>7, TimeKeeps DEF TimePasses
<1>8. CASE UNCHANGED vars
  <2>1. JobsTyped BY <1>8 DEF vars, IInv, TypeOK, JobsTyped
  <2>2. \A r \in Ranges : RoutineJob(r) BY <1>8, Unchanged DEF vars, IInv
  <2> QED BY <1>8, <2>1, <2>2, DrainKeepsClaims, RoutineKeeps DEF vars, Routine
<1> QED BY <1>1, <1>2, <1>3, <1>4, <1>5, <1>6, <1>7, <1>8 DEF Next

LEMMA Invariance == Spec => []IInv
BY InitIInv, NextIInv, PTL DEF Spec

LEMMA CoveredImpliesNothingLost == IInv => NothingLost
<1> SUFFICES ASSUME IInv, NEW b \in 1..watermark, current[b] = None
             PROVE  \E r \in Ranges :
                      b \in BarsOf(r) /\ Recorded(r) /\ jobs[r].status # "COMPLETE"
  BY DEF NothingLost
<1>1. PICK r \in Ranges : b \in BarsOf(r) /\ Recorded(r) BY DEF IInv, WatermarkCovered
<1>2. jobs[r].status # "COMPLETE" BY <1>1 DEF IInv, CompleteIsCurrent
<1> QED BY <1>1, <1>2

(* Whatever the session, the overlap, the provider's corrections and the number   *)
(* of drains, every variable keeps its type and its bounds                        *)
(* (run_realtime_v2_incremental_equity.py, materialization_jobs.py).              *)
THEOREM TypeCorrect == Spec => []TypeOK
<1>1. IInv => TypeOK BY DEF IInv
<1> QED BY Invariance, <1>1, PTL

(* Whatever crashes, retries and competing drains there are, each bar at or below *)
(* the watermark is in the bar tables or in a recorded batch that was not         *)
(* materialized (acquire_equity_bars, process_developer_acquisition_job).         *)
THEOREM WatermarkVouches == Spec => []NothingLost
BY Invariance, CoveredImpliesNothingLost, PTL

(* In whatever order batches are materialized, the current content of a bar is    *)
(* the one first observed last (persist_realtime_equity_bars_cursor).             *)
THEOREM NewestIsCurrent == Spec => []CurrentIsNewest
<1>1. IInv => CurrentIsNewest BY DEF IInv
<1> QED BY Invariance, <1>1, PTL

(* A batch is blocked only if one observed later, with the same content of a bar, *)
(* was materialized before it (persist_realtime_equity_bars_cursor, fail).        *)
THEOREM BlockedIsOvertaken == Spec => []OnlyOvertakenBlocked
<1>1. IInv => OnlyOvertakenBlocked BY DEF IInv
<1> QED BY Invariance, <1>1, PTL

=============================================================================
