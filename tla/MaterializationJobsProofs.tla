--------------------- MODULE MaterializationJobsProofs ---------------------
(* What MaterializationJobs keeps for any number of windows, instruments,     *)
(* finalizer runs and revisions, and that it implements LeasedWork.           *)
EXTENDS MaterializationJobs, FiniteSetTheorems, TLAPS

(* A row has an owner while it is leased, and was claimed once it is not      *)
(* pending any more.                                                          *)
RowOK(row) ==
  /\ row \in JobRows /\ (row.status = "LEASED" <=> row.owner # None)
  /\ row.status # "PENDING" => row.epoch > 0

(* Jobs and barriers bind each other: a job is there for every member of a    *)
(* barrier that was opened, made from the input the barrier expects.          *)
JobsOK ==
  /\ jobs \in [DOMAIN jobs -> JobRows] /\ DOMAIN jobs \subseteq JobIds
  /\ \A id \in DOMAIN jobs :
       /\ RowOK(jobs[id])
       /\ barrier[id[1]] # Absent /\ expected[id[1]][id[2]] = id[3]

BarriersOK ==
  /\ barrier \in [Windows -> {Absent, "OPEN", "COMPLETE", "FAILED"}]
  /\ expected \in [Windows -> [Members -> Inputs \cup {None}]]
  /\ outcome \in [Windows -> [Members -> {None, "COMPLETE", "FAILED", "BLOCKED", "MISSING"}]]
  /\ \A w \in Windows, m \in Members :
       /\ barrier[w] = Absent => outcome[w][m] = None
       /\ barrier[w] # Absent => JobOf(w, m) \in DOMAIN jobs

(* What is committed is that of the completed jobs, by the claim that completed each. *)
OutputOK ==
  /\ output \in [DOMAIN output -> [input : Inputs, epoch : Nat]]
  /\ DOMAIN output = {id \in DOMAIN jobs : jobs[id].status = "COMPLETE"}
  /\ \A id \in DOMAIN output : output[id].input = id[3] /\ output[id].epoch = jobs[id].epoch

TablesOK == JobsOK /\ BarriersOK /\ OutputOK /\ MembersAgreeWithJobs /\ VerdictIsExact

Opened == {w \in Windows : barrier[w] # Absent}

(* A run past its seed has a barrier, and works on jobs that are there. *)
Fits(x, r, ids, opened) ==
  /\ x.pc \in {"claim", "work", "complete", "fail"} => x.rounds > 0
  /\ x.pc \in {"claim", "work", "complete", "fail", "evaluate"} => WindowOf[r] \in opened
  /\ \A c \in x.batch : c.id \in ids
  /\ x.pc \in {"complete", "fail"} => x.claim \in ClaimRows /\ x.claim.id \in ids
  /\ x.pc = "complete" => x.prepared = x.claim.id[3]

RunnersOK ==
  /\ runner \in [Runners -> RunnerRows]
  /\ \A r \in Runners : Fits(runner[r], r, DOMAIN jobs, Opened)

IInv ==
  /\ now \in Nat /\ bars \in [Windows -> [Members -> Revisions]]
  /\ TablesOK /\ RunnersOK

-----------------------------------------------------------------------------
(* Data.                                                                     *)

LEMMA ClockFinite == IsFiniteSet(0..MaxTime)
<1>1. MaxTime \in Nat BY JobAssumption
<1>2. IsFiniteSet({0}) BY FS_Singleton
<1>3. IsFiniteSet(1..MaxTime) BY <1>1, FS_Interval
<1>4. IsFiniteSet({0} \cup (1..MaxTime)) BY <1>2, <1>3, FS_Union
<1>5. 0..MaxTime = {0} \cup (1..MaxTime) BY <1>1
<1> QED BY <1>4, <1>5

LEMMA SubsetOfRevisions ==
  ASSUME NEW o \in Revisions, NEW known \in SUBSET o
  PROVE  known \in Revisions
<1>1. o \in SUBSET (0..MaxTime) /\ Cardinality(o) <= MaxRevisions BY DEF Revisions
<1>2. IsFiniteSet(0..MaxTime) BY ClockFinite
<1>3. IsFiniteSet(o) BY <1>1, <1>2, FS_Subset
<1>4. IsFiniteSet(known) /\ Cardinality(known) <= Cardinality(o) BY <1>3, FS_Subset
<1>5. Cardinality(known) \in Nat /\ Cardinality(o) \in Nat BY <1>3, <1>4, FS_CardinalityType
<1> QED BY <1>1, <1>4, <1>5, JobAssumption DEF Revisions

LEMMA RevisionAdded ==
  ASSUME NEW o \in Revisions, NEW t \in 0..MaxTime, Cardinality(o) < MaxRevisions, t \notin o
  PROVE  o \cup {t} \in Revisions
<1>1. o \in SUBSET (0..MaxTime) BY DEF Revisions
<1>2. IsFiniteSet(0..MaxTime) BY ClockFinite
<1>3. IsFiniteSet(o) BY <1>1, <1>2, FS_Subset
<1>4. Cardinality(o \cup {t}) = Cardinality(o) + 1 /\ Cardinality(o) \in Nat
  BY <1>3, FS_AddElement, FS_CardinalityType
<1> QED BY <1>1, <1>4, JobAssumption DEF Revisions

(* An input that is not ambiguous can be bound by a closure. *)
LEMMA InputTyped ==
  ASSUME bars \in [Windows -> [Members -> Revisions]],
         NEW w \in Windows, NEW m \in Members, NEW t \in Nat
  PROVE  InputAt(w, m, t).outcome # "PENDING" => InputAt(w, m, t) \in Inputs
<1> DEFINE known == {o \in bars[w][m] : o <= t}
<1>1. known \in Revisions BY SubsetOfRevisions
<1>2. Deadline[w] \in Nat BY JobAssumption
<1> QED BY <1>1, <1>2 DEF InputAt, Inputs

LEMMA JobIdParts ==
  ASSUME NEW id \in JobIds
  PROVE  /\ id[1] \in Windows /\ id[2] \in Members /\ id[3] \in Inputs
         /\ id = <<id[1], id[2], id[3]>>
BY DEF JobIds

LEMMA Quotient ==
  ASSUME NEW n \in Nat, NEW k \in Nat, k > 0
  PROVE  n \div k \in Nat
<1>1. n \div k \in Int OBVIOUS
<1>2. n \div k >= 0 BY SMTT(30)
<1> QED BY <1>1, <1>2

LEMMA RoundsTyped == Rounds \in Nat /\ Rounds > 0
<1>1. Cardinality(Members) \in Nat BY JobAssumption, FS_CardinalityType
<1>2. ClaimLimit \in Nat /\ ClaimLimit > 0 BY JobAssumption
<1>3. Cardinality(Members) + ClaimLimit - 1 \in Nat BY <1>1, <1>2
<1>4. (Cardinality(Members) + ClaimLimit - 1) \div ClaimLimit \in Nat BY <1>2, <1>3, Quotient
<1> QED BY <1>4 DEF Rounds

-----------------------------------------------------------------------------
(* The locals of a run.                                                      *)

(* One run goes on; jobs and barriers are added, never removed. *)
LEMMA Becomes ==
  ASSUME RunnersOK, NEW r \in Runners, NEW x \in RunnerRows,
         runner' = [runner EXCEPT ![r] = x],
         DOMAIN jobs \subseteq DOMAIN jobs', Opened \subseteq Opened',
         Fits(x, r, DOMAIN jobs', Opened')
  PROVE  RunnersOK'
<1>1. runner' \in [Runners -> RunnerRows] BY DEF RunnersOK
<1>2. ASSUME NEW q \in Runners PROVE Fits(runner'[q], q, DOMAIN jobs', Opened')
  <2>1. CASE q = r BY <2>1 DEF RunnersOK
  <2>2. CASE q # r
    <3>1. runner'[q] = runner[q] BY <2>2 DEF RunnersOK
    <3>2. Fits(runner[q], q, DOMAIN jobs, Opened) BY DEF RunnersOK
    <3> QED BY <3>1, <3>2 DEF Fits
  <2> QED BY <2>1, <2>2
<1> QED BY <1>1, <1>2 DEF RunnersOK

LEMMA IdleTyped ==
  /\ Idle \in RunnerRows /\ [Idle EXCEPT !.pc = "ended"] \in RunnerRows
  /\ Idle.batch = {} /\ Idle.pc = "off"
  /\ [Idle EXCEPT !.pc = "ended"].batch = {} /\ [Idle EXCEPT !.pc = "ended"].pc = "ended"
BY DEF Idle, RunnerRows

LEMMA Ends ==
  ASSUME RunnersOK, NEW r \in Runners, Finish(r),
         DOMAIN jobs \subseteq DOMAIN jobs', Opened \subseteq Opened'
  PROVE  RunnersOK'
<1> DEFINE x == [Idle EXCEPT !.pc = "ended"]
<1>1. x \in RunnerRows /\ x.batch = {} /\ x.pc = "ended" BY IdleTyped
<1>2. runner' = [runner EXCEPT ![r] = x] BY DEF Finish
<1> HIDE DEF x
<1>3. Fits(x, r, DOMAIN jobs', Opened') BY <1>1 DEF Fits
<1> QED BY <1>1, <1>2, <1>3, Becomes

(* A run takes the next job of its batch, the next round, or the verdict. *)
LEMMA Proceeds ==
  ASSUME RunnersOK, NEW r \in Runners, runner[r].pc \in {"complete", "fail"}, AfterJob(r),
         DOMAIN jobs \subseteq DOMAIN jobs', Opened \subseteq Opened'
  PROVE  RunnersOK'
<1> DEFINE rest == runner[r].batch # {}
           left == IF rest THEN runner[r].rounds ELSE runner[r].rounds - 1
           pc == IF rest THEN "work" ELSE IF left = 0 THEN "evaluate" ELSE "claim"
           x == [runner[r] EXCEPT !.pc = pc, !.claim = NoClaim, !.prepared = None,
                                  !.rounds = left]
<1>1. runner[r] \in RunnerRows /\ Fits(runner[r], r, DOMAIN jobs, Opened) BY DEF RunnersOK
<1>2. runner[r].rounds \in Nat /\ runner[r].rounds > 0 BY <1>1 DEF Fits, RunnerRows
<1>3. left \in Nat /\ (pc # "evaluate" => left > 0) BY <1>2
<1>4. pc \in {"work", "evaluate", "claim"} OBVIOUS
<1>5. runner' = [runner EXCEPT ![r] = x] BY <1>1 DEF AfterJob, RunnersOK
<1> HIDE DEF left, pc
<1>6. x \in RunnerRows
  <2>1. [runner[r] EXCEPT !.pc = pc] \in RunnerRows BY <1>1, <1>4 DEF RunnerRows
  <2>2. [[runner[r] EXCEPT !.pc = pc] EXCEPT !.claim = NoClaim] \in RunnerRows
    BY <2>1 DEF RunnerRows
  <2>3. [[[runner[r] EXCEPT !.pc = pc] EXCEPT !.claim = NoClaim] EXCEPT !.prepared = None]
          \in RunnerRows
    BY <2>2 DEF RunnerRows
  <2> QED BY <1>3, <2>3 DEF RunnerRows
<1>7. x.pc = pc /\ x.rounds = left /\ x.batch = runner[r].batch BY <1>1 DEF RunnerRows
<1> HIDE DEF x
<1>8. Fits(x, r, DOMAIN jobs', Opened') BY <1>1, <1>3, <1>4, <1>7 DEF Fits
<1> QED BY <1>5, <1>6, <1>8, Becomes

LEMMA StartFits ==
  ASSUME now \in Nat, RunnersOK, NEW r \in Runners, Start(r)
  PROVE  RunnersOK'
<1> DEFINE x == [runner[r] EXCEPT !.pc = "seed", !.checked = now]
<1>1. runner[r] \in RunnerRows /\ Fits(runner[r], r, DOMAIN jobs, Opened) BY DEF RunnersOK
<1>2. runner' = [runner EXCEPT ![r] = x] BY <1>1 DEF Start, RunnersOK
<1>3. x \in RunnerRows /\ x.pc = "seed" /\ x.batch = runner[r].batch BY <1>1 DEF RunnerRows
<1> HIDE DEF x
<1>4. DOMAIN jobs' = DOMAIN jobs /\ Opened' = Opened BY DEF Start, tables, Opened
<1>5. Fits(x, r, DOMAIN jobs', Opened') BY <1>1, <1>3, <1>4 DEF Fits
<1> QED BY <1>2, <1>3, <1>4, <1>5, Becomes

LEMMA SeedFits ==
  ASSUME RunnersOK, NEW r \in Runners,
         runner' = [runner EXCEPT ![r].pc = "claim", ![r].rounds = Rounds],
         DOMAIN jobs \subseteq DOMAIN jobs', Opened \subseteq Opened', WindowOf[r] \in Opened'
  PROVE  RunnersOK'
<1> DEFINE x == [runner[r] EXCEPT !.pc = "claim", !.rounds = Rounds]
<1>1. runner[r] \in RunnerRows /\ Fits(runner[r], r, DOMAIN jobs, Opened) BY DEF RunnersOK
<1>2. runner' = [runner EXCEPT ![r] = x] BY <1>1 DEF RunnersOK
<1>3. x \in RunnerRows /\ x.pc = "claim" /\ x.rounds = Rounds /\ x.batch = runner[r].batch
  BY <1>1, RoundsTyped DEF RunnerRows
<1> HIDE DEF x
<1>5. Fits(x, r, DOMAIN jobs', Opened') BY <1>1, <1>3, RoundsTyped DEF Fits
<1> QED BY <1>2, <1>3, <1>5, Becomes

LEMMA PrepareFits ==
  ASSUME RunnersOK, NEW r \in Runners, Prepare(r)
  PROVE  RunnersOK'
<1>1. runner[r] \in RunnerRows /\ Fits(runner[r], r, DOMAIN jobs, Opened) BY DEF RunnersOK
<1>2. PICK c \in runner[r].batch :
        runner' = [runner EXCEPT ![r].batch = @ \ {c}, ![r].claim = c,
                    ![r].prepared = IF SameInput(c) THEN InputOf(c) ELSE None,
                    ![r].pc = IF SameInput(c) THEN "complete" ELSE "fail",
                    ![r].retryable = FALSE]
  BY DEF Prepare
<1>3. c \in ClaimRows /\ c.id \in DOMAIN jobs BY <1>1 DEF Fits, RunnerRows
<1>4. c.id[3] \in Inputs BY <1>3, JobIdParts DEF ClaimRows
<1> DEFINE made == IF SameInput(c) THEN InputOf(c) ELSE None
           pc == IF SameInput(c) THEN "complete" ELSE "fail"
           batch == runner[r].batch \ {c}
           x == [runner[r] EXCEPT !.batch = batch, !.claim = c, !.prepared = made,
                                  !.pc = pc, !.retryable = FALSE]
<1>5. made \in Inputs \cup {None} /\ (pc = "complete" => made = c.id[3])
  BY <1>4 DEF SameInput
<1>6. pc \in {"complete", "fail"} /\ batch \in SUBSET ClaimRows /\ batch \subseteq runner[r].batch
  BY <1>1 DEF RunnerRows
<1>7. runner' = [runner EXCEPT ![r] = x] BY <1>1, <1>2 DEF RunnersOK
<1> HIDE DEF made, pc, batch
<1>8. x \in RunnerRows
  <2> DEFINE a == [runner[r] EXCEPT !.batch = batch]
             b == [a EXCEPT !.claim = c]
             d == [b EXCEPT !.prepared = made]
             e == [d EXCEPT !.pc = pc]
  <2>1. a \in RunnerRows BY <1>1, <1>6 DEF RunnerRows
  <2>2. b \in RunnerRows
    <3> HIDE DEF a
    <3> QED BY <1>3, <2>1 DEF RunnerRows
  <2>3. d \in RunnerRows
    <3> HIDE DEF b
    <3> QED BY <1>5, <2>2 DEF RunnerRows
  <2>4. e \in RunnerRows
    <3> HIDE DEF d
    <3> QED BY <1>6, <2>3 DEF RunnerRows
  <2>5. [e EXCEPT !.retryable = FALSE] \in RunnerRows
    <3> HIDE DEF e
    <3> QED BY <2>4 DEF RunnerRows
  <2> QED BY <2>5
<1>9. /\ x.pc = pc /\ x.claim = c /\ x.batch = batch /\ x.prepared = made
      /\ x.rounds = runner[r].rounds
  BY <1>1 DEF RunnerRows
<1> HIDE DEF x
<1>10. DOMAIN jobs' = DOMAIN jobs /\ Opened' = Opened BY DEF Prepare, tables, Opened
<1>11. runner[r].pc = "work" BY DEF Prepare
<1>12. Fits(x, r, DOMAIN jobs', Opened') BY <1>1, <1>3, <1>5, <1>6, <1>9, <1>10, <1>11 DEF Fits
<1> QED BY <1>7, <1>8, <1>10, <1>12, Becomes

(* A run turns to recording an error of its job. *)
LEMMA FailFits ==
  ASSUME RunnersOK, NEW r \in Runners, NEW retryable \in BOOLEAN,
         runner[r].pc = "complete",
         runner' = [runner EXCEPT ![r].pc = "fail", ![r].retryable = retryable],
         DOMAIN jobs' = DOMAIN jobs, barrier' = barrier
  PROVE  RunnersOK'
<1> DEFINE x == [runner[r] EXCEPT !.pc = "fail", !.retryable = retryable]
<1>1. runner[r] \in RunnerRows /\ Fits(runner[r], r, DOMAIN jobs, Opened) BY DEF RunnersOK
<1>2. runner' = [runner EXCEPT ![r] = x] BY <1>1 DEF RunnersOK
<1>3. x \in RunnerRows BY <1>1 DEF RunnerRows
<1>4. /\ x.pc = "fail" /\ x.batch = runner[r].batch /\ x.claim = runner[r].claim
      /\ x.rounds = runner[r].rounds
  BY <1>1 DEF RunnerRows
<1> HIDE DEF x
<1>5. Opened' = Opened BY DEF Opened
<1>6. Fits(x, r, DOMAIN jobs', Opened') BY <1>1, <1>4, <1>5 DEF Fits
<1> QED BY <1>2, <1>3, <1>5, <1>6, Becomes

LEMMA ClaimFits ==
  ASSUME JobsOK, RunnersOK, NEW r \in Runners, Claim(r)
  PROVE  RunnersOK'
<1> DEFINE candidates == {id \in DOMAIN jobs : Claimable(id)}
           Taken(id) == [id |-> id, epoch |-> jobs[id].epoch + 1,
                         attempts |-> jobs[id].attempts + 1,
                         availableAt |-> jobs[id].availableAt]
<1>1. runner[r] \in RunnerRows /\ Fits(runner[r], r, DOMAIN jobs, Opened) BY DEF RunnersOK
<1>2. PICK ids \in SUBSET candidates :
        /\ DOMAIN jobs' = DOMAIN jobs
        /\ runner' = [runner EXCEPT ![r].pc = IF ids = {} THEN "evaluate" ELSE "work",
                                    ![r].batch = {Taken(id) : id \in ids}]
  BY DEF Claim
<1> DEFINE pc == IF ids = {} THEN "evaluate" ELSE "work"
           batch == {Taken(id) : id \in ids}
           x == [runner[r] EXCEPT !.pc = pc, !.batch = batch]
<1>3. ASSUME NEW id \in ids PROVE Taken(id) \in ClaimRows /\ Taken(id).id \in DOMAIN jobs
  <2>1. id \in DOMAIN jobs /\ id \in JobIds /\ jobs[id] \in JobRows BY DEF JobsOK
  <2>2. jobs[id].epoch \in Nat /\ jobs[id].attempts \in Nat /\ jobs[id].availableAt \in Nat
    BY <2>1, JobAssumption DEF JobRows
  <2> QED BY <2>1, <2>2 DEF ClaimRows
<1> HIDE DEF Taken
<1>4. pc \in {"evaluate", "work"} /\ batch \in SUBSET ClaimRows BY <1>3
<1>5. \A c \in batch : c.id \in DOMAIN jobs BY <1>3
<1>6. runner' = [runner EXCEPT ![r] = x] BY <1>1, <1>2 DEF RunnersOK
<1> HIDE DEF pc, batch
<1>7. x \in RunnerRows BY <1>1, <1>4 DEF RunnerRows
<1>8. x.pc = pc /\ x.batch = batch /\ x.rounds = runner[r].rounds BY <1>1 DEF RunnerRows
<1> HIDE DEF x
<1>9. Opened' = Opened /\ runner[r].pc = "claim" BY DEF Claim, Opened
<1>10. Fits(x, r, DOMAIN jobs', Opened') BY <1>1, <1>2, <1>4, <1>5, <1>8, <1>9 DEF Fits
<1> QED BY <1>2, <1>6, <1>7, <1>9, <1>10, Becomes

-----------------------------------------------------------------------------
(* The rows of the jobs.                                                     *)

(* A row is kept, granted to a claim, or ended by the claim that holds it or  *)
(* by its expiry; what has settled is kept for good.                          *)
RowStep(old, new) ==
  \/ new = old
  \/ /\ old.status \in {"PENDING", "LEASED"} /\ new.status = "LEASED"
     /\ new.epoch = old.epoch + 1
  \/ /\ old.status = "LEASED" /\ new.status # "LEASED"
     /\ new.epoch = old.epoch

RowsStep ==
  /\ jobs' \in [DOMAIN jobs -> JobRows]
  /\ \A id \in DOMAIN jobs : RowOK(jobs'[id]) /\ RowStep(jobs[id], jobs'[id])

LEMMA ReleasedRow ==
  ASSUME NEW row, RowOK(row), row.status = "LEASED",
         NEW status \in {"PENDING", "COMPLETE", "FAILED", "BLOCKED"}
  PROVE  /\ RowOK(Released(row, status)) /\ RowStep(row, Released(row, status))
         /\ Released(row, status).status = status
<1> DEFINE a == [row EXCEPT !.status = status]
           b == [a EXCEPT !.owner = None]
           new == [b EXCEPT !.lease = 0]
<1>1. row \in JobRows /\ row.epoch > 0 BY DEF RowOK
<1>2. a \in JobRows /\ a.status = status /\ a.epoch = row.epoch BY <1>1 DEF JobRows
<1>3. b \in JobRows /\ b.status = status /\ b.epoch = row.epoch /\ b.owner = None
  <2> HIDE DEF a
  <2> QED BY <1>2 DEF JobRows
<1>4. new \in JobRows /\ new.status = status /\ new.epoch = row.epoch /\ new.owner = None
  <2> HIDE DEF b
  <2> QED BY <1>3 DEF JobRows
<1>5. Released(row, status) = new BY <1>1 DEF Released, JobRows
<1> HIDE DEF new
<1>6. RowOK(new) BY <1>1, <1>4 DEF RowOK
<1>7. RowStep(row, new) BY <1>4 DEF RowStep
<1> QED BY <1>4, <1>5, <1>6, <1>7

\* What a claim writes.
Leased(row, r) ==
  [row EXCEPT !.status = "LEASED", !.owner = OwnerOf[r], !.epoch = @ + 1,
              !.lease = now + LeaseSeconds, !.attempts = @ + 1]

LEMMA GrantedRow ==
  ASSUME now \in Nat, NEW row, RowOK(row), NEW r \in Runners,
         row.status \in {"PENDING", "LEASED"}, row.attempts < MaximumAttempts
  PROVE  /\ RowOK(Leased(row, r)) /\ RowStep(row, Leased(row, r))
         /\ Leased(row, r).status = "LEASED"
<1> DEFINE new == Leased(row, r)
           owner == OwnerOf[r]
           lease == now + LeaseSeconds
           epoch == row.epoch + 1
           attempts == row.attempts + 1
           a == [row EXCEPT !.status = "LEASED"]
           b == [a EXCEPT !.owner = owner]
           c == [b EXCEPT !.epoch = epoch]
           d == [c EXCEPT !.lease = lease]
           e == [d EXCEPT !.attempts = attempts]
<1>1. row \in JobRows BY DEF RowOK
<1>2. row.epoch \in Nat /\ row.attempts \in 0..MaximumAttempts BY <1>1 DEF JobRows
<1>3. epoch \in Nat /\ epoch > 0 /\ lease \in Nat /\ attempts \in 0..MaximumAttempts
  BY <1>2, JobAssumption
<1>4. owner \in Owners \cup {None} /\ owner # None BY JobAssumption DEF Owners
<1>5. new = e BY <1>1 DEF JobRows, Leased
<1> HIDE DEF new, owner, lease, epoch, attempts
<1>6. a \in JobRows /\ a.status = "LEASED" BY <1>1 DEF JobRows
<1>7. b \in JobRows /\ b.status = "LEASED" /\ b.owner = owner
  <2> HIDE DEF a
  <2> QED BY <1>4, <1>6 DEF JobRows
<1>8. c \in JobRows /\ c.status = "LEASED" /\ c.owner = owner /\ c.epoch = epoch
  <2> HIDE DEF b
  <2> QED BY <1>3, <1>7 DEF JobRows
<1>9. d \in JobRows /\ d.status = "LEASED" /\ d.owner = owner /\ d.epoch = epoch
  <2> HIDE DEF c
  <2> QED BY <1>3, <1>8 DEF JobRows
<1>10. e \in JobRows /\ e.status = "LEASED" /\ e.owner = owner /\ e.epoch = epoch
  <2> HIDE DEF d
  <2> QED BY <1>3, <1>9 DEF JobRows
<1> HIDE DEF e
<1>11. RowOK(new) BY <1>3, <1>4, <1>5, <1>10 DEF RowOK
<1>12. RowStep(row, new) BY <1>5, <1>10 DEF RowStep, epoch
<1> QED BY <1>5, <1>10, <1>11, <1>12 DEF new

LEMMA ClaimSteps ==
  ASSUME now \in Nat, JobsOK, NEW r \in Runners, Claim(r)
  PROVE  /\ RowsStep
         /\ \A id \in DOMAIN jobs : jobs'[id].status = "COMPLETE" => jobs'[id] = jobs[id]
<1> DEFINE candidates == {id \in DOMAIN jobs : Claimable(id)}
<1>1. PICK ids \in SUBSET candidates :
        jobs' = [id \in DOMAIN jobs |->
            IF id \in ids THEN Leased(jobs[id], r)
            ELSE IF Exhausted(id) THEN Released(jobs[id], "FAILED") ELSE jobs[id]]
  BY DEF Claim, Leased
<1>2. ASSUME NEW id \in DOMAIN jobs
      PROVE  /\ RowOK(jobs'[id]) /\ RowStep(jobs[id], jobs'[id])
             /\ jobs'[id].status = "COMPLETE" => jobs'[id] = jobs[id]
  <2>1. RowOK(jobs[id]) BY DEF JobsOK
  <2>2. CASE id \in ids
    <3>1. jobs'[id] = Leased(jobs[id], r) BY <1>1, <2>2
    <3>2. jobs[id].status \in {"PENDING", "LEASED"} /\ jobs[id].attempts < MaximumAttempts
      BY <2>2 DEF Claimable
    <3> HIDE DEF candidates
    <3>3. RowOK(jobs'[id]) /\ RowStep(jobs[id], jobs'[id]) /\ jobs'[id].status = "LEASED"
      BY <2>1, <3>1, <3>2, GrantedRow
    <3> QED BY <3>3
  <2>3. CASE id \notin ids /\ Exhausted(id)
    <3>1. jobs'[id] = Released(jobs[id], "FAILED") BY <1>1, <2>3
    <3>2. jobs[id].status = "LEASED" BY <2>3 DEF Exhausted
    <3> QED BY <2>1, <3>1, <3>2, ReleasedRow
  <2>4. CASE id \notin ids /\ ~Exhausted(id)
    <3>1. jobs'[id] = jobs[id] BY <1>1, <2>4
    <3> QED BY <2>1, <3>1 DEF RowStep
  <2> QED BY <2>2, <2>3, <2>4
<1>3. jobs' = [id \in DOMAIN jobs |-> jobs'[id]] BY <1>1
<1>4. \A id \in DOMAIN jobs : jobs'[id] \in JobRows BY <1>2 DEF RowOK
<1>5. jobs' \in [DOMAIN jobs -> JobRows] BY <1>3, <1>4
<1> QED BY <1>2, <1>5 DEF RowsStep

(* One row is rewritten. *)
LEMMA RowBecomes ==
  ASSUME JobsOK, NEW id \in DOMAIN jobs, NEW row, RowOK(row), RowStep(jobs[id], row),
         jobs' = [jobs EXCEPT ![id] = row]
  PROVE  RowsStep
<1>1. row \in JobRows BY DEF RowOK
<1>2. jobs' \in [DOMAIN jobs -> JobRows] BY <1>1 DEF JobsOK
<1>3. ASSUME NEW x \in DOMAIN jobs PROVE RowOK(jobs'[x]) /\ RowStep(jobs[x], jobs'[x])
  <2>1. CASE x = id BY <2>1
  <2>2. CASE x # id BY <2>2 DEF JobsOK, RowStep
  <2> QED BY <2>1, <2>2
<1> QED BY <1>2, <1>3 DEF RowsStep

LEMMA FailSteps ==
  ASSUME now \in Nat, JobsOK, NEW r \in Runners, Fail(r), HoldsLease(r, runner[r].claim),
         jobs' # jobs
  PROVE  /\ RowsStep
         /\ \A id \in DOMAIN jobs : jobs'[id].status = "COMPLETE" => jobs'[id] = jobs[id]
<1> DEFINE c == runner[r].claim
           status == IF ~runner[r].retryable THEN "BLOCKED"
                     ELSE IF c.attempts >= MaximumAttempts THEN "FAILED" ELSE "PENDING"
           out == Released(jobs[c.id], status)
           at == IF status = "PENDING" THEN now + RetryDelay ELSE out.availableAt
           row == [out EXCEPT !.availableAt = at]
<1>1. c.id \in DOMAIN jobs /\ jobs[c.id].status = "LEASED" BY DEF HoldsLease
<1>2. RowOK(jobs[c.id]) BY <1>1 DEF JobsOK
<1>3. status \in {"PENDING", "FAILED", "BLOCKED"} OBVIOUS
<1>4. jobs' = [jobs EXCEPT ![c.id] = row]
  <2>1. \/ Finish(r) /\ UNCHANGED jobs
        \/ jobs' = [jobs EXCEPT ![c.id] = row]
    BY DEF Fail
  <2> HIDE DEF row
  <2> QED BY <2>1
<1> HIDE DEF status
<1>5. RowOK(out) /\ RowStep(jobs[c.id], out) /\ out.status = status
  BY <1>1, <1>2, <1>3, ReleasedRow
<1> HIDE DEF out
<1>6. out \in JobRows BY <1>5 DEF RowOK
<1>7. at \in Nat
  <2>1. out.availableAt \in Nat BY <1>6 DEF JobRows
  <2> QED BY <2>1, JobAssumption
<1> HIDE DEF at
<1>8. /\ row \in JobRows /\ row.status = out.status /\ row.owner = out.owner
      /\ row.epoch = out.epoch
  BY <1>6, <1>7 DEF JobRows
<1> HIDE DEF row
<1>9. RowOK(row) BY <1>5, <1>8 DEF RowOK
<1>10. RowStep(jobs[c.id], row) /\ row.status # "COMPLETE"
  <2>1. out.epoch = jobs[c.id].epoch BY <1>1, <1>3, <1>5 DEF RowStep
  <2> QED BY <1>1, <1>3, <1>5, <1>8, <2>1 DEF RowStep
<1>11. RowsStep BY <1>1, <1>4, <1>9, <1>10, RowBecomes
<1>12. ASSUME NEW id \in DOMAIN jobs, jobs'[id].status = "COMPLETE" PROVE jobs'[id] = jobs[id]
  BY <1>4, <1>10, <1>12
<1> QED BY <1>11, <1>12

-----------------------------------------------------------------------------
(* The tables.                                                               *)

LEMMA TablesKept ==
  ASSUME TablesOK, UNCHANGED <<jobs, barrier, expected, outcome, output>>
  PROVE  TablesOK'
<1>1. /\ jobs' = jobs /\ barrier' = barrier /\ expected' = expected
      /\ outcome' = outcome /\ output' = output
  OBVIOUS
<1>2. JobsOK' BY <1>1 DEF TablesOK, JobsOK
<1>3. BarriersOK' BY <1>1 DEF TablesOK, BarriersOK, JobOf
<1>4. OutputOK' BY <1>1 DEF TablesOK, OutputOK
<1>5. MembersAgreeWithJobs' BY <1>1 DEF TablesOK, MembersAgreeWithJobs, JobOf
<1>6. VerdictIsExact' BY <1>1 DEF TablesOK, VerdictIsExact
<1> QED BY <1>2, <1>3, <1>4, <1>5, <1>6 DEF TablesOK

LEMMA RowsKeepTypes ==
  ASSUME JobsOK, BarriersOK, RowsStep, barrier' = barrier, expected' = expected
  PROVE  JobsOK' /\ DOMAIN jobs' = DOMAIN jobs
<1>1. DOMAIN jobs' = DOMAIN jobs BY DEF RowsStep
<1> QED BY <1>1 DEF JobsOK, RowsStep

(* Whether a job has an outcome for good. *)
LEMMA SettledKept ==
  ASSUME RowsStep, NEW id \in DOMAIN jobs,
         jobs[id].status \in {"COMPLETE", "FAILED", "BLOCKED"}
  PROVE  jobs'[id] = jobs[id]
BY DEF RowsStep, RowStep

(* Rows change and none is completed: no barrier and no output changes. *)
LEMMA WithoutCompletion ==
  ASSUME TablesOK, RowsStep,
         \A id \in DOMAIN jobs : jobs'[id].status = "COMPLETE" => jobs'[id] = jobs[id],
         UNCHANGED <<barrier, expected, outcome, output>>
  PROVE  TablesOK'
<1>1. /\ barrier' = barrier /\ expected' = expected
      /\ outcome' = outcome /\ output' = output
  OBVIOUS
<1>2. JobsOK' /\ DOMAIN jobs' = DOMAIN jobs BY <1>1, RowsKeepTypes DEF TablesOK
<1>3. BarriersOK' BY <1>1, <1>2 DEF TablesOK, BarriersOK, JobOf
<1>4. OutputOK'
  <2>1. \A id \in DOMAIN jobs : jobs[id].status = "COMPLETE" => jobs'[id] = jobs[id]
    BY SettledKept
  <2>2. {id \in DOMAIN jobs' : jobs'[id].status = "COMPLETE"}
          = {id \in DOMAIN jobs : jobs[id].status = "COMPLETE"}
    BY <1>2, <2>1
  <2>3. DOMAIN output' = {id \in DOMAIN jobs' : jobs'[id].status = "COMPLETE"}
    BY <1>1, <2>2 DEF TablesOK, OutputOK
  <2>4. ASSUME NEW id \in DOMAIN output'
        PROVE  output'[id].input = id[3] /\ output'[id].epoch = jobs'[id].epoch
    <3>1. id \in DOMAIN jobs /\ jobs[id].status = "COMPLETE" /\ id \in DOMAIN output
      BY <1>1, <2>4 DEF TablesOK, OutputOK
    <3> QED BY <1>1, <2>1, <3>1 DEF TablesOK, OutputOK
  <2>5. output' \in [DOMAIN output' -> [input : Inputs, epoch : Nat]]
    BY <1>1 DEF TablesOK, OutputOK
  <2> QED BY <2>3, <2>4, <2>5 DEF OutputOK
<1>5. MembersAgreeWithJobs'
  <2> SUFFICES ASSUME NEW w \in Windows, NEW m \in Members
               PROVE  /\ outcome[w][m] \in {"COMPLETE", "MISSING"} =>
                           /\ jobs'[JobOf(w, m)].status = "COMPLETE"
                           /\ JobOf(w, m) \in DOMAIN output
                      /\ outcome[w][m] \in {"FAILED", "BLOCKED"} =>
                           jobs'[JobOf(w, m)].status = outcome[w][m]
                      /\ barrier[w] = "OPEN" /\ outcome[w][m] = None =>
                           jobs'[JobOf(w, m)].status # "COMPLETE"
    BY <1>1 DEF MembersAgreeWithJobs, JobOf
  <2> DEFINE id == JobOf(w, m)
  <2>1. /\ outcome[w][m] \in {"COMPLETE", "MISSING"} =>
             jobs[id].status = "COMPLETE" /\ id \in DOMAIN output
        /\ outcome[w][m] \in {"FAILED", "BLOCKED"} => jobs[id].status = outcome[w][m]
        /\ barrier[w] = "OPEN" /\ outcome[w][m] = None => jobs[id].status # "COMPLETE"
    BY DEF TablesOK, MembersAgreeWithJobs
  <2>2. barrier[w] # Absent => id \in DOMAIN jobs BY DEF TablesOK, BarriersOK
  <2>3. barrier[w] = Absent => outcome[w][m] = None BY DEF TablesOK, BarriersOK
  <2> HIDE DEF id
  <2>4. id \in DOMAIN jobs /\ jobs[id].status \in {"COMPLETE", "FAILED", "BLOCKED"} =>
          jobs'[id] = jobs[id]
    BY SettledKept
  <2>5. id \in DOMAIN jobs /\ jobs[id].status # "COMPLETE" => jobs'[id].status # "COMPLETE"
    OBVIOUS
  <2>6. CASE barrier[w] # Absent BY <2>1, <2>2, <2>4, <2>5, <2>6 DEF id
  <2>7. CASE barrier[w] = Absent BY <2>3, <2>7, JobAssumption DEF Absent
  <2> QED BY <2>6, <2>7
<1>6. VerdictIsExact' BY <1>1 DEF TablesOK, VerdictIsExact
<1> QED BY <1>2, <1>3, <1>4, <1>5, <1>6 DEF TablesOK

(* An outcome appears where there was none, and is that of its job. *)
LEMMA OutcomesAdded ==
  ASSUME TablesOK, JobsOK', OutputOK', RowsStep, expected' = expected,
         barrier' \in [Windows -> {Absent, "OPEN", "COMPLETE", "FAILED"}],
         \A w \in Windows : /\ barrier'[w] = Absent <=> barrier[w] = Absent
                            /\ barrier'[w] = "OPEN" => barrier[w] = "OPEN",
         outcome' \in [Windows -> [Members -> {None, "COMPLETE", "FAILED", "BLOCKED", "MISSING"}]],
         \A w \in Windows, m \in Members :
           \/ /\ outcome'[w][m] = outcome[w][m]
              /\ barrier[w] = "OPEN" /\ outcome[w][m] = None =>
                   jobs'[JobOf(w, m)].status # "COMPLETE"
           \/ /\ barrier[w] # Absent /\ outcome'[w][m] # None
              /\ jobs'[JobOf(w, m)].status =
                   IF outcome'[w][m] = "MISSING" THEN "COMPLETE" ELSE outcome'[w][m]
  PROVE  BarriersOK' /\ MembersAgreeWithJobs'
<1>1. DOMAIN jobs' = DOMAIN jobs BY DEF RowsStep
<1>2. ASSUME NEW w \in Windows, NEW m \in Members
      PROVE  /\ JobOf(w, m)' = JobOf(w, m)
             /\ barrier'[w] = Absent => outcome'[w][m] = None
             /\ barrier'[w] # Absent => JobOf(w, m) \in DOMAIN jobs
             /\ outcome'[w][m] \in {"COMPLETE", "MISSING"} =>
                  /\ jobs'[JobOf(w, m)].status = "COMPLETE"
                  /\ JobOf(w, m) \in DOMAIN output'
             /\ outcome'[w][m] \in {"FAILED", "BLOCKED"} =>
                  jobs'[JobOf(w, m)].status = outcome'[w][m]
             /\ barrier'[w] = "OPEN" /\ outcome'[w][m] = None =>
                  jobs'[JobOf(w, m)].status # "COMPLETE"
  <2> DEFINE id == JobOf(w, m)
  <2>1. JobOf(w, m)' = id BY DEF JobOf
  <2>2. /\ barrier[w] = Absent => outcome[w][m] = None
        /\ barrier[w] # Absent => id \in DOMAIN jobs
    BY DEF TablesOK, BarriersOK
  <2>3. /\ outcome[w][m] \in {"COMPLETE", "MISSING"} => jobs[id].status = "COMPLETE"
        /\ outcome[w][m] \in {"FAILED", "BLOCKED"} => jobs[id].status = outcome[w][m]
    BY DEF TablesOK, MembersAgreeWithJobs
  <2>4. \/ /\ outcome'[w][m] = outcome[w][m]
           /\ barrier[w] = "OPEN" /\ outcome[w][m] = None => jobs'[id].status # "COMPLETE"
        \/ /\ barrier[w] # Absent /\ outcome'[w][m] # None
           /\ jobs'[id].status =
                IF outcome'[w][m] = "MISSING" THEN "COMPLETE" ELSE outcome'[w][m]
    OBVIOUS
  <2>5. outcome'[w][m] \in {None, "COMPLETE", "FAILED", "BLOCKED", "MISSING"} OBVIOUS
  <2>6. /\ barrier'[w] = Absent <=> barrier[w] = Absent
        /\ barrier'[w] = "OPEN" => barrier[w] = "OPEN"
    OBVIOUS
  <2> HIDE DEF id
  <2>7. id \in DOMAIN jobs /\ jobs[id].status \in {"COMPLETE", "FAILED", "BLOCKED"} =>
          jobs'[id] = jobs[id]
    BY SettledKept
  <2>8. id \in DOMAIN jobs /\ jobs'[id].status = "COMPLETE" => id \in DOMAIN output'
    BY <1>1 DEF OutputOK
  <2>9. None \notin {"COMPLETE", "FAILED", "BLOCKED", "MISSING"} BY JobAssumption
  <2>10. CASE barrier[w] = Absent
    <3>1. outcome'[w][m] = None BY <2>2, <2>4, <2>10
    <3> QED BY <2>1, <2>6, <2>9, <2>10, <3>1 DEF Absent, id
  <2>11. CASE barrier[w] # Absent /\ outcome'[w][m] = outcome[w][m]
                /\ (barrier[w] = "OPEN" /\ outcome[w][m] = None =>
                      jobs'[id].status # "COMPLETE")
    BY <2>1, <2>2, <2>3, <2>5, <2>6, <2>7, <2>8, <2>9, <2>11 DEF id
  <2>12. CASE /\ barrier[w] # Absent /\ outcome'[w][m] # None
              /\ jobs'[id].status =
                IF outcome'[w][m] = "MISSING" THEN "COMPLETE" ELSE outcome'[w][m]
    BY <2>1, <2>2, <2>5, <2>6, <2>8, <2>9, <2>12 DEF id
  <2> QED BY <2>4, <2>10, <2>11, <2>12
<1>3. expected' \in [Windows -> [Members -> Inputs \cup {None}]] BY DEF TablesOK, BarriersOK
<1>4. BarriersOK' BY <1>1, <1>2, <1>3 DEF BarriersOK
<1>5. MembersAgreeWithJobs' BY <1>2 DEF MembersAgreeWithJobs
<1> QED BY <1>4, <1>5

LEMMA EvaluateTables ==
  ASSUME TablesOK, RunnersOK, NEW r \in Runners, Evaluate(r)
  PROVE  TablesOK' /\ Opened' = Opened
<1> DEFINE w == WindowOf[r]
<1>1. w \in Windows /\ barrier[w] # Absent
  BY JobAssumption DEF RunnersOK, Fits, Opened, Evaluate
<1>2. /\ jobs' = jobs /\ expected' = expected /\ output' = output
      /\ outcome' = [outcome EXCEPT ![w] = [m \in Members |-> Derived(w, m)]]
      /\ barrier' = [barrier EXCEPT ![w] = IF barrier[w] = "OPEN" THEN Verdict(w) ELSE barrier[w]]
  BY DEF Evaluate
<1> HIDE DEF w
<1>3. RowsStep BY <1>2 DEF RowsStep, TablesOK, JobsOK, RowStep
<1>4. JobsOK'
  <2>1. \A v \in Windows : barrier'[v] = Absent => barrier[v] = Absent
    BY <1>1, <1>2 DEF TablesOK, BarriersOK, Verdict, Absent
  <2>2. \A id \in DOMAIN jobs : id[1] \in Windows BY JobIdParts DEF TablesOK, JobsOK
  <2> QED BY <1>2, <2>1, <2>2 DEF TablesOK, JobsOK
<1>5. OutputOK' BY <1>2 DEF TablesOK, OutputOK
<1>6. Verdict(w) \in {"OPEN", "COMPLETE", "FAILED"} BY DEF Verdict
<1>7. ASSUME NEW m \in Members
      PROVE  /\ Derived(w, m) \in {None, "COMPLETE", "FAILED", "BLOCKED", "MISSING"}
             /\ \/ Derived(w, m) = outcome[w][m]
                \/ /\ outcome[w][m] = None /\ Derived(w, m) = jobs[JobOf(w, m)].status
                   /\ Derived(w, m) \in {"FAILED", "BLOCKED"}
  BY <1>1 DEF Derived, TablesOK, BarriersOK
<1>8. barrier' \in [Windows -> {Absent, "OPEN", "COMPLETE", "FAILED"}]
  BY <1>1, <1>2, <1>6 DEF TablesOK, BarriersOK
<1>9. ASSUME NEW v \in Windows
      PROVE  /\ barrier'[v] = Absent <=> barrier[v] = Absent
             /\ barrier'[v] = "OPEN" => barrier[v] = "OPEN"
  BY <1>1, <1>2, <1>6 DEF TablesOK, BarriersOK, Absent
<1>10. outcome' \in [Windows -> [Members -> {None, "COMPLETE", "FAILED", "BLOCKED", "MISSING"}]]
  BY <1>1, <1>2, <1>7 DEF TablesOK, BarriersOK
<1>11. ASSUME NEW v \in Windows, NEW m \in Members
       PROVE  \/ /\ outcome'[v][m] = outcome[v][m]
                 /\ barrier[v] = "OPEN" /\ outcome[v][m] = None =>
                      jobs'[JobOf(v, m)].status # "COMPLETE"
              \/ /\ barrier[v] # Absent /\ outcome'[v][m] # None
                 /\ jobs'[JobOf(v, m)].status =
                      IF outcome'[v][m] = "MISSING" THEN "COMPLETE" ELSE outcome'[v][m]
  <2>1. barrier[v] = "OPEN" /\ outcome[v][m] = None => jobs'[JobOf(v, m)].status # "COMPLETE"
    BY <1>2 DEF TablesOK, MembersAgreeWithJobs
  <2>2. CASE v # w BY <1>2, <2>1, <2>2 DEF TablesOK, BarriersOK
  <2>3. CASE v = w
    <3>1. outcome'[v][m] = Derived(w, m) BY <1>1, <1>2, <2>3 DEF TablesOK, BarriersOK
    <3> QED BY <1>1, <1>2, <1>7, <2>1, <2>3, <3>1, JobAssumption
  <2> QED BY <2>2, <2>3
<1>12. BarriersOK' /\ MembersAgreeWithJobs'
  BY <1>2, <1>3, <1>4, <1>5, <1>8, <1>9, <1>10, <1>11, OutcomesAdded
<1>13. VerdictIsExact'
  <2> SUFFICES ASSUME NEW v \in Windows
               PROVE  /\ barrier'[v] = "COMPLETE" =>
                           \A m \in Members : outcome'[v][m] = "COMPLETE"
                      /\ barrier'[v] = "FAILED" =>
                           \E m \in Members : outcome'[v][m] \in {"FAILED", "BLOCKED", "MISSING"}
    BY DEF VerdictIsExact
  <2>1. /\ barrier[v] = "COMPLETE" => \A m \in Members : outcome[v][m] = "COMPLETE"
        /\ barrier[v] = "FAILED" =>
             \E m \in Members : outcome[v][m] \in {"FAILED", "BLOCKED", "MISSING"}
    BY DEF TablesOK, VerdictIsExact
  <2>2. CASE v # w BY <1>2, <2>1, <2>2 DEF TablesOK, BarriersOK
  <2>3. CASE v = w
    <3>1. \A m \in Members : outcome'[v][m] = Derived(w, m)
      BY <1>1, <1>2, <2>3 DEF TablesOK, BarriersOK
    <3>2. barrier'[v] = IF barrier[v] = "OPEN" THEN Verdict(w) ELSE barrier[v]
      BY <1>1, <1>2, <2>3 DEF TablesOK, BarriersOK
    <3>3. None \notin {"COMPLETE", "FAILED", "BLOCKED", "MISSING"} BY JobAssumption
    <3>4. CASE barrier[v] = "OPEN"
      <4>1. barrier'[v] = Verdict(w) BY <3>2, <3>4
      <4>2. CASE barrier'[v] = "COMPLETE"
        <5>1. \A m \in Members : Derived(w, m) = "COMPLETE" BY <4>1, <4>2 DEF Verdict
        <5> QED BY <3>1, <4>2, <5>1
      <4>3. CASE barrier'[v] = "FAILED"
        <5>1. \E m \in Members : Derived(w, m) \notin {None, "COMPLETE"}
          BY <4>1, <4>3 DEF Verdict
        <5> QED BY <1>7, <3>1, <4>3, <5>1
      <4> QED BY <4>2, <4>3
    <3>5. CASE barrier[v] # "OPEN"
      <4>1. barrier'[v] = barrier[v] BY <3>2, <3>5
      <4>2. \A m \in Members : outcome[v][m] \in {"COMPLETE", "FAILED", "BLOCKED", "MISSING"} =>
              outcome'[v][m] = outcome[v][m]
        BY <1>7, <2>3, <3>1, <3>3
      <4> QED BY <2>1, <4>1, <4>2
    <3> QED BY <3>4, <3>5
  <2> QED BY <2>2, <2>3
<1>14. Opened' = Opened BY <1>9 DEF Opened
<1> QED BY <1>4, <1>5, <1>12, <1>13, <1>14 DEF TablesOK

LEMMA CompleteTables ==
  ASSUME TablesOK, RunnersOK, NEW r \in Runners, Complete(r),
         ~(runner'[r].pc = "fail" /\ UNCHANGED <<jobs, outcome, output>>)
  PROVE  TablesOK' /\ RowsStep
<1> DEFINE c == runner[r].claim
           w == c.id[1]
           m == c.id[2]
           made == IF runner[r].prepared.outcome = "GAP" THEN "MISSING" ELSE "COMPLETE"
           member == barrier[w] = "OPEN" /\ expected[w][m] = c.id[3]
           refused == ~HoldsLease(r, c) \/ (member /\ RecordedOther(w, m, made))
           row == Released(jobs[c.id], "COMPLETE")
<1>1. /\ c \in ClaimRows /\ c.id \in DOMAIN jobs /\ runner[r].prepared = c.id[3]
  BY DEF Complete, RunnersOK, Fits
<1>2. c.id \in JobIds /\ c.epoch \in Nat BY <1>1 DEF ClaimRows
<1>3. w \in Windows /\ m \in Members /\ c.id[3] \in Inputs /\ c.id = <<w, m, c.id[3]>>
  BY <1>2, JobIdParts
<1>4. RowOK(jobs[c.id]) /\ barrier[w] # Absent /\ expected[w][m] = c.id[3]
  BY <1>1 DEF TablesOK, JobsOK
<1>5. /\ HoldsLease(r, c)
      /\ jobs' = [jobs EXCEPT ![c.id] = row]
      /\ output' = [id \in DOMAIN output \cup {c.id} |->
             IF id = c.id THEN [input |-> runner[r].prepared, epoch |-> c.epoch]
             ELSE output[id]]
      /\ outcome' = IF member THEN [outcome EXCEPT ![w][m] = made] ELSE outcome
  <2>1. \/ /\ refused
           /\ runner' = [runner EXCEPT ![r].pc = "fail", ![r].retryable = FALSE]
           /\ UNCHANGED <<jobs, outcome, output>>
        \/ /\ ~refused
           /\ jobs' = [jobs EXCEPT ![c.id] = row]
           /\ output' = [id \in DOMAIN output \cup {c.id} |->
                IF id = c.id THEN [input |-> runner[r].prepared, epoch |-> c.epoch]
                ELSE output[id]]
           /\ outcome' = IF member THEN [outcome EXCEPT ![w][m] = made] ELSE outcome
    BY DEF Complete
  <2>2. runner[r] \in RunnerRows BY DEF RunnersOK
  <2>3. ASSUME runner' = [runner EXCEPT ![r].pc = "fail", ![r].retryable = FALSE]
        PROVE  runner'[r].pc = "fail"
    BY <2>2, <2>3 DEF RunnersOK, RunnerRows
  <2> HIDE DEF row, member, made
  <2> QED BY <2>1, <2>3
<1>6. barrier' = barrier /\ expected' = expected BY DEF Complete
<1>7. jobs[c.id].status = "LEASED" /\ jobs[c.id].epoch = c.epoch BY <1>5 DEF HoldsLease
<1>8. RowOK(row) /\ RowStep(jobs[c.id], row) /\ row.status = "COMPLETE"
  BY <1>4, <1>7, ReleasedRow
<1>9. row.epoch = c.epoch BY <1>7, <1>8 DEF RowStep
<1>10. made \in {"MISSING", "COMPLETE"} OBVIOUS
<1> HIDE DEF c, row, made
<1>11. RowsStep BY <1>1, <1>5, <1>8, RowBecomes DEF TablesOK
<1>12. JobsOK' /\ DOMAIN jobs' = DOMAIN jobs BY <1>6, <1>11, RowsKeepTypes DEF TablesOK
<1>13. jobs'[c.id] = row /\ \A id \in DOMAIN jobs : id # c.id => jobs'[id] = jobs[id]
  BY <1>1, <1>5 DEF TablesOK, JobsOK
<1>14. OutputOK'
  <2>1. DOMAIN output' = {id \in DOMAIN jobs' : jobs'[id].status = "COMPLETE"}
    <3>1. DOMAIN output' = DOMAIN output \cup {c.id} BY <1>5
    <3>2. DOMAIN output = {id \in DOMAIN jobs : jobs[id].status = "COMPLETE"}
      BY DEF TablesOK, OutputOK
    <3> QED BY <1>1, <1>7, <1>8, <1>12, <1>13, <3>1, <3>2
  <2>2. ASSUME NEW id \in DOMAIN output'
        PROVE  /\ output'[id] \in [input : Inputs, epoch : Nat]
               /\ output'[id].input = id[3] /\ output'[id].epoch = jobs'[id].epoch
    <3>1. CASE id = c.id
      <4>1. output'[id] = [input |-> runner[r].prepared, epoch |-> c.epoch] BY <1>5, <3>1
      <4> QED BY <1>1, <1>2, <1>3, <1>9, <1>13, <3>1, <4>1
    <3>2. CASE id # c.id
      <4>1. id \in DOMAIN output /\ output'[id] = output[id] BY <1>5, <3>2
      <4>2. id \in DOMAIN jobs BY <4>1 DEF TablesOK, OutputOK
      <4> QED BY <1>13, <3>2, <4>1, <4>2 DEF TablesOK, OutputOK
    <3> QED BY <3>1, <3>2
  <2>3. output' = [id \in DOMAIN output' |-> output'[id]] BY <1>5
  <2> QED BY <2>1, <2>2, <2>3 DEF OutputOK
<1>15. ASSUME NEW v \in Windows, NEW n \in Members
       PROVE  outcome'[v][n] = IF v = w /\ n = m /\ barrier[w] = "OPEN" THEN made
                               ELSE outcome[v][n]
  BY <1>3, <1>4, <1>5 DEF TablesOK, BarriersOK
<1>16. outcome' \in [Windows -> [Members -> {None, "COMPLETE", "FAILED", "BLOCKED", "MISSING"}]]
  BY <1>3, <1>5, <1>10 DEF TablesOK, BarriersOK
<1>17. barrier' \in [Windows -> {Absent, "OPEN", "COMPLETE", "FAILED"}]
  BY <1>6 DEF TablesOK, BarriersOK
<1>18. ASSUME NEW v \in Windows, NEW n \in Members
       PROVE  \/ /\ outcome'[v][n] = outcome[v][n]
                 /\ barrier[v] = "OPEN" /\ outcome[v][n] = None =>
                      jobs'[JobOf(v, n)].status # "COMPLETE"
              \/ /\ barrier[v] # Absent /\ outcome'[v][n] # None
                 /\ jobs'[JobOf(v, n)].status =
                      IF outcome'[v][n] = "MISSING" THEN "COMPLETE" ELSE outcome'[v][n]
  <2>1. CASE v = w /\ n = m
    <3>1. JobOf(v, n) = c.id BY <1>3, <1>4, <2>1 DEF JobOf
    <3>2. jobs'[JobOf(v, n)].status = "COMPLETE" BY <1>8, <1>13, <3>1
    <3>3. CASE barrier[w] = "OPEN"
      <4>1. outcome'[v][n] = made BY <1>15, <2>1, <3>3
      <4> QED BY <1>4, <1>10, <2>1, <3>2, <4>1, JobAssumption
    <3>4. CASE barrier[w] # "OPEN" BY <1>15, <2>1, <3>4
    <3> QED BY <3>3, <3>4
  <2>2. CASE ~(v = w /\ n = m)
    <3>1. outcome'[v][n] = outcome[v][n] BY <1>15, <2>2
    <3>2. ASSUME barrier[v] = "OPEN", outcome[v][n] = None
          PROVE  jobs'[JobOf(v, n)].status # "COMPLETE"
      <4>1. JobOf(v, n) # c.id BY <1>3, <2>2 DEF JobOf
      <4>2. JobOf(v, n) \in DOMAIN jobs BY <3>2 DEF TablesOK, BarriersOK, Absent
      <4>3. jobs[JobOf(v, n)].status # "COMPLETE" BY <3>2 DEF TablesOK, MembersAgreeWithJobs
      <4> QED BY <1>13, <4>1, <4>2, <4>3
    <3> QED BY <3>1, <3>2
  <2> QED BY <2>1, <2>2
<1>19. BarriersOK' /\ MembersAgreeWithJobs'
  BY <1>6, <1>11, <1>12, <1>14, <1>16, <1>17, <1>18, OutcomesAdded
<1>20. VerdictIsExact'
  <2>1. \A v \in Windows, n \in Members : barrier[v] # "OPEN" => outcome'[v][n] = outcome[v][n]
    BY <1>15
  <2>2. \A v \in Windows : barrier[v] \in {"COMPLETE", "FAILED"} => barrier[v] # "OPEN"
    OBVIOUS
  <2> QED BY <1>6, <2>1, <2>2 DEF TablesOK, VerdictIsExact
<1> QED BY <1>11, <1>12, <1>14, <1>19, <1>20 DEF TablesOK

LEMMA SeedTables ==
  ASSUME bars \in [Windows -> [Members -> Revisions]],
         TablesOK, RunnersOK, NEW r \in Runners, Seed(r),
         runner' = [runner EXCEPT ![r].pc = "claim", ![r].rounds = Rounds],
         ~Finish(r)
  PROVE  /\ TablesOK' /\ Opened \subseteq Opened' /\ WindowOf[r] \in Opened'
         /\ \A id \in DOMAIN jobs : id \in DOMAIN jobs' /\ jobs'[id] = jobs[id]
         /\ \A id \in DOMAIN jobs' \ DOMAIN jobs :
              jobs'[id].status = "PENDING" /\ jobs'[id].epoch = 0
<1> DEFINE w == WindowOf[r]
           checked == runner[r].checked
           input == [m \in Members |-> InputAt(w, m, checked)]
           ids == {<<w, m, input[m]>> : m \in Members}
<1>1. w \in Windows /\ checked \in Nat BY JobAssumption DEF RunnersOK, RunnerRows
<1>2. /\ \A m \in Members : input[m].outcome # "PENDING"
      /\ barrier[w] = Absent \/ expected[w] = input
      /\ jobs' = Enqueued(ids, checked)
      /\ barrier' = [barrier EXCEPT ![w] = IF barrier[w] = Absent THEN "OPEN" ELSE barrier[w]]
      /\ expected' = [expected EXCEPT ![w] = input]
      /\ outcome' = outcome /\ output' = output
  BY DEF Seed, OpenedForOther
<1>3. \A m \in Members : input[m] \in Inputs BY <1>1, <1>2, InputTyped
<1>4. barrier' \in [Windows -> {Absent, "OPEN", "COMPLETE", "FAILED"}] /\ barrier'[w] # Absent
  BY <1>1, <1>2 DEF TablesOK, BarriersOK, Absent
<1>5. Opened \subseteq Opened' /\ w \in Opened'
  <2>1. \A v \in Windows : barrier[v] # Absent => barrier'[v] # Absent
    BY <1>1, <1>2, <1>4 DEF TablesOK, BarriersOK
  <2> QED BY <1>1, <1>4, <2>1 DEF Opened
<1> DEFINE at == checked
<1> HIDE DEF checked, w, ids, at
<1>6. CASE barrier[w] # Absent
  <2>1. expected[w] = input BY <1>2, <1>6
  <2>2. ids \subseteq DOMAIN jobs BY <1>1, <1>6, <2>1 DEF ids, TablesOK, BarriersOK, JobOf
  <2>3. jobs' = jobs BY <1>2, <2>2 DEF Enqueued, TablesOK, JobsOK
  <2>4. barrier' = barrier BY <1>1, <1>2, <1>6 DEF TablesOK, BarriersOK
  <2>5. expected' = expected BY <1>1, <1>2, <2>1 DEF TablesOK, BarriersOK
  <2>6. TablesOK' BY <1>2, <2>3, <2>4, <2>5, TablesKept
  <2> QED BY <1>5, <2>3, <2>6 DEF w
<1>7. CASE barrier[w] = Absent
  <2>1. DOMAIN jobs' = DOMAIN jobs \cup ids BY <1>2 DEF Enqueued
  <2>2. \A id \in DOMAIN jobs : jobs'[id] = jobs[id] BY <1>2 DEF Enqueued
  <2>3. \A id \in ids \ DOMAIN jobs : jobs'[id] = PendingRow(checked) BY <1>2 DEF Enqueued
  <2>4. /\ RowOK(PendingRow(checked)) /\ PendingRow(checked).status = "PENDING"
        /\ PendingRow(checked).epoch = 0
    <3>1. 0 \in 0..MaximumAttempts BY JobAssumption
    <3> QED BY <1>1, <3>1 DEF PendingRow, RowOK, JobRows
  <2>5. \A id \in DOMAIN jobs : id[1] \in Windows /\ id[2] \in Members /\ id[1] # w
    BY <1>7, JobIdParts DEF TablesOK, JobsOK
  <2>6. ids \subseteq JobIds BY <1>1, <1>3 DEF ids, JobIds
  <2>7. \A id \in ids : id \notin DOMAIN jobs /\ id[1] = w /\ id[2] \in Members
                        /\ id[3] = input[id[2]]
    <3>1. \A id \in ids : id[1] = w /\ id[2] \in Members /\ id[3] = input[id[2]] BY DEF ids
    <3> QED BY <2>5, <3>1
  <2>8. /\ \A v \in Windows : v # w => barrier'[v] = barrier[v] /\ expected'[v] = expected[v]
        /\ barrier'[w] = "OPEN" /\ expected'[w] = input
    BY <1>1, <1>2, <1>7 DEF TablesOK, BarriersOK
  <2> HIDE DEF input
  <2>9. JobsOK'
    <3>1. ASSUME NEW id \in DOMAIN jobs'
          PROVE  /\ RowOK(jobs'[id]) /\ id \in JobIds
                 /\ barrier'[id[1]] # Absent /\ expected'[id[1]][id[2]] = id[3]
      <4>1. CASE id \in DOMAIN jobs BY <2>2, <2>5, <2>8, <4>1 DEF TablesOK, JobsOK
      <4>2. CASE id \in ids
        BY <2>3, <2>4, <2>6, <2>7, <2>8, <4>2 DEF Absent
      <4> QED BY <2>1, <4>1, <4>2
    <3>2. jobs' = [id \in DOMAIN jobs' |-> jobs'[id]] BY <1>2 DEF Enqueued
    <3>3. \A id \in DOMAIN jobs' : jobs'[id] \in JobRows BY <3>1 DEF RowOK
    <3>4. jobs' \in [DOMAIN jobs' -> JobRows] BY <3>2, <3>3
    <3> QED BY <3>1, <3>4 DEF JobsOK
  <2>10. \A m \in Members : outcome[w][m] = None BY <1>1, <1>7 DEF TablesOK, BarriersOK
  <2>11. ASSUME NEW v \in Windows, NEW m \in Members
         PROVE  /\ v # w => /\ JobOf(v, m)' = JobOf(v, m)
                            /\ barrier[v] # Absent => JobOf(v, m) \in DOMAIN jobs
                /\ v = w => /\ JobOf(v, m)' \in ids
                            /\ jobs'[JobOf(v, m)'].status = "PENDING"
    <3>1. CASE v # w BY <2>8, <3>1 DEF JobOf, TablesOK, BarriersOK
    <3>2. CASE v = w
      <4>1. JobOf(v, m)' \in ids BY <2>8, <3>2 DEF JobOf, ids
      <4> QED BY <2>3, <2>4, <2>7, <3>2, <4>1
    <3> QED BY <3>1, <3>2
  <2>12. BarriersOK'
    <3>1. expected' \in [Windows -> [Members -> Inputs \cup {None}]]
      <4>1. input \in [Members -> Inputs \cup {None}] BY <1>3 DEF input
      <4> QED BY <1>2, <4>1 DEF TablesOK, BarriersOK
    <3>2. ASSUME NEW v \in Windows, NEW m \in Members
          PROVE  /\ barrier'[v] = Absent => outcome'[v][m] = None
                 /\ barrier'[v] # Absent => JobOf(v, m)' \in DOMAIN jobs'
      <4>1. CASE v # w BY <1>2, <2>1, <2>8, <2>11, <4>1 DEF TablesOK, BarriersOK
      <4>2. CASE v = w BY <1>2, <2>1, <2>10, <2>11, <4>2
      <4> QED BY <4>1, <4>2
    <3>3. outcome' \in [Windows -> [Members -> {None, "COMPLETE", "FAILED", "BLOCKED", "MISSING"}]]
      BY <1>2 DEF TablesOK, BarriersOK
    <3> QED BY <1>4, <3>1, <3>2, <3>3 DEF BarriersOK
  <2>13. OutputOK'
    <3>1. \A id \in ids : jobs'[id].status = "PENDING" BY <2>3, <2>4, <2>7
    <3>2. {id \in DOMAIN jobs' : jobs'[id].status = "COMPLETE"}
            = {id \in DOMAIN jobs : jobs[id].status = "COMPLETE"}
      BY <2>1, <2>2, <3>1
    <3>3. \A id \in DOMAIN output : jobs'[id] = jobs[id] BY <2>2 DEF TablesOK, OutputOK
    <3> QED BY <1>2, <3>2, <3>3 DEF TablesOK, OutputOK
  <2>14. MembersAgreeWithJobs'
    <3> SUFFICES ASSUME NEW v \in Windows, NEW m \in Members
                 PROVE  /\ outcome'[v][m] \in {"COMPLETE", "MISSING"} =>
                             /\ jobs'[JobOf(v, m)'].status = "COMPLETE"
                             /\ JobOf(v, m)' \in DOMAIN output'
                        /\ outcome'[v][m] \in {"FAILED", "BLOCKED"} =>
                             jobs'[JobOf(v, m)'].status = outcome'[v][m]
                        /\ barrier'[v] = "OPEN" /\ outcome'[v][m] = None =>
                             jobs'[JobOf(v, m)'].status # "COMPLETE"
      BY DEF MembersAgreeWithJobs
    <3>1. None \notin {"COMPLETE", "FAILED", "BLOCKED", "MISSING"} BY JobAssumption
    <3>2. CASE v = w BY <1>2, <2>10, <2>11, <3>1, <3>2
    <3>3. CASE v # w
      <4>1. CASE barrier[v] = Absent
        <5>1. outcome'[v][m] = None /\ barrier'[v] = Absent
          BY <1>2, <2>8, <3>3, <4>1 DEF TablesOK, BarriersOK
        <5> QED BY <3>1, <5>1 DEF Absent
      <4>2. CASE barrier[v] # Absent
        <5>1. JobOf(v, m)' = JobOf(v, m) /\ JobOf(v, m) \in DOMAIN jobs BY <2>11, <3>3, <4>2
        <5>2. jobs'[JobOf(v, m)] = jobs[JobOf(v, m)] BY <2>2, <5>1
        <5> QED BY <1>2, <2>8, <3>3, <5>1, <5>2 DEF TablesOK, MembersAgreeWithJobs
      <4> QED BY <4>1, <4>2
    <3> QED BY <3>2, <3>3
  <2>15. VerdictIsExact' BY <1>2, <2>8 DEF TablesOK, VerdictIsExact
  <2>16. TablesOK' BY <2>9, <2>12, <2>13, <2>14, <2>15 DEF TablesOK
  <2> QED BY <1>5, <2>1, <2>2, <2>3, <2>4, <2>16 DEF w
<1> QED BY <1>6, <1>7

-----------------------------------------------------------------------------
(* The steps.                                                                *)

(* What the queue goes through in a step: rows are added pending, and each    *)
(* row that was there makes one step.                                         *)
QueueStep ==
  /\ \A id \in DOMAIN jobs : id \in DOMAIN jobs' /\ RowStep(jobs[id], jobs'[id])
  /\ \A id \in DOMAIN jobs' \ DOMAIN jobs :
       jobs'[id].status = "PENDING" /\ jobs'[id].epoch = 0

LEMMA QueueKept ==
  ASSUME jobs' = jobs
  PROVE  QueueStep
BY DEF QueueStep, RowStep

LEMMA QueueRows ==
  ASSUME RowsStep
  PROVE  QueueStep
BY DEF QueueStep, RowsStep

LEMMA OpenedKept ==
  ASSUME barrier' = barrier
  PROVE  Opened' = Opened
BY DEF Opened

LEMMA InitIInv == Init => IInv
<1> SUFFICES ASSUME Init PROVE IInv OBVIOUS
<1>1. now \in Nat BY DEF Init
<1>2. {} \in Revisions
  <2>1. Cardinality({}) = 0 BY FS_EmptySet
  <2> QED BY <2>1, JobAssumption DEF Revisions
<1>3. bars \in [Windows -> [Members -> Revisions]] BY <1>2 DEF Init
<1>4. DOMAIN jobs = {} /\ DOMAIN output = {} BY DEF Init
<1>5. \A w \in Windows : barrier[w] = Absent BY DEF Init
<1>6. JobsOK BY <1>4 DEF Init, JobsOK
<1>7. BarriersOK BY <1>5 DEF Init, BarriersOK
<1>8. OutputOK BY <1>4 DEF Init, OutputOK
<1>9. MembersAgreeWithJobs
  <2>1. \A w \in Windows, m \in Members : outcome[w][m] = None BY DEF Init
  <2> QED BY <1>5, <2>1, JobAssumption DEF MembersAgreeWithJobs, Absent
<1>10. VerdictIsExact BY <1>5 DEF VerdictIsExact, Absent
<1>11. RunnersOK
  <2>1. \A r \in Runners : runner[r] = Idle BY DEF Init
  <2>2. runner \in [Runners -> RunnerRows] BY IdleTyped DEF Init
  <2>3. \A r \in Runners : Fits(Idle, r, DOMAIN jobs, Opened) BY IdleTyped DEF Fits
  <2> QED BY <2>1, <2>2, <2>3 DEF RunnersOK
<1> QED BY <1>1, <1>3, <1>6, <1>7, <1>8, <1>9, <1>10, <1>11 DEF IInv, TablesOK

(* A run's step, whatever it is. *)
LEMMA RunnerSteps ==
  ASSUME IInv, NEW r \in Runners, Finalize(r)
  PROVE  IInv' /\ QueueStep
<1> USE DEF IInv
<1>1. CASE Start(r)
  <2>1. /\ now' = now /\ bars' = bars /\ jobs' = jobs
        /\ UNCHANGED <<jobs, barrier, expected, outcome, output>>
    BY <1>1 DEF Start, tables
  <2> QED BY <1>1, <2>1, StartFits, TablesKept, QueueKept
<1>2. CASE Seed(r)
  <2>1. now' = now /\ bars' = bars /\ outcome' = outcome /\ output' = output BY <1>2 DEF Seed
  <2>2. CASE Finish(r) /\ UNCHANGED <<jobs, barrier, expected>>
    <3>1. jobs' = jobs /\ barrier' = barrier BY <2>2
    <3>2. RunnersOK' BY <2>2, <3>1, OpenedKept, Ends
    <3> QED BY <2>1, <2>2, <3>1, <3>2, TablesKept, QueueKept
  <2>3. CASE ~(Finish(r) /\ UNCHANGED <<jobs, barrier, expected>>)
    <3>1. runner' = [runner EXCEPT ![r].pc = "claim", ![r].rounds = Rounds]
      BY <1>2, <2>3 DEF Seed
    <3>2. ~Finish(r)
      <4>1. runner[r] \in RunnerRows BY DEF RunnersOK
      <4>2. runner'[r].pc = "claim" BY <3>1, <4>1 DEF RunnersOK, RunnerRows
      <4>3. Finish(r) => runner'[r].pc = "ended"
        <5>1. Finish(r) => runner'[r] = [Idle EXCEPT !.pc = "ended"] BY DEF Finish, RunnersOK
        <5> QED BY <5>1, IdleTyped
      <4> QED BY <4>2, <4>3
    <3>3. /\ TablesOK' /\ Opened \subseteq Opened' /\ WindowOf[r] \in Opened'
          /\ \A id \in DOMAIN jobs : id \in DOMAIN jobs' /\ jobs'[id] = jobs[id]
          /\ \A id \in DOMAIN jobs' \ DOMAIN jobs :
               jobs'[id].status = "PENDING" /\ jobs'[id].epoch = 0
      BY <1>2, <3>1, <3>2, SeedTables
    <3>4. DOMAIN jobs \subseteq DOMAIN jobs' BY <3>3
    <3>5. RunnersOK' BY <3>1, <3>3, <3>4, SeedFits
    <3>6. QueueStep BY <3>3 DEF QueueStep, RowStep
    <3> QED BY <2>1, <3>3, <3>5, <3>6
  <2> QED BY <2>2, <2>3
<1>3. CASE Claim(r)
  <2>1. now' = now /\ bars' = bars /\ UNCHANGED <<barrier, expected, outcome, output>>
    BY <1>3 DEF Claim
  <2>2. RunnersOK' BY <1>3, ClaimFits DEF TablesOK
  <2>3. /\ RowsStep
        /\ \A id \in DOMAIN jobs : jobs'[id].status = "COMPLETE" => jobs'[id] = jobs[id]
    BY <1>3, ClaimSteps DEF TablesOK
  <2>4. TablesOK' BY <2>1, <2>3, WithoutCompletion
  <2> QED BY <2>1, <2>2, <2>3, <2>4, QueueRows
<1>4. CASE Prepare(r)
  <2>1. /\ now' = now /\ bars' = bars /\ jobs' = jobs
        /\ UNCHANGED <<jobs, barrier, expected, outcome, output>>
    BY <1>4 DEF Prepare, tables
  <2> QED BY <1>4, <2>1, PrepareFits, TablesKept, QueueKept
<1>5. CASE Break(r)
  <2>1. /\ now' = now /\ bars' = bars /\ jobs' = jobs /\ barrier' = barrier
        /\ UNCHANGED <<jobs, barrier, expected, outcome, output>>
    BY <1>5 DEF Break, tables
  <2>2. /\ runner[r].pc = "complete"
        /\ runner' = [runner EXCEPT ![r].pc = "fail", ![r].retryable = TRUE]
    BY <1>5 DEF Break
  <2>3. RunnersOK' BY <2>1, <2>2, FailFits
  <2> QED BY <2>1, <2>3, TablesKept, QueueKept
<1>6. CASE Complete(r)
  <2>1. /\ now' = now /\ bars' = bars /\ barrier' = barrier /\ expected' = expected
        /\ runner[r].pc = "complete"
    BY <1>6 DEF Complete
  <2>2. \/ /\ runner' = [runner EXCEPT ![r].pc = "fail", ![r].retryable = FALSE]
           /\ UNCHANGED <<jobs, outcome, output>>
        \/ AfterJob(r)
    BY <1>6 DEF Complete
  <2>3. CASE /\ runner' = [runner EXCEPT ![r].pc = "fail", ![r].retryable = FALSE]
             /\ UNCHANGED <<jobs, outcome, output>>
    <3>1. jobs' = jobs /\ UNCHANGED <<jobs, barrier, expected, outcome, output>> BY <2>1, <2>3
    <3>2. RunnersOK' BY <2>1, <2>3, FailFits
    <3> QED BY <2>1, <3>1, <3>2, TablesKept, QueueKept
  <2>4. CASE AfterJob(r)
    <3>1. runner'[r].pc # "fail"
      <4>1. runner[r] \in RunnerRows BY DEF RunnersOK
      <4> DEFINE rest == runner[r].batch # {}
                 left == IF rest THEN runner[r].rounds ELSE runner[r].rounds - 1
      <4>2. runner'[r].pc = IF rest THEN "work" ELSE IF left = 0 THEN "evaluate" ELSE "claim"
        BY <2>4, <4>1 DEF AfterJob, RunnersOK, RunnerRows
      <4> QED BY <4>2
    <3>2. TablesOK' /\ RowsStep BY <1>6, <3>1, CompleteTables
    <3>3. DOMAIN jobs' = DOMAIN jobs BY <3>2 DEF RowsStep
    <3>4. RunnersOK' BY <2>1, <2>4, <3>3, OpenedKept, Proceeds
    <3> QED BY <2>1, <3>2, <3>4, QueueRows
  <2> QED BY <2>2, <2>3, <2>4
<1>7. CASE Fail(r)
  <2>1. /\ now' = now /\ bars' = bars /\ barrier' = barrier
        /\ UNCHANGED <<barrier, expected, outcome, output>> /\ runner[r].pc = "fail"
    BY <1>7 DEF Fail
  <2>2. TablesOK' /\ QueueStep /\ DOMAIN jobs' = DOMAIN jobs
    <3>1. CASE jobs' = jobs BY <2>1, <3>1, TablesKept, QueueKept
    <3>2. CASE jobs' # jobs
      <4>1. HoldsLease(r, runner[r].claim) BY <1>7, <3>2 DEF Fail
      <4>2. /\ RowsStep
            /\ \A id \in DOMAIN jobs : jobs'[id].status = "COMPLETE" => jobs'[id] = jobs[id]
        BY <1>7, <3>2, <4>1, FailSteps DEF TablesOK
      <4>3. TablesOK' BY <2>1, <4>2, WithoutCompletion
      <4>4. DOMAIN jobs' = DOMAIN jobs BY <4>2 DEF RowsStep
      <4> QED BY <4>2, <4>3, <4>4, QueueRows
    <3> QED BY <3>1, <3>2
  <2>3. Finish(r) \/ AfterJob(r) BY <1>7 DEF Fail
  <2>4. RunnersOK' BY <2>1, <2>2, <2>3, OpenedKept, Ends, Proceeds
  <2> QED BY <2>1, <2>2, <2>4
<1>8. CASE Evaluate(r)
  <2>1. now' = now /\ bars' = bars /\ jobs' = jobs /\ Finish(r) BY <1>8 DEF Evaluate
  <2>2. TablesOK' /\ Opened' = Opened BY <1>8, EvaluateTables
  <2>3. RunnersOK' BY <2>1, <2>2, Ends
  <2> QED BY <2>1, <2>2, <2>3, QueueKept
<1>9. CASE Stop(r)
  <2>1. /\ now' = now /\ bars' = bars /\ jobs' = jobs /\ barrier' = barrier
        /\ UNCHANGED <<jobs, barrier, expected, outcome, output>> /\ Finish(r)
    BY <1>9 DEF Stop, tables
  <2>2. RunnersOK' BY <2>1, OpenedKept, Ends
  <2> QED BY <2>1, <2>2, TablesKept, QueueKept
<1> QED BY <1>1, <1>2, <1>3, <1>4, <1>5, <1>6, <1>7, <1>8, <1>9 DEF Finalize

LEMMA RunnersKept ==
  ASSUME RunnersOK, runner' = runner, jobs' = jobs, barrier' = barrier
  PROVE  RunnersOK'
BY OpenedKept DEF RunnersOK

LEMMA NextIInv == IInv /\ [Next]_vars => IInv' /\ QueueStep
<1> SUFFICES ASSUME IInv, [Next]_vars PROVE IInv' /\ QueueStep OBVIOUS
<1> USE DEF IInv
<1>1. ASSUME NEW r \in Runners, Finalize(r) PROVE IInv' /\ QueueStep BY <1>1, RunnerSteps
<1>2. ASSUME NEW w \in Windows, NEW m \in Members, NEW t \in 0..MaxTime, Observe(w, m, t)
      PROVE  IInv' /\ QueueStep
  <2>1. /\ now' = now /\ runner' = runner /\ jobs' = jobs /\ barrier' = barrier
        /\ UNCHANGED <<jobs, barrier, expected, outcome, output>>
        /\ bars' = [bars EXCEPT ![w][m] = bars[w][m] \cup {t}]
        /\ t \notin bars[w][m] /\ Cardinality(bars[w][m]) < MaxRevisions
    BY <1>2 DEF Observe
  <2>2. bars[w][m] \cup {t} \in Revisions BY <2>1, RevisionAdded
  <2>3. bars' \in [Windows -> [Members -> Revisions]] BY <2>1, <2>2
  <2> QED BY <2>1, <2>3, TablesKept, RunnersKept, QueueKept
<1>3. CASE Tick
  <2>1. /\ now' = now + 1 /\ runner' = runner /\ jobs' = jobs /\ barrier' = barrier
        /\ UNCHANGED <<jobs, barrier, expected, outcome, output>> /\ bars' = bars
    BY <1>3 DEF Tick, tables
  <2> QED BY <2>1, TablesKept, RunnersKept, QueueKept
<1>4. CASE UNCHANGED vars
  <2>1. /\ now' = now /\ runner' = runner /\ jobs' = jobs /\ barrier' = barrier
        /\ UNCHANGED <<jobs, barrier, expected, outcome, output>> /\ bars' = bars
    BY <1>4 DEF vars, tables
  <2> QED BY <2>1, TablesKept, RunnersKept, QueueKept
<1> QED BY <1>1, <1>2, <1>3, <1>4 DEF Next

(* The inductive invariant: every run that works has a barrier, whose members *)
(* bind the only jobs of their window; a completed job is one with an output. *)
THEOREM Invariance == Spec => []IInv
<1>1. Init => IInv BY InitIInv
<1>2. IInv /\ [Next]_vars => IInv' BY NextIInv
<1> QED BY <1>1, <1>2, PTL DEF Spec

(* Every table and local keeps its type, and a job is LEASED exactly while it *)
(* has an owner.                                                              *)
THEOREM TypeCorrect == Spec => []TypeOK
<1>1. IInv => TypeOK
  <2> SUFFICES ASSUME IInv PROVE TypeOK OBVIOUS
  <2>1. JobsOK /\ BarriersOK /\ OutputOK /\ RunnersOK BY DEF IInv, TablesOK
  <2>2. DOMAIN jobs \subseteq JobIds BY <2>1 DEF JobsOK
  <2>3. \A id \in DOMAIN jobs :
          jobs[id] \in JobRows /\ (jobs[id].status = "LEASED" <=> jobs[id].owner # None)
    BY <2>1 DEF JobsOK, RowOK
  <2>4. DOMAIN output \subseteq DOMAIN jobs BY <2>1 DEF OutputOK
  <2>5. \A id \in DOMAIN output : output[id] \in [input : Inputs \cup {None}, epoch : Nat]
    <3>1. \A id \in DOMAIN output : output[id] \in [input : Inputs, epoch : Nat]
      BY <2>1 DEF OutputOK
    <3> QED BY <3>1
  <2> QED BY <2>1, <2>2, <2>3, <2>4, <2>5 DEF IInv, BarriersOK, RunnersOK, TypeOK
<1> QED BY <1>1, Invariance, PTL

(* A barrier's member and its job always agree, however runs overlap, expire  *)
(* and restart, and an open barrier never waits for a completed job.          *)
THEOREM MembersAgree == Spec => []MembersAgreeWithJobs
<1>1. IInv => MembersAgreeWithJobs BY DEF IInv, TablesOK
<1> QED BY <1>1, Invariance, PTL

(* A verdict is exact for the universe it was opened for, and stays so. *)
THEOREM VerdictExact == Spec => []VerdictIsExact
<1>1. IInv => VerdictIsExact BY DEF IInv, TablesOK
<1> QED BY <1>1, Invariance, PTL

(* What a job committed was made from the input its closure names. *)
THEOREM OutputOfItsClosure == Spec => []OutputIsOfItsClosure
<1>1. IInv => OutputIsOfItsClosure BY DEF IInv, TablesOK, OutputOK, OutputIsOfItsClosure
<1> QED BY <1>1, Invariance, PTL

-----------------------------------------------------------------------------
(* The queue implements LeasedWork.                                          *)

(* What the queue promises of a job in one step. *)
LEMMA WorkSteps ==
  ASSUME IInv, IInv', QueueStep, NEW x \in JobIds
  PROVE  Queue!Same(x) \/ Queue!Grant(x) \/ Queue!Finish(x) \/ Queue!GiveUp(x)
<1> DEFINE Granted == [id \in JobIds |-> IF id \in DOMAIN jobs THEN jobs[id].epoch ELSE 0]
           Finished == [id \in JobIds |-> IF id \in DOMAIN output THEN output[id].epoch ELSE 0]
           Given == {id \in DOMAIN jobs : jobs[id].status \in {"FAILED", "BLOCKED"}}
<1>1. /\ JobsOK /\ OutputOK /\ JobsOK' /\ OutputOK' BY DEF IInv, TablesOK
<1>2. /\ Granted[x] = IF x \in DOMAIN jobs THEN jobs[x].epoch ELSE 0
      /\ Granted'[x] = IF x \in DOMAIN jobs' THEN jobs'[x].epoch ELSE 0
  OBVIOUS
<1>3. Finished[x] = IF x \in DOMAIN jobs /\ jobs[x].status = "COMPLETE"
                    THEN jobs[x].epoch ELSE 0
  BY <1>1 DEF OutputOK
<1>4. Finished'[x] = IF x \in DOMAIN jobs' /\ jobs'[x].status = "COMPLETE"
                     THEN jobs'[x].epoch ELSE 0
  BY <1>1 DEF OutputOK
<1>5. /\ x \in Given <=> x \in DOMAIN jobs /\ jobs[x].status \in {"FAILED", "BLOCKED"}
      /\ x \in Given' <=> x \in DOMAIN jobs' /\ jobs'[x].status \in {"FAILED", "BLOCKED"}
  OBVIOUS
<1>6. x \in DOMAIN jobs => /\ jobs[x].epoch \in Nat
                           /\ jobs[x].status # "PENDING" => jobs[x].epoch > 0
                           /\ x \in DOMAIN jobs' /\ RowStep(jobs[x], jobs'[x])
  BY <1>1 DEF JobsOK, RowOK, JobRows, QueueStep
<1>7. x \in DOMAIN jobs' =>
        jobs'[x].status \in {"PENDING", "LEASED", "COMPLETE", "FAILED", "BLOCKED"}
  BY <1>1 DEF JobsOK, JobRows
<1>8. x \in DOMAIN jobs' /\ x \notin DOMAIN jobs =>
        jobs'[x].status = "PENDING" /\ jobs'[x].epoch = 0
  BY DEF QueueStep
<1> HIDE DEF Granted, Finished, Given
<1>9. \/ Granted'[x] = Granted[x] /\ Finished'[x] = Finished[x] /\ (x \in Given' <=> x \in Given)
      \/ /\ Finished[x] = 0 /\ x \notin Given
         /\ Granted'[x] = Granted[x] + 1 /\ Finished'[x] = 0 /\ x \notin Given'
      \/ /\ Finished[x] = 0 /\ x \notin Given /\ Granted[x] # 0
         /\ Granted'[x] = Granted[x] /\ Finished'[x] = Granted[x] /\ x \notin Given'
      \/ /\ Finished[x] = 0 /\ x \notin Given /\ Granted[x] # 0
         /\ Granted'[x] = Granted[x] /\ Finished'[x] = 0 /\ x \in Given'
  <2>1. CASE x \notin DOMAIN jobs BY <1>2, <1>3, <1>4, <1>5, <1>8, <2>1
  <2>2. CASE x \in DOMAIN jobs /\ jobs'[x] = jobs[x]
    BY <1>2, <1>3, <1>4, <1>5, <1>6, <2>2
  <2>3. CASE /\ x \in DOMAIN jobs
             /\ jobs[x].status \in {"PENDING", "LEASED"} /\ jobs'[x].status = "LEASED"
             /\ jobs'[x].epoch = jobs[x].epoch + 1
    BY <1>2, <1>3, <1>4, <1>5, <1>6, <2>3
  <2>4. CASE /\ x \in DOMAIN jobs
             /\ jobs[x].status = "LEASED" /\ jobs'[x].status # "LEASED"
             /\ jobs'[x].epoch = jobs[x].epoch
    BY <1>2, <1>3, <1>4, <1>5, <1>6, <1>7, <2>4
  <2> QED BY <1>6, <2>1, <2>2, <2>3, <2>4 DEF RowStep
<1> QED BY <1>9 DEF Granted, Finished, Given, Queue!Same, Queue!Grant, Queue!Finish,
                    Queue!GiveUp, Queue!Open

(* However runs overlap, expire and restart, also under one lease owner, a    *)
(* job's output is committed at most once, by the claim granted last, and a   *)
(* settled job is never claimed again.                                        *)
THEOREM Implements == Spec => ImplementsLeasedWork
<1>1. Init => Queue!Init
  BY DEF Init, Queue!Init
<1>2. IInv /\ IInv' /\ [Next]_vars => [Queue!Next]_Queue!vars
  BY NextIInv, WorkSteps DEF Queue!Next
<1> QED BY <1>1, <1>2, Invariance, PTL DEF Spec, Queue!Spec, ImplementsLeasedWork

=============================================================================
