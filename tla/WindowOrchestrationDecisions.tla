-------------------- MODULE WindowOrchestrationDecisions ---------------------
(* What a thread or a coordinator decided stays true until it acts on it:    *)
(* prerequisites stay complete, causes of a block stay, a concluded window   *)
(* stays settled, and what a release names stays backed, whatever other      *)
(* processes and abandoned threads do in between.                            *)
EXTENDS WindowOrchestrationProofs

-----------------------------------------------------------------------------
(* What one step does to the rows of one stage.                              *)

Starts(w, s) ==
  \E c \in Claims, l \in Lanes :
    /\ c[1] = w /\ Held(c)
    /\ lane[c][l].pc = "start" /\ lane[c][l].stage = s
    /\ lane[c][l].attempt > Attempts(w, s)
    /\ runs'[w][s] = Append(runs[w][s], NewRow("RUNNING"))

Blocks(w, s) ==
  \E c \in Claims, l \in Lanes :
    /\ c[1] = w /\ Held(c)
    /\ lane[c][l].pc = "block" /\ lane[c][l].stage = s
    /\ runs'[w][s] = Append(runs[w][s], NewRow("BLOCKED_PREREQ"))

Misses(w, s) ==
  \E c \in Claims :
    /\ c[1] = w /\ Held(c)
    /\ session[c].pc = "miss" /\ s \in session[c].todo
    /\ runs'[w][s] = Append(runs[w][s], NewRow("MISSED"))

\* RUNNING attempts end.
Settles(w, s) ==
  /\ window[w].state = "RUNNING"
  /\ Len(runs'[w][s]) = Len(runs[w][s])
  /\ \A a \in 1..Len(runs[w][s]) :
       \/ runs'[w][s][a] = runs[w][s][a]
       \/ runs[w][s][a].state = "RUNNING" /\ runs'[w][s][a].state \in RunOutcomes

Closes(w, s) ==
  /\ window[w].state = "PENDING" /\ runs[w][s] = <<>>
  /\ runs'[w][s] = <<NewRow("UNAVAILABLE")>>

Keeps(w, s) == runs'[w][s] = runs[w][s]

RowStep(w, s) ==
  Keeps(w, s) \/ Starts(w, s) \/ Blocks(w, s) \/ Misses(w, s) \/ Settles(w, s) \/ Closes(w, s)

\* Failing RUNNING rows of a held window settles them.
LEMMA FailSettles ==
  ASSUME LocalInv, NEW c \in Claims, Held(c), NEW stages, NEW lost \in BOOLEAN,
         runs' = FailRunning(c[1], stages, lost), NEW w \in Windows, NEW s \in Stages
  PROVE  RowStep(w, s)
<1>1. CASE w # c[1]
  <2>1. Keeps(w, s) BY <1>1, FailRunningType, ClaimParts DEF Keeps
  <2> QED BY <2>1 DEF RowStep
<1>2. CASE w = c[1]
  <2> DEFINE q == runs[w][s]
             p == runs'[w][s]
  <2>1. /\ Len(p) = Len(q)
        /\ \A a \in 1..Len(q) : p[a] = q[a] \/ (Running(w, s, a) /\ p[a].state = "FAILED")
    BY <1>2, FailRunningType
  <2>2. \A a \in 1..Len(q) : Running(w, s, a) => q[a].state = "RUNNING" BY DEF Running
  <2>3. window[w].state = "RUNNING" BY <1>2 DEF Held
  <2>4. Settles(w, s) BY <2>1, <2>2, <2>3 DEF Settles, RunOutcomes
  <2> QED BY <2>4 DEF RowStep
<1> QED BY <1>1, <1>2

\* The rows of a stage after a step of a thread,
LEMMA ThreadRows ==
  ASSUME LocalInv, NEW c \in Claims, NEW l \in Lanes, Advance(c, l) \/ Run(c, l) \/ LaneFault(c, l),
         NEW w \in Windows, NEW s \in Stages
  PROVE  RowStep(w, s)
<1> DEFINE t == lane[c][l].stage
<1>0. JobOK(l, lane[c][l]) BY DEF LocalInv
<1>1. c[1] \in Windows /\ (lane[c][l].pc \in Working => t \in Stages)
  BY <1>0, Parameters, ClaimParts DEF JobOK
<1>2. CASE UNCHANGED runs BY <1>2 DEF RowStep, Keeps
<1>3. CASE LaneBlock(c, l) /\ ~UNCHANGED runs
  <2>1. lane[c][l].pc = "block" /\ Held(c) /\ runs' = Insert(c[1], t, NewRow("BLOCKED_PREREQ"))
    BY <1>3 DEF LaneBlock
  <2>2. NewRow("BLOCKED_PREREQ") \in RunRows /\ t \in Stages BY <1>1, <2>1, Rows DEF Working
  <2>3. runs'[w][s] = IF w = c[1] /\ s = t THEN Append(runs[w][s], NewRow("BLOCKED_PREREQ"))
                      ELSE runs[w][s]
    BY <1>1, <2>1, <2>2, InsertType
  <2> QED BY <2>1, <2>3 DEF RowStep, Keeps, Blocks
<1>4. CASE LaneStart(c, l) /\ ~UNCHANGED runs
  <2>1. /\ lane[c][l].pc = "start" /\ Held(c) /\ runs' = Insert(c[1], t, NewRow("RUNNING"))
        /\ lane[c][l].attempt > Attempts(c[1], t)
    BY <1>4 DEF LaneStart
  <2>2. NewRow("RUNNING") \in RunRows /\ t \in Stages BY <1>1, <2>1, Rows DEF Working
  <2>3. runs'[w][s] = IF w = c[1] /\ s = t THEN Append(runs[w][s], NewRow("RUNNING"))
                      ELSE runs[w][s]
    BY <1>1, <2>1, <2>2, InsertType
  <2> QED BY <2>1, <2>3 DEF RowStep, Keeps, Starts
<1>5. CASE LaneFinish(c, l) /\ ~UNCHANGED runs
  <2> DEFINE j == lane[c][l]
             at == IF j.outcome = "DEFERRED" THEN Least(now + RetryDelay, Deadline[c[1]]) ELSE 0
             row == [NewRow(j.outcome) EXCEPT !.retryAt = at]
             a == j.attempt
             q == runs[w][s]
  <2>1. /\ j.pc = "finish" /\ Held(c) /\ Mine(c, l)
        /\ runs' = [runs EXCEPT ![c[1]][t][a] = row]
    BY <1>5 DEF LaneFinish
  <2>2. j.outcome \in RunOutcomes BY <1>0, <2>1 DEF JobOK
  <2>3. row.state \in RunOutcomes
    <3> HIDE DEF at
    <3> QED BY <2>2 DEF NewRow
  <2>4. t \in Stages BY <1>1, <2>1 DEF Working
  <2>5. runs[c[1]][t][a].state = "RUNNING" BY <2>1 DEF Mine, Running
  <2>6. window[c[1]].state = "RUNNING" BY <2>1 DEF Held
  <2> HIDE DEF row, a, j, t
  <2>7. runs'[w][s] = IF w = c[1] /\ s = t THEN [q EXCEPT ![a] = row] ELSE q
    BY <1>1, <2>1, <2>4, TablesTyped
  <2>8. CASE w = c[1] /\ s = t
    <3>1. q \in Seq(RunRows) BY TablesTyped
    <3>2. runs'[w][s] = [q EXCEPT ![a] = row] /\ q[a].state = "RUNNING" BY <2>5, <2>7, <2>8
    <3>3. /\ Len(runs'[w][s]) = Len(q)
          /\ \A b \in 1..Len(q) : runs'[w][s][b] = IF b = a THEN row ELSE q[b]
      <4> HIDE DEF q
      <4> QED BY <3>1, <3>2
    <3>4. Settles(w, s) BY <2>3, <2>6, <2>8, <3>2, <3>3 DEF Settles
    <3> QED BY <3>4 DEF RowStep
  <2>9. CASE ~(w = c[1] /\ s = t) BY <2>7, <2>9 DEF RowStep, Keeps
  <2> QED BY <2>8, <2>9
<1> QED BY <1>2, <1>3, <1>4, <1>5
        DEF Advance, Run, LaneIdle, LaneDecide, LaneBlock, LaneStart, LaneReceipt, LaneFinish,
            LaneAdvance, LaneReadiness, OpenTransaction, CommitTransaction, RunnerReturns,
            LaneFault, db

\* ... of a coordinator,
LEMMA CoordinatorRows ==
  ASSUME LocalInv, NEW c \in Claims, Coordinate(c) \/ Heartbeat(c) \/ CoordinatorFault(c),
         NEW w \in Windows, NEW s \in Stages
  PROVE  RowStep(w, s)
<1>1. \/ UNCHANGED runs
      \/ Held(c) /\ runs' = FailRunning(c[1], Stages, TRUE)
      \/ Held(c) /\ \E stages : runs' = FailRunning(c[1], stages, FALSE)
      \/ /\ session[c].pc = "miss" /\ Held(c)
         /\ \E t \in session[c].todo : runs' = Insert(c[1], t, NewRow("MISSED"))
  BY DEF Coordinate, Recover, BeginRound, CancelOverrun, TimeOutLanes, EndRound, Conclude,
         RecordMissed, Reread, CloseWindow, Heartbeat, CoordinatorFault, db
<1>2. CASE UNCHANGED runs BY <1>2 DEF RowStep, Keeps
<1>3. ASSUME NEW stages, NEW lost \in BOOLEAN, Held(c), runs' = FailRunning(c[1], stages, lost)
      PROVE  RowStep(w, s)
  BY <1>3, FailSettles
<1>4. ASSUME session[c].pc = "miss", Held(c), NEW t \in session[c].todo,
             runs' = Insert(c[1], t, NewRow("MISSED"))
      PROVE  RowStep(w, s)
  <2>1. t \in Stages BY <1>4, Parameters DEF LocalInv, SessionOK
  <2>2. NewRow("MISSED") \in RunRows BY Rows
  <2>3. runs'[w][s] = IF w = c[1] /\ s = t THEN Append(runs[w][s], NewRow("MISSED"))
                      ELSE runs[w][s]
    BY <1>4, <2>1, <2>2, InsertType, ClaimParts
  <2> QED BY <1>4, <2>3 DEF RowStep, Keeps, Misses
<1>5. TRUE \in BOOLEAN /\ FALSE \in BOOLEAN OBVIOUS
<1> QED BY <1>1, <1>2, <1>3, <1>4, <1>5, Zenon

\* ... and so of any process.
LEMMA RowSteps ==
  ASSUME LocalInv, [Next]_vars, NEW w \in Windows, NEW s \in Stages PROVE RowStep(w, s)
<1>0. UNCHANGED runs => RowStep(w, s) BY DEF RowStep, Keeps
<1>1. CASE UNCHANGED vars BY <1>0, <1>1 DEF vars, db
<1>2. ASSUME NEW o \in Owners, NEW v \in Windows, Claim(o, v) PROVE RowStep(w, s)
  BY <1>0, <1>2 DEF Claim
<1>3. ASSUME NEW c \in Claims, Coordinate(c) \/ Heartbeat(c) \/ CoordinatorFault(c)
      PROVE  RowStep(w, s)
  BY <1>3, CoordinatorRows
<1>4. ASSUME NEW c \in Claims, NEW l \in Lanes, Advance(c, l) \/ Run(c, l) \/ LaneFault(c, l)
      PROVE  RowStep(w, s)
  BY <1>4, ThreadRows
<1>5. ASSUME NEW t \in Stages, NEW status \in {"READY", "BLOCKED"}, ResidentTick(t, status)
      PROVE  RowStep(w, s)
  BY <1>0, <1>5 DEF ResidentTick
<1>6. ASSUME NEW v \in Windows, MarkUnavailable(v) PROVE RowStep(w, s)
  <2>1. /\ window[v].state = "PENDING" /\ \A t \in Stages : runs[v][t] = <<>>
        /\ runs' = [runs EXCEPT ![v] = [t \in Stages |->
             IF t \in Enabled THEN <<NewRow("UNAVAILABLE")>> ELSE <<>>]]
    BY <1>6 DEF MarkUnavailable
  <2>2. runs'[w][s] = IF w # v THEN runs[w][s]
                      ELSE IF s \in Enabled THEN <<NewRow("UNAVAILABLE")>> ELSE <<>>
    BY <2>1, TablesTyped
  <2> QED BY <2>1, <2>2 DEF RowStep, Keeps, Closes
<1>7. ASSUME NEW o \in Owners, Crash(o) PROVE RowStep(w, s) BY <1>0, <1>7 DEF Crash, db
<1>8. CASE Tick BY <1>0, <1>8 DEF Tick, db
<1> QED BY <1>1, <1>2, <1>3, <1>4, <1>5, <1>6, <1>7, <1>8 DEF Next

-----------------------------------------------------------------------------
(* The decisions: what a thread or coordinator that holds its window relies  *)
(* on until it acts.                                                         *)

\* p ended without completing, and will not be retried.
Blocking(w, p) == LatestState(w, p) \in NonCompletingStates /\ ~OrphanRetry(w, p)

HasRun(w, s) == \E a \in 1..Attempts(w, s) : runs[w][s][a].state \in Executed

\* A thread about to insert: its stage is not complete, and what it decided on holds.
JobDecided(w, j) ==
  /\ j.pc \in {"block", "start"} => LatestState(w, j.stage) # "COMPLETE"
  /\ j.pc = "start" =>
       /\ \A p \in Prerequisites[j.stage] \cap WindowStages : LatestState(w, p) = "COMPLETE"
       /\ j.attempt <= Attempts(w, j.stage) + 1
       /\ j.attempt > Attempts(w, j.stage) => j.stage \in Pending(w)
  /\ j.pc = "block" => \E p \in Prerequisites[j.stage] : Blocking(w, p)

JobsDecided == \A c \in Claims, l \in Lanes : Held(c) => JobDecided(c[1], lane[c][l])

\* No stage that depends on p has run, nor is a thread about to start one.
Untouched(c, p) ==
  \A s \in Stages : p \in Prerequisites[s] =>
    /\ ~HasRun(c[1], s)
    /\ \A l \in Lanes : lane[c][l].pc = "start" => lane[c][l].stage # s

\* The coordinator records as MISSED what is pending after the deadline, and
\* finishes a window in which nothing is.
SessionDecided(c) ==
  /\ session[c].pc = "miss" =>
       /\ now >= Deadline[c[1]]
       /\ Pending(c[1]) \subseteq session[c].todo
       /\ \A p \in session[c].todo : Untouched(c, p)
  /\ session[c].pc = "finish" =>
       /\ Pending(c[1]) = {}
       /\ session[c].final = "COMPLETE"
            <=> \A s \in WindowStages : LatestState(c[1], s) = "COMPLETE"

SessionsDecided == \A c \in Claims : Held(c) => SessionDecided(c)

DecisionInv ==
  /\ JobsDecided /\ SessionsDecided
  /\ PrerequisitesComplete /\ BlockedForCause /\ ClosedWindowSettled

\* A new row has the state it is written with.
LEMMA NewRows ==
  \A state \in RunStates \cup {"RUNNING", "BLOCKED_PREREQ", "MISSED", "UNAVAILABLE"} :
    NewRow(state) \in RunRows /\ NewRow(state).state = state
<1>1. {"RUNNING", "BLOCKED_PREREQ", "MISSED", "UNAVAILABLE"} \subseteq RunStates
  BY Rows DEF RunStates, TerminalStates, NonCompletingStates
<1> QED BY <1>1, Rows DEF NewRow

\* What a record that is added shows.
LEMMA Appended ==
  ASSUME LocalInv, NEW w \in Windows, NEW s \in Stages, NEW row \in RunRows,
         runs'[w][s] = Append(runs[w][s], row)
  PROVE  /\ Attempts(w, s)' = Attempts(w, s) + 1 /\ Attempts(w, s) \in Nat
         /\ LatestState(w, s)' = row.state
         /\ Latest(w, s)' = row
         /\ \A a \in 1..Attempts(w, s) : runs'[w][s][a] = runs[w][s][a]
<1> DEFINE q == runs[w][s]
           p == runs'[w][s]
<1>1. q \in Seq(RunRows) BY TablesTyped
<1>2. /\ p # <<>> /\ Len(p) = Len(q) + 1 /\ Len(q) \in Nat /\ p[Len(p)] = row
      /\ \A a \in 1..Len(q) : p[a] = q[a]
  <2>1. p = Append(q, row) OBVIOUS
  <2> HIDE DEF q, p
  <2> QED BY <1>1, <2>1
<1> QED BY <1>2 DEF Attempts, Latest, LatestState

\* A stage has a last record, or none.
LEMMA LatestKinds ==
  ASSUME LocalInv, NEW w \in Windows, NEW s \in Stages
  PROVE  /\ Attempts(w, s) \in Nat
         /\ LatestState(w, s) = Absent <=> runs[w][s] = <<>>
         /\ LatestState(w, s) # Absent =>
              /\ Attempts(w, s) \in 1..Attempts(w, s)
              /\ LatestState(w, s) = runs[w][s][Attempts(w, s)].state
              /\ LatestState(w, s) \in RunStates
<1>1. runs[w][s] \in Seq(RunRows) BY TablesTyped
<1>2. Len(runs[w][s]) \in Nat /\ (runs[w][s] = <<>> <=> Len(runs[w][s]) = 0) BY <1>1
<1>3. \A a \in 1..Len(runs[w][s]) : runs[w][s][a].state \in RunStates
  <2>1. \A a \in 1..Len(runs[w][s]) : runs[w][s][a] \in RunRows BY <1>1
  <2> QED BY <2>1 DEF RunRows
<1>4. Absent \notin RunStates BY Rows DEF Absent, RunStates, TerminalStates, NonCompletingStates
<1>5. CASE runs[w][s] = <<>> BY <1>2, <1>5 DEF Attempts, LatestState
<1>6. CASE runs[w][s] # <<>>
  <2>1. Len(runs[w][s]) \in 1..Len(runs[w][s]) BY <1>2, <1>6
  <2>2. LatestState(w, s) = runs[w][s][Len(runs[w][s])].state
    BY <1>6 DEF LatestState, Latest, Attempts
  <2> QED BY <1>2, <1>3, <1>4, <1>6, <2>1, <2>2 DEF Attempts
<1> QED BY <1>5, <1>6

\* A stage whose last record stays.
LEMMA SameLatest ==
  ASSUME NEW w \in Windows, NEW s \in Stages, Keeps(w, s)
  PROVE  /\ Attempts(w, s)' = Attempts(w, s) /\ LatestState(w, s)' = LatestState(w, s)
         /\ OrphanRetry(w, s)' <=> OrphanRetry(w, s)
         /\ HasRun(w, s)' <=> HasRun(w, s)
  BY DEF Keeps, Attempts, LatestState, Latest, OrphanRetry, HasRun, Executed

\* When attempts end, the last record stays unless it was RUNNING.
LEMMA SettledLatest ==
  ASSUME LocalInv, LocalInv', NEW w \in Windows, NEW s \in Stages, Settles(w, s)
  PROVE  /\ Attempts(w, s)' = Attempts(w, s)
         /\ HasRun(w, s)' <=> HasRun(w, s)
         /\ LatestState(w, s) # "RUNNING" =>
              /\ LatestState(w, s)' = LatestState(w, s)
              /\ OrphanRetry(w, s)' <=> OrphanRetry(w, s)
         /\ LatestState(w, s) = "RUNNING" => LatestState(w, s)' \in RunOutcomes \cup {"RUNNING"}
<1> DEFINE q == runs[w][s]
           p == runs'[w][s]
<1>1. q \in Seq(RunRows) /\ Len(q) \in Nat /\ (q = <<>> <=> Len(q) = 0) BY TablesTyped
<1>2. p \in Seq(RunRows)
  <2>1. runs' \in [Windows -> [Stages -> Seq(RunRows)]] BY Constants DEF LocalInv, TypeOK
  <2> QED BY <2>1
<1>3. p = <<>> <=> Len(p) = 0 BY <1>2
<1>4. /\ Len(p) = Len(q)
      /\ \A a \in 1..Len(q) : p[a] = q[a] \/ (q[a].state = "RUNNING" /\ p[a].state \in RunOutcomes)
  BY DEF Settles
<1>5. HasRun(w, s)' <=> HasRun(w, s)
  <2>1. \A a \in 1..Len(q) : p[a].state \in Executed <=> q[a].state \in Executed
    <3> HIDE DEF p, q
    <3> QED BY <1>4 DEF Executed, RunOutcomes
  <2> QED BY <1>4, <2>1 DEF HasRun, Attempts, Executed
<1>6. Attempts(w, s)' = Attempts(w, s) BY <1>4 DEF Attempts
<1>7. CASE q = <<>>
  <2>1. p = <<>> BY <1>1, <1>3, <1>4, <1>7
  <2>2. LatestState(w, s) = Absent /\ LatestState(w, s)' = Absent
    BY <1>7, <2>1 DEF LatestState, Absent
  <2> QED BY <1>5, <1>6, <2>2 DEF OrphanRetry, Absent
<1>8. CASE q # <<>>
  <2>1. Len(q) \in 1..Len(q) /\ p # <<>> BY <1>1, <1>3, <1>4, <1>8
  <2>2. LatestState(w, s) = q[Len(q)].state /\ LatestState(w, s)' = p[Len(q)].state
    BY <1>4, <1>8, <2>1 DEF LatestState, Latest, Attempts
  <2>3. Latest(w, s) = q[Len(q)] /\ Latest(w, s)' = p[Len(q)] BY <1>4 DEF Latest, Attempts
  <2>4. p[Len(q)] = q[Len(q)] \/ (q[Len(q)].state = "RUNNING" /\ p[Len(q)].state \in RunOutcomes)
    BY <1>4, <2>1
  <2> HIDE DEF p, q
  <2> QED BY <1>5, <1>6, <2>2, <2>3, <2>4 DEF OrphanRetry
<1> QED BY <1>7, <1>8

\* Where no attempt is RUNNING there is none to end.
LEMMA IdleSettles ==
  ASSUME LocalInv, LocalInv', NEW w \in Windows, NEW s \in Stages, Idle(runs[w][s]), Settles(w, s)
  PROVE  LatestState(w, s) # "RUNNING"
  BY LatestKinds DEF Idle, Attempts, Absent

\* What an ended stage, not to be retried, can become: it stays, or a record
\* of a block or of a missed deadline is put on it.
LEMMA EndedStays ==
  ASSUME LocalInv, LocalInv', JobsDecided, NEW w \in Windows, NEW s \in Stages, RowStep(w, s),
         LatestState(w, s) \in TerminalStates, ~OrphanRetry(w, s)
  PROVE  /\ ~OrphanRetry(w, s)'
         /\ \/ LatestState(w, s)' = LatestState(w, s)
            \/ LatestState(w, s)' = "BLOCKED_PREREQ" /\ LatestState(w, s) # "COMPLETE"
            \/ LatestState(w, s)' = "MISSED" /\ Misses(w, s)
<1>1. LatestState(w, s) \notin {"RUNNING", "DEFERRED", Absent}
  BY DEF TerminalStates, NonCompletingStates, Absent
<1>2. CASE Keeps(w, s) BY <1>2, SameLatest
<1>3. CASE Starts(w, s)
  <2>1. PICK c \in Claims, l \in Lanes :
           /\ c[1] = w /\ Held(c)
           /\ lane[c][l].pc = "start" /\ lane[c][l].stage = s
           /\ lane[c][l].attempt > Attempts(w, s)
    BY <1>3 DEF Starts
  <2>2. s \in Pending(w) BY <2>1 DEF JobsDecided, JobDecided
  <2> QED BY <1>1, <2>2 DEF Pending
<1>4. CASE Blocks(w, s)
  <2>1. PICK c \in Claims, l \in Lanes :
           /\ c[1] = w /\ Held(c)
           /\ lane[c][l].pc = "block" /\ lane[c][l].stage = s
           /\ runs'[w][s] = Append(runs[w][s], NewRow("BLOCKED_PREREQ"))
    BY <1>4 DEF Blocks
  <2>2. LatestState(w, s) # "COMPLETE" BY <2>1 DEF JobsDecided, JobDecided
  <2>3. LatestState(w, s)' = "BLOCKED_PREREQ" BY <2>1, NewRows, Appended
  <2> QED BY <2>2, <2>3 DEF OrphanRetry
<1>5. CASE Misses(w, s)
  <2>1. runs'[w][s] = Append(runs[w][s], NewRow("MISSED")) BY <1>5 DEF Misses
  <2>2. LatestState(w, s)' = "MISSED" BY <2>1, NewRows, Appended
  <2> QED BY <1>5, <2>2 DEF OrphanRetry
<1>6. CASE Settles(w, s) BY <1>1, <1>6, SettledLatest
<1>7. CASE Closes(w, s) BY <1>1, <1>7, LatestKinds DEF Closes
<1> QED BY <1>2, <1>3, <1>4, <1>5, <1>6, <1>7 DEF RowStep

\* A stage that blocks others goes on blocking them.
LEMMA BlockingStays ==
  ASSUME LocalInv, LocalInv', JobsDecided, NEW w \in Windows, NEW p \in Stages, RowStep(w, p),
         Blocking(w, p)
  PROVE  Blocking(w, p)'
<1>1. LatestState(w, p) \in TerminalStates /\ ~OrphanRetry(w, p) BY DEF Blocking, TerminalStates
<1>2. /\ ~OrphanRetry(w, p)'
      /\ LatestState(w, p)' \in {LatestState(w, p), "BLOCKED_PREREQ", "MISSED"}
  BY <1>1, EndedStays
<1> QED BY <1>2 DEF Blocking, NonCompletingStates

\* A complete stage stays complete, unless it is recorded as missed.
LEMMA CompleteStays ==
  ASSUME LocalInv, LocalInv', JobsDecided, NEW w \in Windows, NEW p \in Stages, RowStep(w, p),
         LatestState(w, p) = "COMPLETE", ~Misses(w, p)
  PROVE  LatestState(w, p)' = "COMPLETE"
<1>1. LatestState(w, p) \in TerminalStates /\ ~OrphanRetry(w, p)
  BY DEF TerminalStates, OrphanRetry
<1> QED BY <1>1, EndedStays

\* A stage that is not pending does not become so again.
LEMMA SettledStays ==
  ASSUME LocalInv, LocalInv', JobsDecided, NEW w \in Windows, NEW s \in WindowStages,
         RowStep(w, s), s \notin Pending(w)
  PROVE  s \notin Pending(w)' /\ LatestState(w, s) \in TerminalStates
<1>1. s \in Stages BY Parameters
<1>2. LatestState(w, s) \in TerminalStates /\ ~OrphanRetry(w, s)
  BY <1>1, LatestKinds DEF Pending, RunStates
<1>3. /\ ~OrphanRetry(w, s)'
      /\ LatestState(w, s)' \in {LatestState(w, s), "BLOCKED_PREREQ", "MISSED"}
  BY <1>1, <1>2, EndedStays
<1>4. LatestState(w, s)' \notin {Absent, "RUNNING", "DEFERRED"}
  BY <1>2, <1>3 DEF TerminalStates, NonCompletingStates, Absent
<1> QED BY <1>2, <1>3, <1>4 DEF Pending, Absent

\* A stage runs for the first time when a thread starts it.
LEMMA FirstRun ==
  ASSUME LocalInv, LocalInv', NEW w \in Windows, NEW s \in Stages, RowStep(w, s),
         HasRun(w, s)', ~HasRun(w, s)
  PROVE  Starts(w, s)
<1>1. ASSUME NEW row \in RunRows, runs'[w][s] = Append(runs[w][s], row), row.state \notin Executed
      PROVE  FALSE
  <2>1. /\ Attempts(w, s)' = Attempts(w, s) + 1 /\ Attempts(w, s) \in Nat
        /\ Latest(w, s)' = row
        /\ \A a \in 1..Attempts(w, s) : runs'[w][s][a] = runs[w][s][a]
    BY <1>1, Appended
  <2>2. PICK a \in 1..Attempts(w, s)' : runs'[w][s][a].state \in Executed
    BY DEF HasRun, Executed
  <2>3. a = Attempts(w, s)' \/ a \in 1..Attempts(w, s) BY <2>1, <2>2
  <2>4. runs'[w][s][Attempts(w, s)'] = row BY <2>1 DEF Latest
  <2> QED BY <1>1, <2>1, <2>2, <2>3, <2>4 DEF HasRun
<1>2. CASE Keeps(w, s) BY <1>2, SameLatest
<1>3. CASE Blocks(w, s)
  <2>1. NewRow("BLOCKED_PREREQ").state \notin Executed BY NewRows DEF Executed
  <2> QED BY <1>1, <1>3, <2>1, NewRows DEF Blocks
<1>4. CASE Misses(w, s)
  <2>1. NewRow("MISSED").state \notin Executed BY NewRows DEF Executed
  <2> QED BY <1>1, <1>4, <2>1, NewRows DEF Misses
<1>5. CASE Settles(w, s) BY <1>5, SettledLatest
<1>6. CASE Closes(w, s)
  <2>1. NewRow("UNAVAILABLE").state \notin Executed BY NewRows DEF Executed
  <2>2. runs'[w][s] = <<NewRow("UNAVAILABLE")>> BY <1>6 DEF Closes
  <2> HIDE DEF NewRow
  <2>3. \A a \in 1..Len(runs'[w][s]) : runs'[w][s][a] = NewRow("UNAVAILABLE") BY <2>2
  <2> QED BY <2>1, <2>3 DEF HasRun, Attempts, Executed
<1> QED BY <1>2, <1>3, <1>4, <1>5, <1>6 DEF RowStep

-----------------------------------------------------------------------------
(* What one step does to claims, threads and windows.                        *)

\* The clock does not go back.
LEMMA ClockKept == ASSUME LocalInv, [Next]_vars PROVE now' \in Nat /\ now' >= now
<1>1. now \in Nat BY TablesTyped
<1>2. now' = now \/ now' = now + 1
  <2>1. ASSUME NEW c \in Claims, Coordinate(c) \/ Heartbeat(c) \/ CoordinatorFault(c)
        PROVE  now' = now
    BY <2>1 DEF Coordinate, Recover, BeginRound, CancelOverrun, TimeOutLanes, EndRound, Conclude,
                RecordMissed, Reread, CloseWindow, Heartbeat, CoordinatorFault
  <2>2. ASSUME NEW c \in Claims, NEW l \in Lanes, Advance(c, l) \/ Run(c, l) \/ LaneFault(c, l)
        PROVE  now' = now
    BY <2>2 DEF Advance, Run, LaneIdle, LaneDecide, LaneBlock, LaneStart, LaneReceipt, LaneFinish,
                LaneAdvance, LaneReadiness, OpenTransaction, CommitTransaction, RunnerReturns,
                LaneFault
  <2> QED BY <2>1, <2>2 DEF Next, vars, Claim, ResidentTick, MarkUnavailable, Crash, Tick
<1> QED BY <1>1, <1>2

\* Who holds a window after a step held it before, or has just claimed it.
LEMMA HeldKept ==
  ASSUME LocalInv, OrderInv, [Next]_vars, NEW c \in Claims, HeldNext(c)
  PROVE  \/ Held(c)
         \/ session'[c].pc = "recover" /\ \A l \in Lanes : lane'[c][l].pc = "off"
<1>0. (\A w \in Windows : SameHolder(w)) /\ session'[c].owner = session[c].owner => Held(c)
  BY HeldBefore, ClaimParts
<1>1. CASE UNCHANGED vars BY <1>0, <1>1, SameWindow DEF vars, db
<1>2. ASSUME NEW o \in Owners, NEW w \in Windows, Claim(o, w)
      PROVE  \/ Held(c)
             \/ session'[c].pc = "recover" /\ \A l \in Lanes : lane'[c][l].pc = "off"
  <2> DEFINE d == <<w, window[w].epoch + 1>>
  <2>1. window[w].epoch \in Nat BY EpochType
  <2>2. CASE c = d
    <3>1. Unclaimed(c) BY <2>1, <2>2 DEF OrderInv
    <3>2. UNCHANGED lane BY <1>2, ClaimEffect
    <3>3. session'[c].pc = "recover"
      <4> DEFINE r == [NoSession EXCEPT !.pc = "recover", !.owner = o]
      <4>1. session' = [session EXCEPT ![c] = r] BY <1>2, <2>2 DEF Claim
      <4>2. r.pc = "recover" BY DEF NoSession
      <4> HIDE DEF r
      <4> QED BY <4>1, <4>2, TablesTyped
    <3> QED BY <3>1, <3>2, <3>3 DEF Unclaimed
  <2>3. CASE c # d
    <3>1. session'[c] = session[c] BY <1>2, <2>3, ClaimEffect
    <3>2. c[1] # w
      <4>1. c[1] = w => c[2] = window[w].epoch + 1 BY <1>2, ClaimEffect DEF HeldNext
      <4> QED BY <2>3, <4>1, ClaimParts
    <3>3. window'[c[1]] = window[c[1]] BY <1>2, <3>2, ClaimEffect, ClaimParts
    <3> QED BY <3>1, <3>3 DEF HeldNext, Held
  <2> QED BY <2>2, <2>3
<1>3. ASSUME NEW d \in Claims, Coordinate(d) \/ Heartbeat(d) \/ CoordinatorFault(d) PROVE Held(c)
  BY <1>0, <1>3, CoordinatorFrames DEF CoordinatorFrame
<1>4. ASSUME NEW d \in Claims, NEW l \in Lanes, Advance(d, l) \/ Run(d, l) \/ LaneFault(d, l)
      PROVE  Held(c)
  BY <1>0, <1>4, ThreadFrames DEF ThreadFrame
<1>5. ASSUME NEW t \in Stages, NEW status \in {"READY", "BLOCKED"}, ResidentTick(t, status)
      PROVE  Held(c)
  BY <1>0, <1>5, SameWindow DEF ResidentTick
<1>6. ASSUME NEW v \in Windows, MarkUnavailable(v) PROVE Held(c)
  BY <1>0, <1>6, UnavailableHolder
<1>7. ASSUME NEW o \in Owners, Crash(o) PROVE Held(c) BY <1>0, <1>7, CrashEffect, SameWindow
<1>8. CASE Tick BY <1>0, <1>8, SameWindow DEF Tick, db
<1> QED BY <1>1, <1>2, <1>3, <1>4, <1>5, <1>6, <1>7, <1>8 DEF Next

\* A thread is about to insert because it was, or has just decided to.
LEMMA JobKept ==
  ASSUME LocalInv, [Next]_vars, NEW c \in Claims, NEW l \in Lanes,
         lane'[c][l].pc \in {"block", "start"}
  PROVE  lane'[c][l] = lane[c][l] \/ LaneDecide(c, l)
<1>1. CASE UNCHANGED lane BY <1>1
<1>2. ASSUME NEW d \in Claims, Coordinate(d) \/ Heartbeat(d) \/ CoordinatorFault(d)
      PROVE  lane'[c][l] = lane[c][l]
  BY <1>2, CoordinatorFrames DEF CoordinatorFrame
<1>3. ASSUME NEW d \in Claims, NEW m \in Lanes, Advance(d, m) \/ Run(d, m) \/ LaneFault(d, m)
      PROVE  lane'[c][l] = lane[c][l] \/ LaneDecide(c, l)
  BY <1>3, ThreadFrames DEF ThreadFrame
<1>4. ASSUME NEW o \in Owners, Crash(o) PROVE lane'[c][l] = lane[c][l] BY <1>4, CrashEffect
<1> QED BY <1>1, <1>2, <1>3, <1>4 DEF Next, vars, Claim, ResidentTick, MarkUnavailable, Tick

\* A coordinator records one stage as missed.
MissesOne(c) ==
  /\ session[c].pc = "miss" /\ session'[c].pc = "miss" /\ Held(c)
  /\ \E s \in session[c].todo :
       /\ runs' = Insert(c[1], s, NewRow("MISSED"))
       /\ session'[c].todo = session[c].todo \ {s}

\* What a coordinator does before it misses or finishes a window.
LEMMA CoordinatorSession ==
  ASSUME LocalInv, NEW c \in Claims, Coordinate(c) \/ Heartbeat(c) \/ CoordinatorFault(c),
         session'[c].pc \in {"miss", "finish"}
  PROVE  session'[c] = session[c] \/ Conclude(c) \/ Reread(c) \/ MissesOne(c)
<1> DEFINE R == session[c]
<1>0. session \in [Claims -> SessionRows] /\ R \in SessionRows BY TablesTyped
<1>1. CASE End(c)
  <2>1. PICK r : r.pc = "ended" /\ session' = [session EXCEPT ![c] = r] BY <1>1, EndOK
  <2> QED BY <1>0, <2>1
<1>2. CASE UNCHANGED session BY <1>2
<1>3. ASSUME NEW pc \in {"round", "wait", "conclude"}, session' = [session EXCEPT ![c].pc = pc]
      PROVE  FALSE
  <2>1. session'[c].pc = pc BY <1>0, <1>3 DEF SessionRows
  <2> QED BY <2>1
<1>4. CASE BeginRound(c)
  <2> DEFINE active == Lanes \ R.abandoned
             pc == IF active = {} THEN "conclude" ELSE "wait"
             ends == [l \in Lanes |-> IF l \in active THEN LaneEnd(c[1], l) ELSE R.ends[l]]
             r == [R EXCEPT !.pc = pc, !.active = active, !.ends = ends]
  <2>1. session' = [session EXCEPT ![c] = r] BY <1>4 DEF BeginRound
  <2>2. r.pc = pc
    <3> HIDE DEF active, pc, ends
    <3> QED BY <1>0 DEF SessionRows
  <2>3. pc \in {"conclude", "wait"} OBVIOUS
  <2> HIDE DEF r, pc
  <2> QED BY <1>0, <2>1, <2>2, <2>3
<1>5. CASE CancelOverrun(c)
  <2> DEFINE r == [R EXCEPT !.pc = "timeout", !.todo = Overrun(c), !.cancelled = @ \cup Overrun(c)]
  <2>1. session' = [session EXCEPT ![c] = r] BY <1>5 DEF CancelOverrun
  <2>2. r.pc = "timeout" BY <1>0 DEF SessionRows
  <2> HIDE DEF r
  <2> QED BY <1>0, <2>1, <2>2
<1>6. CASE TimeOutLanes(c) /\ ~End(c)
  <2> DEFINE r == [R EXCEPT !.pc = "wait", !.todo = {}, !.abandoned = @ \cup R.todo]
  <2>1. session' = [session EXCEPT ![c] = r] BY <1>0, <1>6 DEF TimeOutLanes, LeaseLost
  <2>2. r.pc = "wait" BY <1>0 DEF SessionRows
  <2> HIDE DEF r
  <2> QED BY <1>0, <2>1, <2>2
<1>7. CASE RecordMissed(c) /\ ~End(c)
  <2>1. R.pc = "miss" BY <1>7 DEF RecordMissed
  <2>2. PICK s \in R.todo :
           /\ Held(c) /\ runs' = Insert(c[1], s, NewRow("MISSED"))
           /\ session' = [session EXCEPT ![c].todo = @ \ {s}]
    BY <1>7 DEF RecordMissed, LeaseLost
  <2> DEFINE todo == R.todo \ {s}
             r == [R EXCEPT !.todo = todo]
  <2>3. session' = [session EXCEPT ![c] = r] BY <2>2
  <2>4. r.pc = "miss" /\ r.todo = todo
    <3> HIDE DEF todo
    <3> QED BY <1>0, <2>1 DEF SessionRows
  <2> HIDE DEF r
  <2>5. session'[c].pc = "miss" /\ session'[c].todo = todo BY <1>0, <2>3, <2>4
  <2> QED BY <2>1, <2>2, <2>5 DEF MissesOne
<1> QED BY <1>1, <1>2, <1>3, <1>4, <1>5, <1>6, <1>7
        DEF Coordinate, Recover, LeaseLost, EndRound, CloseWindow, Heartbeat, CoordinatorFault

\* The same of any step.
LEMMA SessionKept ==
  ASSUME LocalInv, [Next]_vars, NEW c \in Claims, session'[c].pc \in {"miss", "finish"}
  PROVE  session'[c] = session[c] \/ Conclude(c) \/ Reread(c) \/ MissesOne(c)
<1>1. CASE UNCHANGED session BY <1>1
<1>2. ASSUME NEW o \in Owners, NEW w \in Windows, Claim(o, w) PROVE session'[c] = session[c]
  <2> DEFINE d == <<w, window[w].epoch + 1>>
             r == [NoSession EXCEPT !.pc = "recover", !.owner = o]
  <2>1. session' = [session EXCEPT ![d] = r] BY <1>2 DEF Claim
  <2>2. r.pc = "recover" BY DEF NoSession
  <2> HIDE DEF r, d
  <2> QED BY <2>1, <2>2, TablesTyped
<1>3. ASSUME NEW d \in Claims, Coordinate(d) \/ Heartbeat(d) \/ CoordinatorFault(d)
      PROVE  session'[c] = session[c] \/ Conclude(c) \/ Reread(c) \/ MissesOne(c)
  <2>1. CASE d = c BY <1>3, <2>1, CoordinatorSession
  <2>2. CASE d # c BY <1>3, <2>2, CoordinatorFrames DEF CoordinatorFrame
  <2> QED BY <2>1, <2>2
<1>4. ASSUME NEW d \in Claims, NEW l \in Lanes, Advance(d, l) \/ Run(d, l) \/ LaneFault(d, l)
      PROVE  session'[c] = session[c]
  BY <1>4, ThreadFrames DEF ThreadFrame
<1>5. ASSUME NEW o \in Owners, Crash(o) PROVE session'[c] = session[c]
  <2> DEFINE r == [NoSession EXCEPT !.pc = "ended", !.owner = o]
  <2>1. session'[c] = IF session[c].owner = o THEN r ELSE session[c] BY <1>5 DEF Crash
  <2>2. r.pc = "ended" BY DEF NoSession
  <2> HIDE DEF r
  <2> QED BY <2>1, <2>2
<1> QED BY <1>1, <1>2, <1>3, <1>4, <1>5 DEF Next, vars, ResidentTick, MarkUnavailable, Tick

\* A window is closed by the claim that holds it, with what it concluded.
LEMMA WindowKept ==
  ASSUME LocalInv, [Next]_vars, NEW w \in Windows, window'[w].state \in OwnedWindowStates
  PROVE  \/ window[w].state = window'[w].state
         \/ \E c \in Claims : /\ c[1] = w /\ Held(c) /\ UNCHANGED runs
                              /\ session[c].pc = "finish" /\ window'[w].state = session[c].final
<1>0. window \in [Windows -> WindowRows] /\ window[w] \in WindowRows BY TablesTyped
<1>1. CASE UNCHANGED window BY <1>1
<1>2. ASSUME NEW c \in Claims, window' = Renewed(c) PROVE window[w].state = window'[w].state
  BY <1>2, RenewedType
<1>3. ASSUME NEW o \in Owners, NEW v \in Windows, Claim(o, v)
      PROVE  window[w].state = window'[w].state
  <2> DEFINE row == [state |-> "RUNNING", owner |-> o, epoch |-> window[v].epoch + 1,
                     lease |-> now + LeaseSeconds]
  <2>1. window' = [window EXCEPT ![v] = row] BY <1>3 DEF Claim
  <2>2. row.state = "RUNNING" OBVIOUS
  <2> HIDE DEF row
  <2> QED BY <1>0, <2>1, <2>2 DEF OwnedWindowStates
<1>4. ASSUME NEW c \in Claims, CloseWindow(c)
      PROVE  \/ window[w].state = window'[w].state
             \/ /\ c[1] = w /\ Held(c) /\ UNCHANGED runs
                /\ session[c].pc = "finish" /\ window'[w].state = session[c].final
  <2>1. CASE UNCHANGED window BY <2>1
  <2>2. CASE ~UNCHANGED window
    <3> DEFINE state == IF session[c].pc = "finish" THEN session[c].final ELSE "PENDING"
               row == [window[c[1]] EXCEPT !.state = state, !.lease = 0]
    <3>1. Held(c) /\ UNCHANGED runs /\ window' = [window EXCEPT ![c[1]] = row]
      BY <1>0, <1>4, <2>2, ClaimParts DEF CloseWindow
    <3>2. row.state = state
      <4>1. window[c[1]] \in WindowRows BY <1>0, ClaimParts
      <4> HIDE DEF state
      <4> QED BY <4>1 DEF WindowRows
    <3> HIDE DEF row
    <3>3. c[1] # w => window'[w] = window[w] BY <1>0, <3>1
    <3>4. c[1] = w => window'[w].state = state BY <1>0, <3>1, <3>2
    <3>5. window'[w].state # "PENDING" BY DEF OwnedWindowStates
    <3> QED BY <3>1, <3>3, <3>4, <3>5
  <2> QED BY <2>1, <2>2
<1>5. ASSUME NEW v \in Windows, MarkUnavailable(v) PROVE window[w].state = window'[w].state
  <2> DEFINE row == [window[v] EXCEPT !.state = "UNAVAILABLE", !.owner = None, !.lease = 0]
  <2>1. window' = [window EXCEPT ![v] = row] BY <1>0, <1>5 DEF MarkUnavailable
  <2>2. row.state = "UNAVAILABLE" BY <1>0 DEF WindowRows
  <2> HIDE DEF row
  <2>3. window'[w] = IF w = v THEN row ELSE window[w] BY <1>0, <2>1
  <2>4. w # v BY <2>2, <2>3 DEF OwnedWindowStates
  <2> QED BY <2>3, <2>4
<1>6. ASSUME NEW c \in Claims, Coordinate(c) \/ Heartbeat(c) \/ CoordinatorFault(c)
      PROVE  window' = window \/ window' = Renewed(c) \/ CloseWindow(c)
  BY <1>6 DEF db, Coordinate, Recover, BeginRound, CancelOverrun, TimeOutLanes, EndRound, Conclude,
              RecordMissed, Reread, Heartbeat, CoordinatorFault
<1>7. ASSUME NEW c \in Claims, NEW l \in Lanes, Advance(c, l) \/ Run(c, l) \/ LaneFault(c, l)
      PROVE  window' = window \/ window' = Renewed(c)
  BY <1>7 DEF db, Advance, Run, LaneIdle, LaneDecide, LaneBlock, LaneStart, LaneReceipt, LaneFinish,
              LaneAdvance, LaneReadiness, OpenTransaction, CommitTransaction, RunnerReturns,
              LaneFault
<1> QED BY <1>1, <1>2, <1>3, <1>4, <1>5, <1>6, <1>7 DEF Next, vars, db, ResidentTick, Crash, Tick

-----------------------------------------------------------------------------
(* The decisions are kept.                                                   *)

\* While no attempt of a stage is RUNNING, its last record changes only with
\* the number of its attempts.
LEMMA ClearRows ==
  ASSUME LocalInv, LocalInv', NEW w \in Windows, NEW s \in Stages, Idle(runs[w][s]), RowStep(w, s)
  PROVE  \/ /\ Attempts(w, s)' = Attempts(w, s) /\ LatestState(w, s)' = LatestState(w, s)
            /\ OrphanRetry(w, s)' <=> OrphanRetry(w, s)
         \/ /\ Attempts(w, s)' = Attempts(w, s) + 1
            /\ LatestState(w, s)' # "COMPLETE"
<1>1. ASSUME NEW state \in {"RUNNING", "BLOCKED_PREREQ", "MISSED", "UNAVAILABLE"},
             runs'[w][s] = Append(runs[w][s], NewRow(state))
      PROVE  Attempts(w, s)' = Attempts(w, s) + 1 /\ LatestState(w, s)' # "COMPLETE"
  <2>1. NewRow(state) \in RunRows /\ NewRow(state).state = state BY NewRows
  <2> QED BY <1>1, <2>1, Appended
<1>2. CASE Keeps(w, s) BY <1>2, SameLatest
<1>3. CASE Starts(w, s) BY <1>1, <1>3 DEF Starts
<1>4. CASE Blocks(w, s) BY <1>1, <1>4 DEF Blocks
<1>5. CASE Misses(w, s) BY <1>1, <1>5 DEF Misses
<1>6. CASE Settles(w, s) BY <1>6, IdleSettles, SettledLatest
<1>7. CASE Closes(w, s)
  <2>1. runs[w][s] = <<>> /\ runs'[w][s] = <<NewRow("UNAVAILABLE")>> BY <1>7 DEF Closes
  <2>2. runs'[w][s] = Append(runs[w][s], NewRow("UNAVAILABLE"))
    <3> HIDE DEF NewRow
    <3> QED BY <2>1
  <2> QED BY <1>1, <2>2
<1> QED BY <1>2, <1>3, <1>4, <1>5, <1>6, <1>7 DEF RowStep

\* What a thread chooses is decided.
LEMMA DecideDecides ==
  ASSUME LocalInv, NEW c \in Claims, NEW l \in Lanes, LaneDecide(c, l)
  PROVE  /\ JobDecided(c[1], lane'[c][l])
         /\ now < Deadline[c[1]]
<1> DEFINE w == c[1]
<1>1. PICK s \in Steps(c, l) : lane' = [lane EXCEPT ![c][l] =
            [NoJob EXCEPT !.pc = IF Decide(c, s) = "RUN" THEN "start" ELSE "block",
                          !.stage = s, !.attempt = Attempts(w, s) + 1, !.progressed = TRUE]]
  BY DEF LaneDecide
<1> DEFINE pc == IF Decide(c, s) = "RUN" THEN "start" ELSE "block"
           n == Attempts(w, s) + 1
           j == [NoJob EXCEPT !.pc = pc, !.stage = s, !.attempt = n, !.progressed = TRUE]
<1>2. lane'[c][l] = j
  <2>1. lane' = [lane EXCEPT ![c][l] = j] BY <1>1
  <2> HIDE DEF j
  <2> QED BY <2>1, TablesTyped
<1>3. j.pc = pc /\ j.stage = s /\ j.attempt = n
  <2> HIDE DEF pc, n
  <2> QED BY DEF NoJob
<1>4. s \in WindowStages /\ s \in Stages /\ w \in Windows BY Parameters, ClaimParts DEF Steps
<1>5. Decision(s, DecisionStates(w), ready, WindowStages) \in {"RUN", "BLOCK_PREREQ"}
  BY DEF Steps, Decide
<1>6. \A t \in Stages : DecisionStates(w)[t] =
        IF OrphanRetry(w, t) \/ DeferredRetry(w, t) THEN Absent
        ELSE IF LatestState(w, t) = "DEFERRED" THEN "RUNNING"
        ELSE LatestState(w, t)
  BY DEF DecisionStates
<1>7. DecisionStates(w)[s] \notin TerminalStates \cup {"RUNNING", "DEFERRED"}
  BY <1>4, <1>5 DEF Decision, Undecided
<1>8. LatestState(w, s) # "COMPLETE" /\ s \in Pending(w)
  <2>1. CASE OrphanRetry(w, s) BY <1>4, <2>1 DEF OrphanRetry, Pending
  <2>2. CASE DeferredRetry(w, s) BY <1>4, <2>2 DEF DeferredRetry, Pending
  <2>3. CASE ~(OrphanRetry(w, s) \/ DeferredRetry(w, s))
    <3>1. LatestState(w, s) \notin TerminalStates BY <1>4, <1>6, <1>7, <2>3
    <3>2. LatestState(w, s) \in {Absent, "RUNNING", "DEFERRED"}
      BY <1>4, <3>1, LatestKinds DEF RunStates
    <3> QED BY <1>4, <3>1, <3>2 DEF Pending, TerminalStates
  <2> QED BY <2>1, <2>2, <2>3
<1>9. Prerequisites[s] \subseteq Stages BY <1>4, CatalogAssumption DEF CatalogAssumption
<1>10. pc = "start" => \A p \in Prerequisites[s] \cap WindowStages : LatestState(w, p) = "COMPLETE"
  <2> SUFFICES ASSUME pc = "start", NEW p \in Prerequisites[s] \cap WindowStages
               PROVE  LatestState(w, p) = "COMPLETE"
    OBVIOUS
  <2>1. Decision(s, DecisionStates(w), ready, WindowStages) = "RUN" BY DEF Decide
  <2>2. Satisfied(p, DecisionStates(w), ready, WindowStages) BY <1>4, <2>1 DEF Decision
  <2>3. DecisionStates(w)[p] = "COMPLETE" BY <2>2 DEF Satisfied, WindowStages
  <2> QED BY <1>6, <1>9, <2>3 DEF Absent
<1>11. pc = "block" => \E p \in Prerequisites[s] : Blocking(w, p)
  <2> SUFFICES ASSUME pc = "block" PROVE \E p \in Prerequisites[s] : Blocking(w, p) OBVIOUS
  <2>1. Decision(s, DecisionStates(w), ready, WindowStages) = "BLOCK_PREREQ" BY <1>5 DEF Decide
  <2>2. Blockers(s, DecisionStates(w)) # {} BY <1>4, <2>1 DEF Decision
  <2>3. PICK p \in Prerequisites[s] : DecisionStates(w)[p] \in NonCompletingStates
    BY <2>2 DEF Blockers
  <2>4. Blocking(w, p) BY <1>6, <1>9, <2>3 DEF Blocking, NonCompletingStates, Absent
  <2> QED BY <2>4
<1>12. Attempts(w, s) \in Nat BY <1>4, LatestKinds
<1>13. pc \in {"start", "block"} OBVIOUS
<1>14. now < Deadline[w]
  <2>1. now \in Nat /\ Deadline[w] \in Nat BY <1>4, TablesTyped, Parameters
  <2> QED BY <2>1 DEF LaneDecide, Stopped
<1> HIDE DEF j, pc
<1>15. JobDecided(w, j)
  BY <1>3, <1>4, <1>8, <1>10, <1>11, <1>12, <1>13 DEF JobDecided
<1> QED BY <1>2, <1>14, <1>15

\* What a thread relies on stays true.
LEMMA JobStays ==
  ASSUME LocalInv, LocalInv', ClearToInsert, JobsDecided, SessionsDecided, [Next]_vars,
         NEW c \in Claims, NEW l \in Lanes, Held(c), lane'[c][l] = lane[c][l],
         lane[c][l].pc \in {"block", "start"}
  PROVE  JobDecided(c[1], lane[c][l])'
<1> DEFINE w == c[1]
           j == lane[c][l]
           s == j.stage
<1>1. w \in Windows /\ s \in WindowStages /\ s \in Stages /\ j.attempt \in Nat
  <2>1. JobOK(l, j) BY DEF LocalInv
  <2>2. j \in Jobs BY TablesTyped
  <2> QED BY <2>1, <2>2, Parameters, ClaimParts DEF JobOK, Working, Jobs
<1>2. JobDecided(w, j) BY DEF JobsDecided
<1>3. Prerequisites[s] \subseteq Stages BY <1>1, CatalogAssumption DEF CatalogAssumption
<1>4. \A t \in Stages : RowStep(w, t) BY <1>1, RowSteps
<1>5. Idle(runs[w][s]) BY DEF ClearToInsert
<1>6. \/ /\ Attempts(w, s)' = Attempts(w, s) /\ LatestState(w, s)' = LatestState(w, s)
         /\ OrphanRetry(w, s)' <=> OrphanRetry(w, s)
      \/ /\ Attempts(w, s)' = Attempts(w, s) + 1
         /\ LatestState(w, s)' # "COMPLETE"
  BY <1>1, <1>4, <1>5, ClearRows
<1>7. Attempts(w, s) \in Nat BY <1>1, LatestKinds
<1>8. LatestState(w, s)' # "COMPLETE" BY <1>2, <1>6 DEF JobDecided
<1>9. ASSUME j.pc = "start", NEW p \in Prerequisites[s] \cap WindowStages
      PROVE  LatestState(w, p)' = "COMPLETE"
  <2>1. LatestState(w, p) = "COMPLETE" BY <1>2, <1>9 DEF JobDecided
  <2>2. ~Misses(w, p)
    <3> SUFFICES ASSUME Misses(w, p) PROVE FALSE OBVIOUS
    <3>1. PICK d \in Claims : /\ d[1] = w /\ Held(d)
                              /\ session[d].pc = "miss" /\ p \in session[d].todo
      BY DEF Misses
    <3>2. d = c BY <3>1, OneHolder
    <3>3. Untouched(c, p) BY <3>1, <3>2 DEF SessionsDecided, SessionDecided
    <3> QED BY <1>1, <1>9, <3>3 DEF Untouched
  <2> QED BY <1>1, <1>3, <1>4, <2>1, <2>2, CompleteStays
<1>10. ASSUME j.pc = "start" PROVE j.attempt <= Attempts(w, s)' + 1
  <2>1. j.attempt <= Attempts(w, s) + 1 BY <1>2, <1>10 DEF JobDecided
  <2> HIDE DEF s, j
  <2> QED BY <1>1, <1>6, <1>7, <2>1
<1>11. ASSUME j.pc = "start", j.attempt > Attempts(w, s)' PROVE s \in Pending(w)'
  <2>1. j.attempt <= Attempts(w, s) + 1 BY <1>2, <1>11 DEF JobDecided
  <2>2. Attempts(w, s)' = Attempts(w, s)
    <3> HIDE DEF s, j
    <3> QED BY <1>1, <1>6, <1>7, <1>11, <2>1
  <2>3. /\ LatestState(w, s)' = LatestState(w, s)
        /\ OrphanRetry(w, s)' <=> OrphanRetry(w, s)
    <3> HIDE DEF s, j
    <3> QED BY <1>6, <1>7, <2>2
  <2>4. s \in Pending(w) BY <1>2, <1>11, <2>2 DEF JobDecided
  <2> QED BY <1>1, <2>3, <2>4, Constants DEF Pending, Absent
<1>12. ASSUME j.pc = "block" PROVE \E p \in Prerequisites[s] : Blocking(w, p)'
  <2>1. PICK p \in Prerequisites[s] : Blocking(w, p) BY <1>2, <1>12 DEF JobDecided
  <2>2. Blocking(w, p)' BY <1>1, <1>3, <1>4, <2>1, BlockingStays
  <2> QED BY <2>2
<1>13. lane'[c][l] = j OBVIOUS
<1> QED BY <1>8, <1>9, <1>10, <1>11, <1>12, <1>13, Constants DEF JobDecided


LEMMA JobsKept ==
  ASSUME LocalInv, LocalInv', OrderInv, ClearToInsert, JobsDecided, SessionsDecided, [Next]_vars
  PROVE  JobsDecided'
<1> SUFFICES ASSUME NEW c \in Claims, NEW l \in Lanes, HeldNext(c)
             PROVE  JobDecided(c[1], lane[c][l])'
  BY Constants DEF JobsDecided, Held, HeldNext
<1>1. CASE lane'[c][l].pc \notin {"block", "start"} BY <1>1 DEF JobDecided
<1>2. CASE lane'[c][l].pc \in {"block", "start"}
  <2>1. Held(c)
    <3>1. Held(c) \/ \A m \in Lanes : lane'[c][m].pc = "off" BY HeldKept
    <3> QED BY <1>2, <3>1
  <2>2. CASE LaneDecide(c, l)
    <3>1. JobDecided(c[1], lane'[c][l]) BY <2>2, DecideDecides
    <3>2. runs' = runs BY <2>2 DEF LaneDecide, db
    <3> DEFINE w == c[1]
               j == lane'[c][l]
    <3>3. /\ \A s : LatestState(w, s)' = LatestState(w, s) /\ Attempts(w, s)' = Attempts(w, s)
                    /\ (Blocking(w, s)' <=> Blocking(w, s))
          /\ Pending(w)' = Pending(w)
      BY <3>2, Constants DEF LatestState, Latest, Attempts, Pending, Blocking, OrphanRetry
    <3> QED BY <3>1, <3>3, Constants DEF JobDecided
  <2>3. CASE lane'[c][l] = lane[c][l] BY <1>2, <2>1, <2>3, JobStays
  <2> QED BY <1>2, <2>2, <2>3, JobKept
<1> QED BY <1>1, <1>2

\* After the deadline nothing is started that depends on a stage to be missed.
LEMMA UntouchedStays ==
  ASSUME LocalInv, LocalInv', [Next]_vars, NEW c \in Claims, Held(c), now >= Deadline[c[1]],
         NEW p \in Stages, Untouched(c, p)
  PROVE  Untouched(c, p)'
<1> DEFINE w == c[1]
<1>0. w \in Windows /\ now \in Nat /\ Deadline[w] \in Nat BY ClaimParts, TablesTyped, Parameters
<1> SUFFICES ASSUME NEW s \in Stages, p \in Prerequisites[s]
             PROVE  /\ ~HasRun(w, s)'
                    /\ \A l \in Lanes : lane'[c][l].pc = "start" => lane'[c][l].stage # s
  BY Constants DEF Untouched
<1>1. /\ ~HasRun(w, s)
      /\ \A l \in Lanes : lane[c][l].pc = "start" => lane[c][l].stage # s
  BY DEF Untouched
<1>2. ~HasRun(w, s)'
  <2> SUFFICES ASSUME HasRun(w, s)' PROVE FALSE OBVIOUS
  <2>1. Starts(w, s) BY <1>0, <1>1, RowSteps, FirstRun
  <2>2. PICK d \in Claims, l \in Lanes :
           d[1] = w /\ Held(d) /\ lane[d][l].pc = "start" /\ lane[d][l].stage = s
    BY <2>1 DEF Starts
  <2>3. d = c BY <2>2, OneHolder
  <2> QED BY <1>1, <2>2, <2>3
<1>3. ASSUME NEW l \in Lanes, lane'[c][l].pc = "start" PROVE lane'[c][l].stage # s
  <2>1. lane'[c][l] = lane[c][l] \/ LaneDecide(c, l) BY <1>3, JobKept
  <2>2. ~LaneDecide(c, l) BY <1>0, DecideDecides
  <2> QED BY <1>1, <1>3, <2>1, <2>2
<1> QED BY <1>2, <1>3

\* No stage becomes pending again.
LEMMA PendingShrinks ==
  ASSUME LocalInv, LocalInv', JobsDecided, [Next]_vars, NEW w \in Windows
  PROVE  Pending(w)' \subseteq Pending(w)
<1> SUFFICES ASSUME NEW s \in WindowStages, s \in Pending(w)', s \notin Pending(w) PROVE FALSE
  BY Constants DEF Pending
<1>1. RowStep(w, s) BY Parameters, RowSteps
<1> QED BY <1>1, SettledStays

\* What a coordinator that records missed stages relies on stays true ...
LEMMA MissKept ==
  ASSUME LocalInv, LocalInv', JobsDecided, SessionsDecided, PrerequisitesComplete, [Next]_vars,
         NEW c \in Claims, Held(c), session'[c].pc = "miss"
  PROVE  SessionDecided(c)'
<1> DEFINE w == c[1]
           R == session[c]
<1>0. /\ w \in Windows /\ now \in Nat /\ Deadline[w] \in Nat
      /\ now' \in Nat /\ now' >= now
      /\ session \in [Claims -> SessionRows] /\ R \in SessionRows
  BY ClaimParts, TablesTyped, Parameters, ClockKept
<1>1. SUFFICES /\ now' >= Deadline[w]
               /\ Pending(w)' \subseteq session'[c].todo
               /\ \A p \in session'[c].todo : Untouched(c, p)'
  BY DEF SessionDecided
<1>2. ASSUME R.pc = "miss", NEW todo, session'[c].todo = todo, todo \subseteq R.todo,
             Pending(w)' \cap (R.todo \ todo) = {}
      PROVE  /\ now' >= Deadline[w]
             /\ Pending(w)' \subseteq todo
             /\ \A p \in todo : Untouched(c, p)'
  <2>1. now >= Deadline[w] /\ Pending(w) \subseteq R.todo /\ \A p \in R.todo : Untouched(c, p)
    BY <1>2 DEF SessionsDecided, SessionDecided
  <2>2. R.todo \subseteq Stages BY <1>2, Parameters DEF LocalInv, SessionOK
  <2>3. \A p \in todo : Untouched(c, p)' BY <1>2, <2>1, <2>2, UntouchedStays
  <2>4. Pending(w)' \subseteq Pending(w) BY <1>0, PendingShrinks
  <2> QED BY <1>0, <1>2, <2>1, <2>3, <2>4
<1>3. CASE session'[c] = R BY <1>2, <1>3
<1>4. CASE Conclude(c)
  <2> DEFINE r == [R EXCEPT !.todo = Pending(w),
                            !.pc = IF Pending(w) = {} THEN "finish"
                                   ELSE IF now >= Deadline[w] THEN "miss" ELSE "release",
                            !.final = IF Pending(w) = {} THEN FinalState(w) ELSE Absent]
  <2>1. session' = [session EXCEPT ![c] = r] /\ UNCHANGED <<now, runs, lane>>
    BY <1>0, <1>4 DEF Conclude, db
  <2>2. session'[c] = r
    <3> HIDE DEF r
    <3> QED BY <1>0, <2>1
  <2>3. now >= Deadline[w] /\ session'[c].todo = Pending(w) BY <1>0, <2>2 DEF SessionRows
  <2>4. ASSUME NEW p \in Pending(w) PROVE Untouched(c, p)
    <3>1. p \in WindowStages /\ LatestState(w, p) # "COMPLETE"
      BY DEF Pending, OrphanRetry, Absent
    <3>2. ASSUME NEW s \in Stages, p \in Prerequisites[s], HasRun(w, s) PROVE FALSE
      BY <1>0, <3>1, <3>2 DEF PrerequisitesComplete, HasRun
    <3>3. ASSUME NEW s \in Stages, p \in Prerequisites[s], NEW l \in Lanes,
                 lane[c][l].pc = "start", lane[c][l].stage = s
          PROVE  FALSE
      BY <3>1, <3>3 DEF JobsDecided, JobDecided
    <3> QED BY <3>2, <3>3 DEF Untouched
  <2>5. \A p \in Pending(w) : Untouched(c, p)'
    BY <2>1, <2>4, Constants DEF Untouched, HasRun, Attempts, Executed
  <2>6. Pending(w)' = Pending(w)
    BY <2>1, Constants DEF Pending, LatestState, Latest, Attempts, OrphanRetry, Absent
  <2> QED BY <2>1, <2>3, <2>5, <2>6
<1>5. CASE MissesOne(c)
  <2>1. PICK s \in R.todo :
           runs' = Insert(w, s, NewRow("MISSED")) /\ session'[c].todo = R.todo \ {s}
    BY <1>5 DEF MissesOne
  <2>2. R.pc = "miss" BY <1>5 DEF MissesOne
  <2>3. s \in Stages BY <2>2, Parameters DEF LocalInv, SessionOK
  <2>4. NewRow("MISSED") \in RunRows /\ NewRow("MISSED").state = "MISSED" BY NewRows
  <2>5. runs'[w][s] = Append(runs[w][s], NewRow("MISSED"))
    <3>1. w \in Windows /\ runs' = Insert(w, s, NewRow("MISSED")) BY <1>0, <2>1
    <3> HIDE DEF w, R
    <3>2. NewRow("MISSED") \in RunRows BY <2>4
    <3> QED BY <2>3, <3>1, <3>2, InsertType
  <2>6. LatestState(w, s)' = "MISSED" BY <1>0, <2>3, <2>4, <2>5, Appended
  <2>7. s \notin Pending(w)' BY <2>6 DEF Pending, OrphanRetry, Absent
  <2> QED BY <1>2, <2>1, <2>2, <2>7
<1>6. CASE Reread(c)
  <2> DEFINE r == [R EXCEPT !.pc = "finish", !.final = FinalState(w)]
  <2>1. session' = [session EXCEPT ![c] = r] BY <1>0, <1>6 DEF Reread
  <2>2. r.pc = "finish" BY <1>0 DEF SessionRows
  <2> HIDE DEF r
  <2> QED BY <1>0, <2>1, <2>2
<1> QED BY <1>3, <1>4, <1>5, <1>6, SessionKept

\* ... and of one that finishes its window.
LEMMA FinishKept ==
  ASSUME LocalInv, LocalInv', JobsDecided, SessionsDecided, [Next]_vars,
         NEW c \in Claims, Held(c), session'[c].pc = "finish"
  PROVE  SessionDecided(c)'
<1> DEFINE w == c[1]
           R == session[c]
           AllComplete == \A s \in WindowStages : LatestState(w, s) = "COMPLETE"
<1>0. w \in Windows /\ session \in [Claims -> SessionRows] /\ R \in SessionRows
  BY ClaimParts, TablesTyped
<1>1. SUFFICES Pending(w)' = {} /\ (session'[c].final = "COMPLETE" <=> AllComplete')
  BY DEF SessionDecided
<1>2. ASSUME UNCHANGED runs, Pending(w) = {}, session'[c].final = FinalState(w)
      PROVE  Pending(w)' = {} /\ (session'[c].final = "COMPLETE" <=> AllComplete')
  <2>1. Pending(w)' = Pending(w)
    BY <1>2, Constants DEF Pending, LatestState, Latest, Attempts, OrphanRetry, Absent
  <2>2. AllComplete' <=> AllComplete
    BY <1>2, Constants DEF LatestState, Latest, Attempts, Absent
  <2>3. FinalState(w) = "COMPLETE" <=> AllComplete BY DEF FinalState
  <2> QED BY <1>2, <2>1, <2>2, <2>3
<1>3. CASE session'[c] = R
  <2>1. Pending(w) = {} /\ (R.final = "COMPLETE" <=> AllComplete)
    BY <1>3 DEF SessionsDecided, SessionDecided
  <2>2. Pending(w)' = {} BY <1>0, <2>1, PendingShrinks
  <2>3. ASSUME NEW s \in WindowStages
        PROVE  LatestState(w, s)' = "COMPLETE" <=> LatestState(w, s) = "COMPLETE"
    <3>1. s \in Stages /\ RowStep(w, s) BY <1>0, Parameters, RowSteps
    <3>2. LatestState(w, s) \in TerminalStates /\ ~OrphanRetry(w, s)
      BY <1>0, <2>1, <3>1, SettledStays DEF Pending
    <3>3. ~Misses(w, s)
      <4> SUFFICES ASSUME Misses(w, s) PROVE FALSE OBVIOUS
      <4>1. PICK d \in Claims : d[1] = w /\ Held(d) /\ session[d].pc = "miss" BY DEF Misses
      <4>2. d = c BY <4>1, OneHolder
      <4> QED BY <1>3, <4>1, <4>2
    <3> QED BY <1>0, <3>1, <3>2, <3>3, EndedStays
  <2> QED BY <1>3, <2>1, <2>2, <2>3, Constants
<1>4. CASE Conclude(c)
  <2> DEFINE r == [R EXCEPT !.todo = Pending(w),
                            !.pc = IF Pending(w) = {} THEN "finish"
                                   ELSE IF now >= Deadline[w] THEN "miss" ELSE "release",
                            !.final = IF Pending(w) = {} THEN FinalState(w) ELSE Absent]
  <2>1. session' = [session EXCEPT ![c] = r] /\ UNCHANGED runs BY <1>0, <1>4 DEF Conclude, db
  <2>2. session'[c] = r
    <3> HIDE DEF r
    <3> QED BY <1>0, <2>1
  <2>3. Pending(w) = {} /\ session'[c].final = FinalState(w) BY <1>0, <2>2 DEF SessionRows
  <2> QED BY <1>2, <2>1, <2>3
<1>5. CASE Reread(c)
  <2> DEFINE r == [R EXCEPT !.pc = "finish", !.final = FinalState(w)]
  <2>1. session' = [session EXCEPT ![c] = r] /\ UNCHANGED runs /\ R.pc = "miss" /\ R.todo = {}
    BY <1>0, <1>5 DEF Reread, db
  <2>2. r.final = FinalState(w) BY <1>0 DEF SessionRows
  <2>3. session'[c].final = FinalState(w)
    <3> HIDE DEF r
    <3> QED BY <1>0, <2>1, <2>2
  <2>4. Pending(w) = {} BY <2>1 DEF SessionsDecided, SessionDecided
  <2> QED BY <1>2, <2>1, <2>3, <2>4
<1>6. CASE MissesOne(c) BY <1>6 DEF MissesOne
<1> QED BY <1>3, <1>4, <1>5, <1>6, SessionKept

LEMMA SessionsKept ==
  ASSUME LocalInv, LocalInv', OrderInv, JobsDecided, SessionsDecided, PrerequisitesComplete,
         [Next]_vars
  PROVE  SessionsDecided'
<1> SUFFICES ASSUME NEW c \in Claims, HeldNext(c) PROVE SessionDecided(c)'
  BY Constants DEF SessionsDecided, Held, HeldNext
<1>1. CASE session'[c].pc \notin {"miss", "finish"} BY <1>1 DEF SessionDecided
<1>2. CASE session'[c].pc \in {"miss", "finish"}
  <2>1. Held(c) BY <1>2, HeldKept
  <2> QED BY <1>2, <2>1, MissKept, FinishKept
<1> QED BY <1>1, <1>2

-----------------------------------------------------------------------------
(* The properties.                                                           *)

LEMMA PrerequisitesKept ==
  ASSUME LocalInv, LocalInv', JobsDecided, SessionsDecided, PrerequisitesComplete, [Next]_vars
  PROVE  PrerequisitesComplete'
<1> SUFFICES ASSUME NEW w \in Windows, NEW s \in Stages, HasRun(w, s)',
                    NEW p \in Prerequisites[s] \cap WindowStages
             PROVE  LatestState(w, p)' = "COMPLETE"
  BY Constants DEF PrerequisitesComplete, HasRun, Executed
<1>1. p \in Stages /\ RowStep(w, p) /\ RowStep(w, s) BY Parameters, RowSteps
<1>2. HasRun(w, s) \/ Starts(w, s) BY <1>1, FirstRun
<1>3. LatestState(w, p) = "COMPLETE"
  <2>1. CASE HasRun(w, s) BY <2>1 DEF PrerequisitesComplete, HasRun
  <2>2. CASE Starts(w, s) BY <2>2 DEF Starts, JobsDecided, JobDecided
  <2> QED BY <1>2, <2>1, <2>2
<1>4. ~Misses(w, p)
  <2> SUFFICES ASSUME Misses(w, p) PROVE FALSE OBVIOUS
  <2>1. PICK d \in Claims :
           d[1] = w /\ Held(d) /\ session[d].pc = "miss" /\ p \in session[d].todo
    BY DEF Misses
  <2>2. Untouched(d, p) BY <2>1 DEF SessionsDecided, SessionDecided
  <2>3. CASE HasRun(w, s) BY <2>1, <2>2, <2>3 DEF Untouched
  <2>4. CASE Starts(w, s)
    <3>1. PICK c \in Claims, l \in Lanes :
             c[1] = w /\ Held(c) /\ lane[c][l].pc = "start" /\ lane[c][l].stage = s
      BY <2>4 DEF Starts
    <3>2. c = d BY <2>1, <3>1, OneHolder
    <3> QED BY <2>2, <3>1, <3>2 DEF Untouched
  <2> QED BY <1>2, <2>3, <2>4
<1> QED BY <1>1, <1>3, <1>4, CompleteStays

LEMMA BlockedKept ==
  ASSUME LocalInv, LocalInv', JobsDecided, BlockedForCause, [Next]_vars PROVE BlockedForCause'
<1> SUFFICES ASSUME NEW w \in Windows, NEW s \in Stages, LatestState(w, s)' = "BLOCKED_PREREQ"
             PROVE  \E p \in Prerequisites[s] : Blocking(w, p)'
  BY DEF BlockedForCause, Blocking, NonCompletingStates
<1>1. RowStep(w, s) BY RowSteps
<1>2. ASSUME NEW state \in RunStates, runs'[w][s] = Append(runs[w][s], NewRow(state))
      PROVE  state = "BLOCKED_PREREQ"
  <2>1. NewRow(state) \in RunRows /\ NewRow(state).state = state BY NewRows
  <2> QED BY <1>2, <2>1, Appended
<1>3. {"RUNNING", "MISSED", "UNAVAILABLE"} \subseteq RunStates BY Rows
<1>4. \E p \in Prerequisites[s] : Blocking(w, p)
  <2>1. CASE LatestState(w, s) = "BLOCKED_PREREQ" BY <2>1 DEF BlockedForCause, Blocking
  <2>2. CASE Keeps(w, s) BY <2>1, <2>2, SameLatest
  <2>3. CASE Starts(w, s) BY <1>2, <1>3, <2>3 DEF Starts
  <2>4. CASE Blocks(w, s) BY <2>4 DEF Blocks, JobsDecided, JobDecided
  <2>5. CASE Misses(w, s) BY <1>2, <1>3, <2>5 DEF Misses
  <2>6. CASE Settles(w, s) BY <2>1, <2>6, SettledLatest DEF RunOutcomes
  <2>7. CASE Closes(w, s)
    <3>1. runs'[w][s] = Append(runs[w][s], NewRow("UNAVAILABLE"))
      <4>1. runs[w][s] = <<>> /\ runs'[w][s] = <<NewRow("UNAVAILABLE")>> BY <2>7 DEF Closes
      <4> HIDE DEF NewRow
      <4> QED BY <4>1
    <3> QED BY <1>2, <1>3, <3>1
  <2> QED BY <1>1, <2>2, <2>3, <2>4, <2>5, <2>6, <2>7 DEF RowStep
<1>5. PICK p \in Prerequisites[s] : Blocking(w, p) BY <1>4
<1>6. p \in Stages BY CatalogAssumption DEF CatalogAssumption
<1> QED BY <1>5, <1>6, RowSteps, BlockingStays

LEMMA ClosedKept ==
  ASSUME LocalInv, LocalInv', JobsDecided, SessionsDecided, ClosedWindowSettled, [Next]_vars
  PROVE  ClosedWindowSettled'
<1> SUFFICES ASSUME NEW w \in Windows, window'[w].state \in OwnedWindowStates
             PROVE  /\ \A s \in WindowStages : LatestState(w, s)' \in TerminalStates
                    /\ window'[w].state = "COMPLETE"
                         <=> \A s \in WindowStages : LatestState(w, s)' = "COMPLETE"
  BY Constants DEF ClosedWindowSettled, OwnedWindowStates, TerminalStates, NonCompletingStates
<1>1. CASE window[w].state = window'[w].state
  <2>1. /\ \A s \in WindowStages : LatestState(w, s) \in TerminalStates
        /\ window[w].state = "COMPLETE"
             <=> \A s \in WindowStages : LatestState(w, s) = "COMPLETE"
    BY <1>1 DEF ClosedWindowSettled
  <2>2. ASSUME NEW s \in WindowStages PROVE LatestState(w, s)' = LatestState(w, s)
    <3>1. s \in Stages BY Parameters
    <3>2. window[w].state \notin {"RUNNING", "PENDING"} BY <1>1 DEF OwnedWindowStates
    <3>3. Keeps(w, s)
      BY <3>1, <3>2, RowSteps DEF RowStep, Starts, Blocks, Misses, Settles, Closes, Held
    <3> QED BY <3>1, <3>3, SameLatest
  <2> QED BY <1>1, <2>1, <2>2
<1>2. CASE ~(window[w].state = window'[w].state)
  <2>1. PICK c \in Claims : /\ c[1] = w /\ Held(c) /\ UNCHANGED runs
                            /\ session[c].pc = "finish" /\ window'[w].state = session[c].final
    BY <1>2, WindowKept
  <2>2. /\ Pending(w) = {}
        /\ session[c].final = "COMPLETE"
             <=> \A s \in WindowStages : LatestState(w, s) = "COMPLETE"
    BY <2>1 DEF SessionsDecided, SessionDecided
  <2>3. ASSUME NEW s \in WindowStages
        PROVE  LatestState(w, s)' = LatestState(w, s) /\ LatestState(w, s) \in TerminalStates
    <3>1. s \in Stages /\ RowStep(w, s) BY Parameters, RowSteps
    <3>2. Keeps(w, s) BY <2>1 DEF Keeps
    <3> QED BY <2>2, <3>1, <3>2, SameLatest, SettledStays
  <2> QED BY <2>1, <2>2, <2>3
<1> QED BY <1>1, <1>2

LEMMA DecisionInit == Init => DecisionInv
<1> SUFFICES ASSUME Init PROVE DecisionInv OBVIOUS
<1>1. \A c \in Claims : ~Held(c) BY ClaimParts DEF Init, Held
<1>2. \A w \in Windows, s \in Stages :
        runs[w][s] = <<>> /\ Attempts(w, s) = 0 /\ LatestState(w, s) = Absent
  BY DEF Init, Attempts, LatestState
<1>3. PrerequisitesComplete BY <1>2 DEF PrerequisitesComplete
<1>4. BlockedForCause BY <1>2 DEF BlockedForCause, Absent
<1>5. ClosedWindowSettled BY DEF Init, ClosedWindowSettled, OwnedWindowStates
<1> QED BY <1>1, <1>3, <1>4, <1>5 DEF DecisionInv, JobsDecided, SessionsDecided

LEMMA DecisionNext == IInv /\ IInv' /\ DecisionInv /\ [Next]_vars => DecisionInv'
<1> SUFFICES ASSUME IInv, IInv', DecisionInv, [Next]_vars PROVE DecisionInv' OBVIOUS
<1>1. LocalInv /\ LocalInv' /\ OrderInv /\ ClearToInsert BY DEF IInv, RowsLayer
<1>2. /\ JobsDecided /\ SessionsDecided
      /\ PrerequisitesComplete /\ BlockedForCause /\ ClosedWindowSettled
  BY DEF DecisionInv
<1>3. JobsDecided' BY <1>1, <1>2, JobsKept
<1>4. SessionsDecided' BY <1>1, <1>2, SessionsKept
<1>5. PrerequisitesComplete' BY <1>1, <1>2, PrerequisitesKept
<1>6. BlockedForCause' BY <1>1, <1>2, BlockedKept
<1>7. ClosedWindowSettled' BY <1>1, <1>2, ClosedKept
<1> QED BY <1>3, <1>4, <1>5, <1>6, <1>7 DEF DecisionInv

LEMMA DecisionsHold == Spec => []DecisionInv
<1>1. Init => DecisionInv BY DecisionInit
<1>2. IInv /\ IInv' /\ DecisionInv /\ [Next]_vars => DecisionInv' BY DecisionNext
<1> QED BY <1>1, <1>2, InvariantHolds, PTL DEF Spec

\* A stage that was started has, and keeps, every prerequisite of the plan
\* COMPLETE: what _next_step read still holds when start_stage inserts the row,
\* and no later retry, block or missed deadline takes it back.
THEOREM StartsAfterPrerequisites == Spec => []PrerequisitesComplete
<1>1. DecisionInv => PrerequisitesComplete BY DEF DecisionInv
<1> QED BY <1>1, DecisionsHold, PTL

\* A stage is recorded BLOCKED_PREREQ for a prerequisite that ended without
\* completing and is not retried, so validate_stage_run never refuses
\* record_blocked.
THEOREM BlocksForCause == Spec => []BlockedForCause
<1>1. DecisionInv => BlockedForCause BY DEF DecisionInv
<1> QED BY <1>1, DecisionsHold, PTL

\* A closed window has a terminal record of every stage for good, and is
\* COMPLETE exactly when they all are: what _conclude read is still so when
\* finish_window runs, and no thread that outlives it changes a row.
THEOREM ClosesSettledWindows == Spec => []ClosedWindowSettled
<1>1. DecisionInv => ClosedWindowSettled BY DEF DecisionInv
<1> QED BY <1>1, DecisionsHold, PTL

-----------------------------------------------------------------------------
(* The release pointer.                                                      *)

Stored(w, s) == receipt[w][s] # None
Completed(w, s) == \E a \in 1..Attempts(w, s) : runs[w][s][a].state = "COMPLETE"

\* _finish holds a receipt only of a COMPLETE outcome, and only once it is
\* stored; it advances the pointer once the attempt is recorded as well.
JobBacked(w, j) ==
  /\ j.pc \in {"block", "start", "run", "tx", "receipt"} => ~j.held
  /\ j.pc = "receipt" => j.outcome = "COMPLETE" /\ j.content # None
  /\ j.pc = "finish" /\ j.held =>
       j.outcome = "COMPLETE" /\ j.stage \in ReceiptStages /\ Stored(w, j.stage)
  /\ j.pc = "advance" => Stored(w, j.stage) /\ Completed(w, j.stage)

ReleaseInv ==
  /\ \A c \in Claims, l \in Lanes : JobBacked(c[1], lane[c][l])
  /\ release.cutoff # 0 => release.stage \in ReleaseStages
  /\ ReleaseIsBacked

\* What a step does to the receipts: record_receipt adds one, if none is stored.
LEMMA ReceiptStep ==
  ASSUME LocalInv, [Next]_vars
  PROVE  \/ UNCHANGED receipt
         \/ \E c \in Claims, l \in Lanes :
              LaneReceipt(c, l) /\ receipt' = [receipt EXCEPT ![c[1]][lane[c][l].stage] =
                                                 IF @ = None THEN lane[c][l].content ELSE @]
<1>1. ASSUME NEW c \in Claims, Coordinate(c) \/ Heartbeat(c) \/ CoordinatorFault(c)
      PROVE  UNCHANGED receipt
  BY <1>1 DEF Coordinate, Recover, BeginRound, CancelOverrun, TimeOutLanes, EndRound, Conclude,
              RecordMissed, Reread, CloseWindow, Heartbeat, CoordinatorFault, db
<1>2. ASSUME NEW c \in Claims, NEW l \in Lanes, Advance(c, l) \/ Run(c, l) \/ LaneFault(c, l)
      PROVE  UNCHANGED receipt \/ LaneReceipt(c, l)
  BY <1>2 DEF Advance, Run, LaneIdle, LaneDecide, LaneBlock, LaneStart, LaneFinish,
              LaneAdvance, LaneReadiness, OpenTransaction, CommitTransaction, RunnerReturns,
              LaneFault, db
<1>3. ASSUME NEW c \in Claims, NEW l \in Lanes, LaneReceipt(c, l)
      PROVE  \/ UNCHANGED receipt
             \/ receipt' = [receipt EXCEPT ![c[1]][lane[c][l].stage] =
                              IF @ = None THEN lane[c][l].content ELSE @]
  <2> DEFINE bound == [receipt EXCEPT ![c[1]][lane[c][l].stage] =
                         IF @ = None THEN lane[c][l].content ELSE @]
  <2>1. receipt' = receipt \/ receipt' = bound \/ receipt' \in {receipt, bound} \/ receipt' \in {receipt}
    BY <1>3 DEF LaneReceipt
  <2> HIDE DEF bound
  <2>2. receipt' = receipt \/ receipt' = bound BY <2>1
  <2> QED BY <2>2 DEF bound
<1> QED BY <1>1, <1>2, <1>3, Zenon
        DEF Next, vars, db, Claim, ResidentTick, MarkUnavailable, Crash, Tick

\* A stored receipt stays.
LEMMA StoredStays ==
  ASSUME LocalInv, [Next]_vars, NEW w \in Windows, NEW s \in ReceiptStages, Stored(w, s)
  PROVE  Stored(w, s)'
<1>1. ASSUME NEW c \in Claims, NEW l \in Lanes,
             receipt' = [receipt EXCEPT ![c[1]][lane[c][l].stage] =
                           IF @ = None THEN lane[c][l].content ELSE @]
      PROVE  Stored(w, s)'
  <2> DEFINE v == c[1]
             t == lane[c][l].stage
             new == IF receipt[v][t] = None THEN lane[c][l].content ELSE receipt[v][t]
  <2>1. receipt' = [receipt EXCEPT ![v][t] = new] BY <1>1
  <2>2. receipt'[w][s] = IF v = w /\ t = s THEN new ELSE receipt[w][s]
    <3> HIDE DEF new, v, t
    <3> QED BY <2>1, TablesTyped
  <2> QED BY <2>2 DEF Stored
<1>2. CASE UNCHANGED receipt BY <1>2 DEF Stored
<1> QED BY <1>1, <1>2, ReceiptStep, Zenon

\* A completed attempt stays.
LEMMA CompletedStays ==
  ASSUME LocalInv, [Next]_vars, NEW w \in Windows, NEW s \in Stages, Completed(w, s)
  PROVE  Completed(w, s)'
<1>1. PICK a \in 1..Attempts(w, s) : runs[w][s][a].state = "COMPLETE" BY DEF Completed
<1>2. Attempts(w, s) \in Nat BY LatestKinds
<1>3. ASSUME NEW row \in RunRows, runs'[w][s] = Append(runs[w][s], row) PROVE Completed(w, s)'
  <2>1. /\ Attempts(w, s)' = Attempts(w, s) + 1
        /\ runs'[w][s][a] = runs[w][s][a]
    BY <1>1, <1>3, Appended
  <2> QED BY <1>1, <1>2, <2>1 DEF Completed
<1>4. CASE Keeps(w, s) BY <1>1, <1>4 DEF Keeps, Completed, Attempts
<1>5. CASE Starts(w, s) BY <1>3, <1>5, NewRows DEF Starts
<1>6. CASE Blocks(w, s) BY <1>3, <1>6, NewRows DEF Blocks
<1>7. CASE Misses(w, s) BY <1>3, <1>7, NewRows DEF Misses
<1>8. CASE Settles(w, s)
  <2>1. Len(runs'[w][s]) = Len(runs[w][s]) /\ runs'[w][s][a] = runs[w][s][a]
    BY <1>1, <1>8 DEF Settles, Attempts
  <2> QED BY <1>1, <2>1 DEF Completed, Attempts
<1>9. CASE Closes(w, s) BY <1>1, <1>9 DEF Closes, Attempts
<1>10. RowStep(w, s) BY RowSteps
<1> QED BY <1>4, <1>5, <1>6, <1>7, <1>8, <1>9, <1>10 DEF RowStep

\* What a thread carries after a step of its own ...
LEMMA ThreadBacked ==
  ASSUME LocalInv, [Next]_vars, NEW c \in Claims, NEW l \in Lanes,
         Advance(c, l) \/ Run(c, l) \/ LaneFault(c, l), JobBacked(c[1], lane[c][l])
  PROVE  JobBacked(c[1], lane[c][l])'
<1> DEFINE w == c[1]
           J == lane[c][l]
<1>0. /\ J \in Jobs /\ JobOK(l, J) /\ w \in Windows
      /\ lane \in [Claims -> [Lanes -> Jobs]]
  BY TablesTyped, ClaimParts DEF LocalInv
<1>00. /\ J.pc \in {"block", "start", "run", "tx", "receipt"} => ~J.held
       /\ J.pc = "receipt" => J.outcome = "COMPLETE" /\ J.content # None
       /\ J.pc = "finish" /\ J.held =>
            J.outcome = "COMPLETE" /\ J.stage \in ReceiptStages /\ receipt[w][J.stage] # None
  BY DEF JobBacked, Stored
<1>1. ASSUME NEW j, lane' = [lane EXCEPT ![c][l] = j], j.pc \in {"decide", "done", "lost", "ready"}
      PROVE  JobBacked(w, lane[c][l])'
  <2>1. lane'[c][l] = j BY <1>0, <1>1
  <2> QED BY <1>1, <2>1 DEF JobBacked
\* The thread gives the stage up, or has nothing to do.
<1>2. CASE \/ GiveUp(c, l) \/ Leave(c, l, "done", FALSE) \/ Leave(c, l, "decide", TRUE)
           \/ Leave(c, l, "done", J.progressed)
  <2>1. J.progressed \in BOOLEAN BY <1>0 DEF Jobs
  <2>2. CASE GiveUp(c, l) BY <1>1, <2>2, LostOK
  <2>3. CASE Leave(c, l, "done", FALSE) BY <1>1, <2>3, DoneOK
  <2>4. CASE Leave(c, l, "decide", TRUE) BY <1>1, <2>4, DecideOK
  <2>5. CASE Leave(c, l, "done", J.progressed)
    <3>1. PICK j : j.pc = "done" /\ lane' = [lane EXCEPT ![c][l] = j] BY <2>1, <2>5, LeaveOK
    <3> QED BY <1>1, <3>1
  <2> QED BY <1>2, <2>2, <2>3, <2>4, <2>5
<1>3. ASSUME NEW pc \in {"run", "tx"}, J.pc \in {"start", "run", "tx"}, Goto(c, l, pc)
      PROVE  JobBacked(w, lane[c][l])'
  <2> DEFINE j == [J EXCEPT !.pc = pc]
  <2>1. lane' = [lane EXCEPT ![c][l] = j] BY <1>3 DEF Goto
  <2>2. j.pc = pc /\ j.held = J.held BY <1>0 DEF Jobs
  <2> HIDE DEF j
  <2>3. lane'[c][l] = j BY <1>0, <2>1
  <2>4. ~J.held BY <1>00, <1>3
  <2> HIDE DEF w, J
  <2> QED BY <2>2, <2>3, <2>4 DEF JobBacked
<1>4. ASSUME J.pc \in {"tx", "receipt"},
             lane' = [lane EXCEPT ![c][l].pc = "finish", ![c][l].outcome = "FAILED"]
      PROVE  JobBacked(w, lane[c][l])'
  <2> DEFINE j == [J EXCEPT !.pc = "finish", !.outcome = "FAILED"]
  <2>1. lane' = [lane EXCEPT ![c][l] = j] BY <1>0, <1>4
  <2>2. j.pc = "finish" /\ j.held = J.held BY <1>0 DEF Jobs
  <2> HIDE DEF j
  <2>3. lane'[c][l] = j BY <1>0, <2>1
  <2>4. ~J.held BY <1>00, <1>4
  <2> HIDE DEF w, J
  <2> QED BY <2>2, <2>3, <2>4 DEF JobBacked
<1>5. CASE LaneDecide(c, l)
  <2>1. PICK s \in Steps(c, l) : lane' = [lane EXCEPT ![c][l] =
              [NoJob EXCEPT !.pc = IF Decide(c, s) = "RUN" THEN "start" ELSE "block",
                            !.stage = s, !.attempt = Attempts(w, s) + 1, !.progressed = TRUE]]
    BY <1>5 DEF LaneDecide
  <2> DEFINE pc == IF Decide(c, s) = "RUN" THEN "start" ELSE "block"
             n == Attempts(w, s) + 1
             j == [NoJob EXCEPT !.pc = pc, !.stage = s, !.attempt = n, !.progressed = TRUE]
  <2>2. lane' = [lane EXCEPT ![c][l] = j] BY <2>1
  <2>3. pc \in {"start", "block"} OBVIOUS
  <2> HIDE DEF pc, n
  <2>4. j.pc = pc /\ ~j.held BY DEF NoJob
  <2> HIDE DEF j
  <2>5. lane'[c][l] = j BY <1>0, <2>2
  <2> HIDE DEF w, J
  <2> QED BY <2>3, <2>4, <2>5 DEF JobBacked
<1>6. CASE LaneBlock(c, l) /\ ~GiveUp(c, l)
  <2> DEFINE j == [J EXCEPT !.pc = "ready", !.outcome = "BLOCKED_PREREQ"]
  <2>1. lane' = [lane EXCEPT ![c][l] = j] BY <1>0, <1>6 DEF LaneBlock, Lost
  <2>2. j.pc = "ready" BY <1>0 DEF Jobs
  <2> HIDE DEF j
  <2> QED BY <1>1, <2>1, <2>2
<1>7. CASE LaneReceipt(c, l) /\ ~GiveUp(c, l)
           /\ lane' = [lane EXCEPT ![c][l].pc = "finish", ![c][l].held = TRUE]
  <2> DEFINE j == [J EXCEPT !.pc = "finish", !.held = TRUE]
             s == J.stage
             new == IF receipt[w][s] = None THEN J.content ELSE receipt[w][s]
  <2>1. lane' = [lane EXCEPT ![c][l] = j] BY <1>0, <1>7
  <2>2. /\ J.pc = "receipt" /\ s \in ReceiptStages
        /\ J.outcome = "COMPLETE" /\ J.content # None
    BY <1>0, <1>00, <1>7 DEF LaneReceipt, JobOK
  <2>3. j.pc = "finish" /\ j.outcome = "COMPLETE" /\ j.stage = s BY <1>0, <2>2 DEF Jobs
  <2>4. receipt' = [receipt EXCEPT ![w][s] = new]
    <3>1. "finish" # "lost" OBVIOUS
    <3>2. j.outcome # "FAILED" /\ lane'[c][l] = j
      <4> HIDE DEF j
      <4> QED BY <1>0, <2>1, <2>3
    <3>3. ~(lane' = [lane EXCEPT ![c][l].pc = "finish", ![c][l].outcome = "FAILED"])
      <4> DEFINE k == [J EXCEPT !.pc = "finish", !.outcome = "FAILED"]
      <4>1. k.outcome = "FAILED" BY <1>0 DEF Jobs
      <4>2. lane' = [lane EXCEPT ![c][l].pc = "finish", ![c][l].outcome = "FAILED"]
              => lane' = [lane EXCEPT ![c][l] = k]
        BY <1>0
      <4> HIDE DEF k, j
      <4> QED BY <1>0, <3>2, <4>1, <4>2
    <3> QED BY <1>7, <3>3 DEF LaneReceipt
  <2>5. receipt'[w][s] # None
    <3>1. new # None BY <2>2
    <3>2. receipt \in [Windows -> [ReceiptStages -> Contents \cup {None}]] BY TablesTyped
    <3> HIDE DEF new, s, w, J
    <3> QED BY <1>0, <2>2, <2>4, <3>1, <3>2
  <2> HIDE DEF j
  <2>6. lane'[c][l] = j BY <1>0, <2>1
  <2>7. c[1] = w OBVIOUS
  <2> HIDE DEF w, J, s
  <2> QED BY <2>2, <2>3, <2>5, <2>6, <2>7 DEF JobBacked, Stored
<1>8. CASE LaneFinish(c, l) /\ ~GiveUp(c, l)
  <2> DEFINE pc == IF J.held /\ J.stage \in ReleaseStages THEN "advance" ELSE "ready"
             at == IF J.outcome = "DEFERRED" THEN Least(now + RetryDelay, Deadline[w]) ELSE 0
             row == [NewRow(J.outcome) EXCEPT !.retryAt = at]
             a == J.attempt
             s == J.stage
             j == [J EXCEPT !.pc = pc]
  <2>1. /\ J.pc = "finish" /\ Mine(c, l) /\ Goto(c, l, pc) /\ UNCHANGED receipt
        /\ runs' = [runs EXCEPT ![w][s][a] = row]
    BY <1>8 DEF LaneFinish
  <2>2. lane' = [lane EXCEPT ![c][l] = j] BY <2>1 DEF Goto
  <2>3. j.pc = pc /\ j.stage = s
    <3> HIDE DEF pc
    <3> QED BY <1>0 DEF Jobs
  <2>4. pc \in {"advance", "ready"} OBVIOUS
  <2>5. CASE pc = "ready"
    <3> HIDE DEF j, pc
    <3> QED BY <1>1, <2>2, <2>3, <2>5
  <2>6. CASE pc = "advance"
    <3>1. J.held BY <2>6
    <3>2. J.outcome = "COMPLETE" /\ receipt'[w][s] # None BY <1>00, <2>1, <3>1
    <3>4. row.state = "COMPLETE"
      <4> HIDE DEF at
      <4> QED BY <3>2 DEF NewRow
    <3>5. s \in Stages /\ a \in 1..Len(runs[w][s])
      BY <1>0, <2>1, Parameters DEF JobOK, Working, Mine, Running, Attempts
    <3>6. /\ Len(runs'[w][s]) = Len(runs[w][s])
          /\ runs'[w][s][a] = row
      <4>1. runs \in [Windows -> [Stages -> Seq(RunRows)]] BY TablesTyped
      <4> DEFINE q == runs[w][s]
      <4>2. q \in Seq(RunRows) BY <1>0, <3>5, <4>1
      <4> HIDE DEF row, a, s, w, J
      <4>3. runs'[w][s] = [q EXCEPT ![a] = row] BY <1>0, <2>1, <3>5, <4>1
      <4> HIDE DEF q
      <4>4. Len([q EXCEPT ![a] = row]) = Len(q) /\ [q EXCEPT ![a] = row][a] = row
        BY <3>5, <4>2 DEF q
      <4> QED BY <4>3, <4>4 DEF q
    <3>7. \E b \in 1..Len(runs'[w][s]) : runs'[w][s][b].state = "COMPLETE"
      <4> HIDE DEF row, a, s, w, J
      <4> QED BY <3>4, <3>5, <3>6
    <3> HIDE DEF j, pc
    <3>8. lane'[c][l] = j BY <1>0, <2>2
    <3> HIDE DEF w, J, s, a
    <3>9. c[1] = w BY DEF w
    <3> QED BY <2>3, <2>6, <3>2, <3>7, <3>8, <3>9 DEF JobBacked, Stored, Completed, Attempts
  <2> QED BY <2>4, <2>5, <2>6
<1>9. CASE LaneAdvance(c, l) /\ ~GiveUp(c, l)
  <2> DEFINE j == [J EXCEPT !.pc = "ready"]
  <2>1. lane' = [lane EXCEPT ![c][l] = j] BY <1>9 DEF LaneAdvance, Lost, Goto
  <2>2. j.pc = "ready" BY <1>0 DEF Jobs
  <2> HIDE DEF j
  <2> QED BY <1>1, <2>1, <2>2
<1>10. ASSUME NEW outcome \in Outcomes, NEW content \in Contents \cup {None},
              RunnerReturns(c, l, outcome, content)
       PROVE  JobBacked(w, lane[c][l])'
  <2> DEFINE pc == IF content # None THEN "receipt" ELSE "finish"
             o == IF outcome = "DEFERRED" /\ J.attempt >= MaxAttempts THEN "FAILED" ELSE outcome
             j == [J EXCEPT !.pc = pc, !.outcome = o, !.content = content]
  <2>1. /\ J.pc = "run"
        /\ content # None => outcome = "COMPLETE"
        /\ lane' = [lane EXCEPT ![c][l] = j]
    BY <1>10 DEF RunnerReturns
  <2>2. pc = "receipt" => o = "COMPLETE" /\ content # None
    <3> HIDE DEF j
    <3> QED BY <2>1
  <2>3. pc \in {"receipt", "finish"} OBVIOUS
  <2> HIDE DEF pc, o
  <2>4. j.pc = pc /\ j.held = J.held /\ j.outcome = o /\ j.content = content BY <1>0 DEF Jobs
  <2> HIDE DEF j
  <2>5. lane'[c][l] = j BY <1>0, <2>1
  <2>6. ~J.held BY <1>00, <2>1
  <2> HIDE DEF w, J
  <2> QED BY <2>2, <2>3, <2>4, <2>5, <2>6 DEF JobBacked
<1>11. \/ LaneIdle(c, l) \/ LaneStart(c, l) \/ LaneReadiness(c, l) \/ LaneFault(c, l)
       \/ OpenTransaction(c, l) \/ CommitTransaction(c, l)
       \/ LaneDecide(c, l) \/ LaneBlock(c, l) \/ LaneReceipt(c, l) \/ LaneFinish(c, l)
       \/ LaneAdvance(c, l)
       \/ \E outcome \in Outcomes, content \in Contents \cup {None} :
            RunnerReturns(c, l, outcome, content)
  BY DEF Advance, Run
<1>12. CASE LaneIdle(c, l) \/ LaneReadiness(c, l) \/ LaneFault(c, l)
  BY <1>2, <1>12 DEF LaneIdle, LaneReadiness, LaneFault
<1>13. CASE LaneStart(c, l) BY <1>2, <1>3, <1>13 DEF LaneStart, Lost
<1>14. CASE OpenTransaction(c, l) BY <1>3, <1>14 DEF OpenTransaction
<1>15. CASE CommitTransaction(c, l) BY <1>3, <1>4, <1>15 DEF CommitTransaction
<1>16. CASE LaneReceipt(c, l) BY <1>2, <1>4, <1>7, <1>16 DEF LaneReceipt
<1> QED BY <1>2, <1>5, <1>6, <1>8, <1>9, <1>10, <1>11, <1>12, <1>13, <1>14, <1>15, <1>16

\* ... or of another process.
LEMMA JobMoves ==
  ASSUME LocalInv, [Next]_vars, NEW c \in Claims, NEW l \in Lanes
  PROVE  \/ lane'[c][l] = lane[c][l]
         \/ lane'[c][l].pc \in {"off", "decide"}
         \/ Advance(c, l) \/ Run(c, l) \/ LaneFault(c, l)
<1>1. CASE UNCHANGED lane BY <1>1
<1>2. ASSUME NEW d \in Claims, Coordinate(d) \/ Heartbeat(d) \/ CoordinatorFault(d)
      PROVE  lane'[c][l] = lane[c][l] \/ lane'[c][l].pc = "decide"
  BY <1>2, CoordinatorFrames DEF CoordinatorFrame
<1>3. ASSUME NEW d \in Claims, NEW m \in Lanes, Advance(d, m) \/ Run(d, m) \/ LaneFault(d, m),
             d # c \/ m # l
      PROVE  lane'[c][l] = lane[c][l]
  BY <1>3, ThreadFrames DEF ThreadFrame
<1>4. ASSUME NEW o \in Owners, Crash(o)
      PROVE  lane'[c][l] = lane[c][l] \/ lane'[c][l].pc = "off"
  BY <1>4, CrashEffect
<1> QED BY <1>1, <1>2, <1>3, <1>4 DEF Next, vars, Claim, ResidentTick, MarkUnavailable, Tick

LEMMA JobsBacked ==
  ASSUME LocalInv, [Next]_vars, NEW c \in Claims, NEW l \in Lanes, JobBacked(c[1], lane[c][l])
  PROVE  JobBacked(c[1], lane[c][l])'
<1>1. CASE Advance(c, l) \/ Run(c, l) \/ LaneFault(c, l) BY <1>1, ThreadBacked
<1>2. CASE lane'[c][l].pc \in {"off", "decide"} BY <1>2 DEF JobBacked
<1>3. CASE lane'[c][l] = lane[c][l]
  <2> DEFINE w == c[1]
             J == lane[c][l]
  <2>1. w \in Windows /\ JobOK(l, J) BY ClaimParts DEF LocalInv
  <2>2. /\ J.pc \in {"block", "start", "run", "tx", "receipt"} => ~J.held
        /\ J.pc = "receipt" => J.outcome = "COMPLETE" /\ J.content # None
    BY DEF JobBacked
  <2>3. \A s \in ReceiptStages : Stored(w, s) => receipt'[w][s] # None
    BY <2>1, StoredStays DEF Stored
  <2>4. \A s \in Stages : Completed(w, s) =>
          \E a \in 1..Len(runs'[w][s]) : runs'[w][s][a].state = "COMPLETE"
    BY <2>1, CompletedStays DEF Completed, Attempts
  <2>5. J.pc = "finish" /\ J.held =>
          J.outcome = "COMPLETE" /\ J.stage \in ReceiptStages /\ receipt'[w][J.stage] # None
    BY <2>3 DEF JobBacked
  <2>6. ASSUME J.pc = "advance"
        PROVE  /\ receipt'[w][J.stage] # None
               /\ \E a \in 1..Len(runs'[w][J.stage]) : runs'[w][J.stage][a].state = "COMPLETE"
    <3>1. J.stage \in ReceiptStages /\ J.stage \in Stages BY <2>1, <2>6, Parameters DEF JobOK
    <3>2. Stored(w, J.stage) /\ Completed(w, J.stage) BY <2>6 DEF JobBacked
    <3> QED BY <2>3, <2>4, <3>1, <3>2
  <2>7. lane'[c][l] = J BY <1>3
  <2> QED BY <2>2, <2>5, <2>6, <2>7 DEF JobBacked, Stored, Completed, Attempts
<1> QED BY <1>1, <1>2, <1>3, JobMoves

\* What a step does to the pointer.
LEMMA ReleaseStep ==
  ASSUME LocalInv, [Next]_vars
  PROVE  \/ UNCHANGED release
         \/ \E c \in Claims, l \in Lanes :
              /\ LaneAdvance(c, l) /\ lane[c][l].pc = "advance"
              /\ release.cutoff < c[1]
              /\ release' = [cutoff |-> c[1], stage |-> lane[c][l].stage]
<1>1. ASSUME NEW c \in Claims, Coordinate(c) \/ Heartbeat(c) \/ CoordinatorFault(c)
      PROVE  UNCHANGED release
  BY <1>1 DEF Coordinate, Recover, BeginRound, CancelOverrun, TimeOutLanes, EndRound, Conclude,
              RecordMissed, Reread, CloseWindow, Heartbeat, CoordinatorFault, db
<1>2. ASSUME NEW c \in Claims, NEW l \in Lanes, Advance(c, l) \/ Run(c, l) \/ LaneFault(c, l)
      PROVE  UNCHANGED release \/ LaneAdvance(c, l)
  BY <1>2 DEF Advance, Run, LaneIdle, LaneDecide, LaneBlock, LaneStart, LaneReceipt, LaneFinish,
              LaneReadiness, OpenTransaction, CommitTransaction, RunnerReturns, LaneFault, db
<1>3. ASSUME NEW c \in Claims, NEW l \in Lanes, LaneAdvance(c, l)
      PROVE  \/ UNCHANGED release
             \/ /\ lane[c][l].pc = "advance" /\ release.cutoff < c[1]
                /\ release' = [cutoff |-> c[1], stage |-> lane[c][l].stage]
  <2> DEFINE next == [cutoff |-> c[1], stage |-> lane[c][l].stage]
  <2>1. /\ lane[c][l].pc = "advance"
        /\ release' = release \/ release' = IF release.cutoff < next.cutoff THEN next ELSE release
    BY <1>3 DEF LaneAdvance
  <2>2. next.cutoff = c[1] OBVIOUS
  <2> HIDE DEF next
  <2>3. release' = release \/ (release.cutoff < c[1] /\ release' = next) BY <2>1, <2>2
  <2> QED BY <2>1, <2>3 DEF next
<1> QED BY <1>1, <1>2, <1>3, Zenon
        DEF Next, vars, db, Claim, ResidentTick, MarkUnavailable, Crash, Tick

LEMMA ReleaseNext == LocalInv /\ ReleaseInv /\ [Next]_vars => ReleaseInv'
<1> SUFFICES ASSUME LocalInv, ReleaseInv, [Next]_vars PROVE ReleaseInv' OBVIOUS
<1>1. \A c \in Claims, l \in Lanes : JobBacked(c[1], lane[c][l])' BY JobsBacked DEF ReleaseInv
<1>2. CASE UNCHANGED release
  <2> DEFINE w == release.cutoff
             s == release.stage
  <2>1. CASE w = 0 BY <1>1, <1>2, <2>1, Constants DEF ReleaseInv, ReleaseIsBacked
  <2>2. CASE w # 0
    <3>1. w \in Windows BY <2>2, TablesTyped
    <3>2. s \in ReleaseStages /\ s \in ReceiptStages /\ s \in Stages
      BY <2>2, Parameters DEF ReleaseInv
    <3>3. Stored(w, s) /\ Completed(w, s)
      BY <2>2 DEF ReleaseInv, ReleaseIsBacked, Stored, Completed
    <3>4. Stored(w, s)' /\ Completed(w, s)'
      <4> HIDE DEF w, s
      <4>1. \A v \in Windows, t \in ReceiptStages : Stored(v, t) => receipt'[v][t] # None
        BY StoredStays DEF Stored
      <4>2. \A v \in Windows, t \in Stages :
              Completed(v, t) => \E a \in 1..Len(runs'[v][t]) : runs'[v][t][a].state = "COMPLETE"
        BY CompletedStays DEF Completed, Attempts
      <4>3. w' = w /\ s' = s BY <1>2 DEF w, s
      <4> QED BY <3>1, <3>2, <3>3, <4>1, <4>2, <4>3 DEF Stored, Completed, Attempts
    <3> QED BY <1>1, <1>2, <3>2, <3>4, Constants
            DEF ReleaseInv, ReleaseIsBacked, Stored, Completed
  <2> QED BY <2>1, <2>2
<1>3. ASSUME NEW c \in Claims, NEW l \in Lanes, lane[c][l].pc = "advance",
             release' = [cutoff |-> c[1], stage |-> lane[c][l].stage]
      PROVE  ReleaseInv'
  <2> DEFINE w == c[1]
             s == lane[c][l].stage
  <2>1. release'.cutoff = w /\ release'.stage = s BY <1>3
  <2>2. w \in Windows /\ s \in ReleaseStages /\ s \in ReceiptStages /\ s \in Stages
    <3>1. JobOK(l, lane[c][l]) BY DEF LocalInv
    <3> QED BY <1>3, <3>1, ClaimParts, Parameters DEF JobOK
  <2>3. Stored(w, s) /\ Completed(w, s) BY <1>3 DEF ReleaseInv, JobBacked
  <2> HIDE DEF w, s
  <2>4. receipt'[w][s] # None BY <2>2, <2>3, StoredStays DEF Stored
  <2>5. \E a \in 1..Len(runs'[w][s]) : runs'[w][s][a].state = "COMPLETE"
    BY <2>2, <2>3, CompletedStays DEF Completed, Attempts
  <2>6. ReleaseIsBacked' BY <2>1, <2>4, <2>5 DEF ReleaseIsBacked, Attempts
  <2> QED BY <1>1, <2>1, <2>2, <2>6, Constants DEF ReleaseInv
<1> QED BY <1>2, <1>3, ReleaseStep

LEMMA ReleaseInit == Init => ReleaseInv
<1> SUFFICES ASSUME Init PROVE ReleaseInv OBVIOUS
<1>1. \A c \in Claims, l \in Lanes : lane[c][l].pc = "off" BY DEF Init, NoJob
<1>2. release.cutoff = 0 BY DEF Init
<1> QED BY <1>1, <1>2 DEF ReleaseInv, JobBacked, ReleaseIsBacked

\* The release pointer names a stored receipt of a stage that completed an
\* attempt in its window, and goes on doing so: a receipt once stored and a
\* record once COMPLETE are never taken back, and no thread reaches
\* advance_release without both.
THEOREM ReleasesBackedWork == Spec => []ReleaseIsBacked
<1>1. Init => ReleaseInv BY ReleaseInit
<1>2. IInv /\ ReleaseInv /\ [Next]_vars => ReleaseInv' BY ReleaseNext DEF IInv
<1>3. ReleaseInv => ReleaseIsBacked BY DEF ReleaseInv
<1> QED BY <1>1, <1>2, <1>3, InvariantHolds, PTL DEF Spec

\* The release pointer never goes back to an earlier cutoff, whichever window's
\* thread is the last to advance it.
THEOREM ReleaseNeverGoesBack == Spec => ReleaseMonotone
<1>1. IInv /\ [Next]_vars => [release'.cutoff >= release.cutoff]_vars
  <2> SUFFICES ASSUME IInv, [Next]_vars PROVE release'.cutoff >= release.cutoff OBVIOUS
  <2>1. LocalInv BY DEF IInv
  <2>2. release.cutoff \in Nat
    <3>1. release.cutoff \in Windows \cup {0} BY <2>1, TablesTyped
    <3>2. \A w \in Windows : w \in Nat BY Parameters
    <3> QED BY <3>1, <3>2
  <2>3. CASE UNCHANGED release BY <2>2, <2>3
  <2>4. ASSUME NEW c \in Claims, NEW l \in Lanes, release.cutoff < c[1],
               release' = [cutoff |-> c[1], stage |-> lane[c][l].stage]
        PROVE  release'.cutoff >= release.cutoff
    <3>1. c[1] \in Nat BY ClaimParts, Parameters
    <3>2. release'.cutoff = c[1] BY <2>4
    <3> QED BY <2>2, <2>4, <3>1, <3>2
  <2>5. CASE \E c \in Claims, l \in Lanes :
               /\ LaneAdvance(c, l) /\ lane[c][l].pc = "advance"
               /\ release.cutoff < c[1]
               /\ release' = [cutoff |-> c[1], stage |-> lane[c][l].stage]
    BY <2>4, <2>5
  <2> QED BY <2>1, <2>3, <2>5, ReleaseStep
<1> QED BY <1>1, InvariantHolds, PTL DEF Spec, ReleaseMonotone
=============================================================================
