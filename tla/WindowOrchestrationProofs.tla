---------------------- MODULE WindowOrchestrationProofs ----------------------
(* The inductive invariant of WindowOrchestration in its layers: every row   *)
(* and local has its type, and no stage of a window has two RUNNING attempts. *)
(* From it, the tables implement ExclusiveExecution.                         *)
EXTENDS WindowOrchestration, SequenceTheorems, TLAPS

-----------------------------------------------------------------------------
(* Facts about the constants.                                                *)

\* What depends on constants only has the same value after a step.
LEMMA Constants ==
  /\ Claims' = Claims /\ Lanes' = Lanes /\ WindowStages' = WindowStages
  /\ WindowRows' = WindowRows /\ RunRows' = RunRows /\ Jobs' = Jobs /\ SessionRows' = SessionRows
  /\ ReadinessStates' = ReadinessStates
  BY DEF Claims, Epochs, Lanes, LanesRequired, WindowStages, WindowRows, RunRows, Jobs,
     SessionRows, RunStates, TerminalStates, NonCompletingStates, TerminalWindowStates,
     OwnedWindowStates, ReadinessStates, Absent

\* What the proofs need of OrchestrationAssumption.
LEMMA Parameters ==
  /\ LeaseSeconds \in Nat /\ MaxAttempts \in Nat /\ RetryDelay \in Nat
  /\ MaxLaneSeconds \in Nat /\ LaneGrace \in Nat /\ MaxEpoch \in Nat /\ MaxTime \in Nat
  /\ \A w \in Windows : Deadline[w] \in Nat /\ ReleaseAt[w] \in Nat
  /\ \A l \in Lanes : LaneOffset[l] \in Nat
  /\ WindowStages \subseteq Stages /\ ReleaseStages \subseteq ReceiptStages
  /\ ReceiptStages \subseteq Stages /\ Windows \subseteq Nat
  /\ None \notin Owners /\ None \notin Stages
  BY OrchestrationAssumption DEF OrchestrationAssumption, Lanes, LanesRequired, WindowStages

\* A claim is a window and an epoch.
LEMMA ClaimParts == ASSUME NEW c \in Claims PROVE c[1] \in Windows /\ c[2] \in Nat /\ c = <<c[1], c[2]>>
  BY DEF Claims, Epochs

\* The lane of a stage is a lane.
LEMMA StageLane == ASSUME NEW s \in WindowStages PROVE LaneOf[s] \in Lanes
  BY DEF Lanes, LanesRequired

\* The rows the actions write are rows of their table.
LEMMA Rows ==
  /\ \A state \in RunStates : NewRow(state) \in RunRows
  /\ \A state \in RunStates, b \in BOOLEAN : [NewRow(state) EXCEPT !.ownerLost = b] \in RunRows
  /\ \A state \in RunStates, n \in Nat : [NewRow(state) EXCEPT !.retryAt = n] \in RunRows
  /\ {"RUNNING", "DEFERRED", "COMPLETE", "FAILED", "BLOCKED_PREREQ", "BLOCKED_POLICY", "MISSED",
      "UNAVAILABLE"} = RunStates
  BY DEF NewRow, RunRows, RunStates, TerminalStates, NonCompletingStates

-----------------------------------------------------------------------------
(* The first layer: types, and what threads and sessions hold.               *)

Working == {"block", "start", "run", "tx", "receipt", "finish", "advance", "ready"}
RunOutcomes == {"COMPLETE", "FAILED", "BLOCKED_POLICY", "DEFERRED"}

\* A working thread has a stage of its lane and what the next step needs.
JobOK(l, j) ==
  /\ j \in Jobs
  /\ j.pc \in Working => j.stage \in WindowStages /\ LaneOf[j.stage] = l
  /\ j.pc = "receipt" => j.stage \in ReceiptStages
  /\ j.pc \in {"receipt", "finish"} => j.outcome \in RunOutcomes
  /\ j.pc = "advance" => j.stage \in ReleaseStages

\* What the coordinator is about to do is well defined.
SessionOK(r) ==
  /\ r \in SessionRows
  /\ r.pc = "timeout" => r.todo \subseteq Lanes
  /\ r.pc = "miss" => r.todo \subseteq WindowStages
  /\ r.pc = "finish" => r.final \in OwnedWindowStates

LocalInv ==
  /\ TypeOK
  /\ \A c \in Claims, l \in Lanes : JobOK(l, lane[c][l])
  /\ \A c \in Claims : SessionOK(session[c])

\* The first layer after a step, from the types of the new values.
LEMMA LocalStep ==
  ASSUME now' \in Nat, up' \subseteq Owners, window' \in [Windows -> WindowRows],
         runs' \in [Windows -> [Stages -> Seq(RunRows)]],
         receipt' \in [Windows -> [ReceiptStages -> Contents \cup {None}]],
         release' \in [cutoff : Windows \cup {0}, stage : ReleaseStages \cup {None}],
         ready' \in [Stages -> ReadinessStates],
         written' \in [Windows -> [Stages -> Nat]],
         session' \in [Claims -> SessionRows],
         lane' \in [Claims -> [Lanes -> Jobs]],
         \A c \in Claims, l \in Lanes : JobOK(l, lane'[c][l]),
         \A c \in Claims : SessionOK(session'[c])
  PROVE  LocalInv'
<1>1. TypeOK' BY Constants DEF TypeOK
<1>2. (\A c \in Claims, l \in Lanes : JobOK(l, lane[c][l]))'
  BY Constants DEF JobOK, Working, RunOutcomes
<1>3. (\A c \in Claims : SessionOK(session[c]))'
  BY Constants DEF SessionOK, OwnedWindowStates
<1> QED BY <1>1, <1>2, <1>3 DEF LocalInv

\* An action of one lane thread.
LEMMA LaneStep ==
  ASSUME LocalInv, NEW c \in Claims, NEW l \in Lanes, NEW j, JobOK(l, j),
         lane' = [lane EXCEPT ![c][l] = j], UNCHANGED <<now, up, session>>,
         window' \in [Windows -> WindowRows], runs' \in [Windows -> [Stages -> Seq(RunRows)]],
         receipt' \in [Windows -> [ReceiptStages -> Contents \cup {None}]],
         release' \in [cutoff : Windows \cup {0}, stage : ReleaseStages \cup {None}],
         ready' \in [Stages -> ReadinessStates], written' \in [Windows -> [Stages -> Nat]]
  PROVE  LocalInv'
<1>1. /\ now' \in Nat /\ up' \subseteq Owners /\ session' \in [Claims -> SessionRows]
      /\ lane \in [Claims -> [Lanes -> Jobs]]
  BY DEF LocalInv, TypeOK
<1>2. \A d \in Claims : SessionOK(session'[d]) BY DEF LocalInv
<1>3. j \in Jobs BY DEF JobOK
<1>4. /\ lane' \in [Claims -> [Lanes -> Jobs]]
      /\ \A d \in Claims, m \in Lanes : lane'[d][m] = IF d = c /\ m = l THEN j ELSE lane[d][m]
  BY <1>1, <1>3
<1>5. \A d \in Claims, m \in Lanes : JobOK(m, lane'[d][m]) BY <1>4 DEF LocalInv
<1> QED BY <1>1, <1>2, <1>4, <1>5, LocalStep

\* An action of one coordinator.
LEMMA SessionStep ==
  ASSUME LocalInv, NEW c \in Claims, NEW r, SessionOK(r), session' = [session EXCEPT ![c] = r],
         UNCHANGED <<now, up, receipt, release, written, lane>>,
         window' \in [Windows -> WindowRows], runs' \in [Windows -> [Stages -> Seq(RunRows)]],
         ready' \in [Stages -> ReadinessStates]
  PROVE  LocalInv'
<1>1. /\ now' \in Nat /\ up' \subseteq Owners /\ lane' \in [Claims -> [Lanes -> Jobs]]
      /\ receipt' \in [Windows -> [ReceiptStages -> Contents \cup {None}]]
      /\ release' \in [cutoff : Windows \cup {0}, stage : ReleaseStages \cup {None}]
      /\ written' \in [Windows -> [Stages -> Nat]] /\ session \in [Claims -> SessionRows]
  BY DEF LocalInv, TypeOK
<1>2. \A d \in Claims, l \in Lanes : JobOK(l, lane'[d][l]) BY DEF LocalInv
<1>3. r \in SessionRows BY DEF SessionOK
<1>4. /\ session' \in [Claims -> SessionRows]
      /\ \A d \in Claims : session'[d] = IF d = c THEN r ELSE session[d]
  BY <1>1, <1>3
<1>5. \A d \in Claims : SessionOK(session'[d]) BY <1>4 DEF LocalInv
<1> QED BY <1>1, <1>2, <1>4, <1>5, LocalStep

\* An action that touches neither.
LEMMA DataStep ==
  ASSUME LocalInv, UNCHANGED <<up, receipt, release, written, session, lane>>,
         now' \in Nat, window' \in [Windows -> WindowRows],
         runs' \in [Windows -> [Stages -> Seq(RunRows)]], ready' \in [Stages -> ReadinessStates]
  PROVE  LocalInv'
<1>1. /\ up' \subseteq Owners /\ session' \in [Claims -> SessionRows]
      /\ lane' \in [Claims -> [Lanes -> Jobs]]
      /\ receipt' \in [Windows -> [ReceiptStages -> Contents \cup {None}]]
      /\ release' \in [cutoff : Windows \cup {0}, stage : ReleaseStages \cup {None}]
      /\ written' \in [Windows -> [Stages -> Nat]]
  BY DEF LocalInv, TypeOK
<1>2. /\ \A d \in Claims, l \in Lanes : JobOK(l, lane'[d][l])
      /\ \A d \in Claims : SessionOK(session'[d])
  BY DEF LocalInv
<1> QED BY <1>1, <1>2, LocalStep

\* What inserting a stage run does to the table.
LEMMA InsertType ==
  ASSUME LocalInv, NEW w \in Windows, NEW s \in Stages, NEW row \in RunRows, runs' = Insert(w, s, row)
  PROVE  /\ runs' \in [Windows -> [Stages -> Seq(RunRows)]]
         /\ \A v \in Windows, t \in Stages :
              runs'[v][t] = IF v = w /\ t = s THEN Append(runs[w][s], row) ELSE runs[v][t]
<1>1. runs \in [Windows -> [Stages -> Seq(RunRows)]] BY DEF LocalInv, TypeOK
<1>2. Append(runs[w][s], row) \in Seq(RunRows) BY <1>1
<1>3. runs' = [runs EXCEPT ![w][s] = Append(runs[w][s], row)] BY DEF Insert
<1> QED BY <1>1, <1>2, <1>3

\* What failing the RUNNING rows of some stages does to the table.
LEMMA FailRunningType ==
  ASSUME LocalInv, NEW w \in Windows, NEW stages, NEW lost \in BOOLEAN,
         runs' = FailRunning(w, stages, lost)
  PROVE  /\ runs' \in [Windows -> [Stages -> Seq(RunRows)]]
         /\ \A v \in Windows, t \in Stages : v # w \/ t \notin stages => runs'[v][t] = runs[v][t]
         /\ \A t \in Stages : Len(runs'[w][t]) = Len(runs[w][t])
         /\ \A t \in Stages : \A a \in 1..Len(runs[w][t]) :
              IF t \in stages /\ Running(w, t, a)
                THEN runs'[w][t][a].state = "FAILED"
                ELSE runs'[w][t][a] = runs[w][t][a]
<1> DEFINE row == [NewRow("FAILED") EXCEPT !.ownerLost = lost]
           new(t) == [a \in DOMAIN runs[w][t] |->
                        IF t \in stages /\ Running(w, t, a) THEN row ELSE runs[w][t][a]]
<1>1. runs \in [Windows -> [Stages -> Seq(RunRows)]] BY DEF LocalInv, TypeOK
<1>2. row \in RunRows /\ row.state = "FAILED"
  <2>1. row \in RunRows BY Rows
  <2> QED BY <2>1 DEF NewRow
<1>3. ASSUME NEW t \in Stages
      PROVE  /\ new(t) \in Seq(RunRows) /\ Len(new(t)) = Len(runs[w][t])
             /\ t \notin stages => new(t) = runs[w][t]
  <2>1. runs[w][t] \in Seq(RunRows) BY <1>1
  <2>2. /\ Len(runs[w][t]) \in Nat /\ DOMAIN runs[w][t] = 1..Len(runs[w][t])
        /\ \A a \in 1..Len(runs[w][t]) : runs[w][t][a] \in RunRows
    BY <2>1
  <2>3. new(t) \in [1..Len(runs[w][t]) -> RunRows]
    <3>1. \A a \in 1..Len(runs[w][t]) :
            (IF t \in stages /\ Running(w, t, a) THEN row ELSE runs[w][t][a]) \in RunRows
      BY <1>2, <2>2
    <3> HIDE DEF row
    <3> QED BY <2>2, <3>1
  <2>4. new(t) \in Seq(RunRows) /\ Len(new(t)) = Len(runs[w][t])
    <3> HIDE DEF new
    <3> QED BY <2>2, <2>3, SeqDef
  <2>5. t \notin stages => new(t) = runs[w][t] BY <2>1, <2>2
  <2> QED BY <2>4, <2>5
<1>4. runs' = [runs EXCEPT ![w] = [t \in Stages |-> new(t)]] BY DEF FailRunning
<1>5. /\ runs'[w] = [t \in Stages |-> new(t)]
      /\ \A v \in Windows : v # w => runs'[v] = runs[v]
      /\ runs' \in [Windows -> [Stages -> Seq(RunRows)]]
  <2> HIDE DEF new
  <2> QED BY <1>1, <1>3, <1>4
<1>6. \A t \in Stages : \A a \in 1..Len(runs[w][t]) :
        runs'[w][t][a] = IF t \in stages /\ Running(w, t, a) THEN row ELSE runs[w][t][a]
  <2> TAKE t \in Stages
  <2>1. DOMAIN runs[w][t] = 1..Len(runs[w][t]) BY <1>1
  <2>2. runs'[w][t] = new(t) BY <1>5
  <2> HIDE DEF row
  <2> QED BY <2>1, <2>2
<1>7. \A t \in Stages : Len(runs'[w][t]) = Len(runs[w][t]) BY <1>3, <1>5
<1>8. \A v \in Windows, t \in Stages : v # w \/ t \notin stages => runs'[v][t] = runs[v][t]
  BY <1>3, <1>5
<1> HIDE DEF new, row
<1> QED BY <1>2, <1>5, <1>6, <1>7, <1>8

\* Every table keeps its type in a step that does not change it.
LEMMA TablesTyped ==
  ASSUME LocalInv
  PROVE  /\ now \in Nat /\ up \subseteq Owners
         /\ window \in [Windows -> WindowRows]
         /\ runs \in [Windows -> [Stages -> Seq(RunRows)]]
         /\ receipt \in [Windows -> [ReceiptStages -> Contents \cup {None}]]
         /\ release \in [cutoff : Windows \cup {0}, stage : ReleaseStages \cup {None}]
         /\ ready \in [Stages -> ReadinessStates]
         /\ written \in [Windows -> [Stages -> Nat]]
         /\ session \in [Claims -> SessionRows]
         /\ lane \in [Claims -> [Lanes -> Jobs]]
  BY DEF LocalInv, TypeOK

\* Renewing a lease keeps who holds the window.
LEMMA RenewedType ==
  ASSUME LocalInv, NEW c \in Claims, window' = Renewed(c)
  PROVE  /\ window' \in [Windows -> WindowRows]
         /\ \A w \in Windows : /\ window'[w].state = window[w].state
                               /\ window'[w].epoch = window[w].epoch
                               /\ window'[w].owner = window[w].owner
<1>1. now + LeaseSeconds \in Nat BY TablesTyped, Parameters
<1>2. c[1] \in Windows BY ClaimParts
<1>3. window' = [window EXCEPT ![c[1]].lease = now + LeaseSeconds] BY DEF Renewed
<1>4. window \in [Windows -> WindowRows] BY TablesTyped
<1> QED BY <1>1, <1>2, <1>3, <1>4 DEF WindowRows

\* The empty thread is a thread record.
LEMMA NoJobType == NoJob \in Jobs
  BY DEF NoJob, Jobs, Absent

\* A thread that has no stage in hand needs nothing.
LEMMA IdleJobs ==
  ASSUME NEW l \in Lanes, NEW pc \in {"off", "decide", "done", "lost"}, NEW progressed \in BOOLEAN
  PROVE  JobOK(l, [NoJob EXCEPT !.pc = pc, !.progressed = progressed])
<1> DEFINE j == [NoJob EXCEPT !.pc = pc, !.progressed = progressed]
<1> SUFFICES JobOK(l, j) OBVIOUS
<1>1. j \in Jobs BY NoJobType DEF Jobs
<1>2. j.pc = pc BY DEF NoJob
<1> HIDE DEF j
<1> QED BY <1>1, <1>2 DEF JobOK, Working

\* Leaving a stage leaves the thread well formed ...
LEMMA LeaveOK ==
  ASSUME LocalInv, NEW c \in Claims, NEW l \in Lanes, NEW pc \in {"decide", "done", "lost"},
         NEW progressed \in BOOLEAN, Leave(c, l, pc, progressed)
  PROVE  \E j : JobOK(l, j) /\ j.pc = pc /\ lane' = [lane EXCEPT ![c][l] = j]
<1> DEFINE j == [NoJob EXCEPT !.pc = pc, !.progressed = progressed]
<1>1. JobOK(l, j) BY IdleJobs
<1>2. j.pc = pc BY DEF NoJob
<1>3. lane' = [lane EXCEPT ![c][l] = j] BY DEF Leave
<1> HIDE DEF j
<1> QED BY <1>1, <1>2, <1>3

\* ... when the lease is lost,
LEMMA LostOK ==
  ASSUME LocalInv, NEW c \in Claims, NEW l \in Lanes, Lost(c, l) \/ GiveUp(c, l)
  PROVE  \E j : JobOK(l, j) /\ j.pc = "lost" /\ lane' = [lane EXCEPT ![c][l] = j]
<1>1. Leave(c, l, "lost", FALSE) BY DEF Lost, GiveUp
<1> QED BY <1>1, LeaveOK, FALSE \in BOOLEAN, Zenon

\* ... when the thread ends,
LEMMA DoneOK ==
  ASSUME LocalInv, NEW c \in Claims, NEW l \in Lanes, Leave(c, l, "done", FALSE)
  PROVE  \E j : JobOK(l, j) /\ j.pc = "done" /\ lane' = [lane EXCEPT ![c][l] = j]
<1> QED BY LeaveOK, FALSE \in BOOLEAN, Zenon

\* ... and when it looks for its next stage.
LEMMA DecideOK ==
  ASSUME LocalInv, NEW c \in Claims, NEW l \in Lanes, Leave(c, l, "decide", TRUE)
  PROVE  \E j : JobOK(l, j) /\ j.pc = "decide" /\ lane' = [lane EXCEPT ![c][l] = j]
<1> QED BY LeaveOK, TRUE \in BOOLEAN, Zenon

\* Moving a thread to a step that needs nothing new.
LEMMA GotoOK ==
  ASSUME LocalInv, NEW c \in Claims, NEW l \in Lanes, NEW pc \in {"run", "tx", "ready"},
         lane[c][l].pc \in Working, Goto(c, l, pc)
  PROVE  \E j : JobOK(l, j) /\ j.pc = pc /\ lane' = [lane EXCEPT ![c][l] = j]
<1> DEFINE j == [lane[c][l] EXCEPT !.pc = pc]
<1>1. JobOK(l, lane[c][l]) BY DEF LocalInv
<1>2. JobOK(l, j) /\ j.pc = pc BY <1>1 DEF JobOK, Jobs, Working
<1>3. lane' = [lane EXCEPT ![c][l] = j] BY DEF Goto
<1> HIDE DEF j
<1> QED BY <1>2, <1>3

-----------------------------------------------------------------------------
(* The first layer is kept by the steps of the lane threads.                 *)

\* A step of this action keeps the first layer.
LEMMA LocalIdle ==
  ASSUME LocalInv, NEW c \in Claims, NEW l \in Lanes, LaneIdle(c, l) PROVE LocalInv'
<1>1. lane[c][l].progressed \in BOOLEAN BY DEF LocalInv, JobOK, Jobs
<1>2. PICK j : JobOK(l, j) /\ lane' = [lane EXCEPT ![c][l] = j] BY <1>1, LeaveOK DEF LaneIdle
<1>3. UNCHANGED <<now, up, window, runs, receipt, release, ready, written, session>>
  BY DEF LaneIdle, db
<1> QED BY <1>2, <1>3, LaneStep, TablesTyped

\* A step of this action keeps the first layer.
LEMMA LocalFault ==
  ASSUME LocalInv, NEW c \in Claims, NEW l \in Lanes, LaneFault(c, l) PROVE LocalInv'
<1>1. Leave(c, l, "done", FALSE) BY DEF LaneFault
<1>2. PICK j : JobOK(l, j) /\ lane' = [lane EXCEPT ![c][l] = j] BY <1>1, DoneOK
<1>3. UNCHANGED <<now, up, window, runs, receipt, release, ready, written, session>>
  BY DEF LaneFault, db
<1> QED BY <1>2, <1>3, LaneStep, TablesTyped

\* A step of this action keeps the first layer.
LEMMA LocalDecide ==
  ASSUME LocalInv, NEW c \in Claims, NEW l \in Lanes, LaneDecide(c, l) PROVE LocalInv'
<1>1. PICK s \in Steps(c, l) : lane' = [lane EXCEPT ![c][l] =
            [NoJob EXCEPT !.pc = IF Decide(c, s) = "RUN" THEN "start" ELSE "block",
                          !.stage = s, !.attempt = Attempts(c[1], s) + 1, !.progressed = TRUE]]
  BY DEF LaneDecide
<1> DEFINE pc == IF Decide(c, s) = "RUN" THEN "start" ELSE "block"
           n == Attempts(c[1], s) + 1
           j == [NoJob EXCEPT !.pc = pc, !.stage = s, !.attempt = n, !.progressed = TRUE]
<1>2. s \in WindowStages /\ LaneOf[s] = l BY DEF Steps
<1>3. n \in Nat
  <2>1. runs[c[1]][s] \in Seq(RunRows) BY <1>2, TablesTyped, ClaimParts, Parameters
  <2> QED BY <2>1 DEF Attempts
<1>4. pc \in {"start", "block"} OBVIOUS
<1>5. JobOK(l, j)
  <2> HIDE DEF pc, n
  <2>1. j \in Jobs BY <1>2, <1>3, <1>4, NoJobType DEF Jobs
  <2>2. j.pc = pc /\ j.stage = s BY DEF NoJob
  <2> HIDE DEF j
  <2> QED BY <1>2, <1>4, <2>1, <2>2 DEF JobOK
<1>6. UNCHANGED <<now, up, window, runs, receipt, release, ready, written, session>>
  BY DEF LaneDecide, db
<1>7. lane' = [lane EXCEPT ![c][l] = j] BY <1>1
<1> HIDE DEF j
<1> QED BY <1>5, <1>6, <1>7, LaneStep, TablesTyped

\* A step of this action keeps the first layer.
LEMMA LocalBlock ==
  ASSUME LocalInv, NEW c \in Claims, NEW l \in Lanes, LaneBlock(c, l) PROVE LocalInv'
<1>1. UNCHANGED <<now, up, window, receipt, release, ready, written, session>> BY DEF LaneBlock
<1>2. CASE Lost(c, l) /\ UNCHANGED runs
  <2>1. PICK j : JobOK(l, j) /\ lane' = [lane EXCEPT ![c][l] = j] BY <1>2, LostOK
  <2> QED BY <1>1, <1>2, <2>1, LaneStep, TablesTyped
<1>3. CASE ~(Lost(c, l) /\ UNCHANGED runs)
  <2> DEFINE s == lane[c][l].stage
             j == [lane[c][l] EXCEPT !.pc = "ready", !.outcome = "BLOCKED_PREREQ"]
  <2>1. /\ runs' = Insert(c[1], s, NewRow("BLOCKED_PREREQ"))
        /\ lane' = [lane EXCEPT ![c][l].pc = "ready", ![c][l].outcome = "BLOCKED_PREREQ"]
        /\ lane[c][l].pc = "block"
    BY <1>3 DEF LaneBlock
  <2>2. JobOK(l, lane[c][l]) BY DEF LocalInv
  <2>3. s \in Stages BY <2>1, <2>2, Parameters DEF JobOK, Working
  <2>4. JobOK(l, j)
    <3>1. "BLOCKED_PREREQ" \in RunStates BY Rows
    <3> QED BY <2>1, <2>2, <3>1 DEF JobOK, Jobs, Working
  <2>5. lane' = [lane EXCEPT ![c][l] = j] BY <2>1, TablesTyped
  <2>6. NewRow("BLOCKED_PREREQ") \in RunRows BY Rows
  <2>7. runs' \in [Windows -> [Stages -> Seq(RunRows)]]
    <3> HIDE DEF s
    <3> QED BY <2>1, <2>3, <2>6, InsertType, ClaimParts
  <2> HIDE DEF j
  <2> QED BY <1>1, <2>4, <2>5, <2>7, LaneStep, TablesTyped
<1> QED BY <1>2, <1>3

\* A step of this action keeps the first layer.
LEMMA LocalStart ==
  ASSUME LocalInv, NEW c \in Claims, NEW l \in Lanes, LaneStart(c, l) PROVE LocalInv'
<1>1. UNCHANGED <<now, up, receipt, release, ready, written, session>> BY DEF LaneStart
<1>2. CASE Lost(c, l) /\ UNCHANGED <<window, runs>>
  <2>1. PICK j : JobOK(l, j) /\ lane' = [lane EXCEPT ![c][l] = j] BY <1>2, LostOK
  <2> QED BY <1>1, <1>2, <2>1, LaneStep, TablesTyped
<1>3. CASE window' = Renewed(c) /\ Leave(c, l, "done", FALSE) /\ UNCHANGED runs
  <2>1. PICK j : JobOK(l, j) /\ lane' = [lane EXCEPT ![c][l] = j] BY <1>3, DoneOK
  <2>2. window' \in [Windows -> WindowRows] BY <1>3, RenewedType
  <2> QED BY <1>1, <1>3, <2>1, <2>2, LaneStep, TablesTyped
<1>4. CASE /\ window' = Renewed(c) /\ Goto(c, l, "run")
           /\ runs' = Insert(c[1], lane[c][l].stage, NewRow("RUNNING"))
  <2>1. lane[c][l].pc = "start" BY DEF LaneStart
  <2>2. PICK j : JobOK(l, j) /\ lane' = [lane EXCEPT ![c][l] = j]
    BY <1>4, <2>1, GotoOK DEF Working
  <2>3. window' \in [Windows -> WindowRows] BY <1>4, RenewedType
  <2>4. JobOK(l, lane[c][l]) BY DEF LocalInv
  <2>5. lane[c][l].stage \in Stages BY <2>1, <2>4, Parameters DEF JobOK, Working
  <2>6. NewRow("RUNNING") \in RunRows BY Rows
  <2>7. runs' \in [Windows -> [Stages -> Seq(RunRows)]]
    BY <1>4, <2>5, <2>6, InsertType, ClaimParts
  <2> QED BY <1>1, <2>2, <2>3, <2>7, LaneStep, TablesTyped
<1> QED BY <1>2, <1>3, <1>4 DEF LaneStart

\* A step of this action keeps the first layer.
LEMMA LocalOpen ==
  ASSUME LocalInv, NEW c \in Claims, NEW l \in Lanes, OpenTransaction(c, l) PROVE LocalInv'
<1>1. UNCHANGED <<now, up, window, runs, receipt, release, ready, written, session>>
  BY DEF OpenTransaction, db
<1>2. lane[c][l].pc \in Working /\ Goto(c, l, "tx") BY DEF OpenTransaction, Working
<1>3. PICK j : JobOK(l, j) /\ lane' = [lane EXCEPT ![c][l] = j] BY <1>2, GotoOK
<1> QED BY <1>1, <1>3, LaneStep, TablesTyped

\* A step of this action keeps the first layer.
LEMMA LocalCommit ==
  ASSUME LocalInv, NEW c \in Claims, NEW l \in Lanes, CommitTransaction(c, l) PROVE LocalInv'
<1>1. /\ UNCHANGED <<now, up, window, runs, receipt, release, ready, session>>
      /\ lane[c][l].pc = "tx"
  BY DEF CommitTransaction
<1>2. JobOK(l, lane[c][l]) BY DEF LocalInv
<1>3. CASE /\ written' = [written EXCEPT ![c[1]][lane[c][l].stage] = lane[c][l].attempt]
           /\ Goto(c, l, "run")
  <2>1. lane[c][l].pc \in Working BY <1>1 DEF Working
  <2>2. PICK j : JobOK(l, j) /\ lane' = [lane EXCEPT ![c][l] = j] BY <1>3, <2>1, GotoOK
  <2>3. lane[c][l].attempt \in Nat BY <1>2 DEF JobOK, Jobs
  <2>4. written \in [Windows -> [Stages -> Nat]] BY TablesTyped
  <2>5. written' \in [Windows -> [Stages -> Nat]] BY <1>3, <2>3, <2>4
  <2> QED BY <1>1, <2>2, <2>5, LaneStep, TablesTyped
<1>4. CASE /\ lane' = [lane EXCEPT ![c][l].pc = "finish", ![c][l].outcome = "FAILED"]
           /\ UNCHANGED written
  <2> DEFINE j == [lane[c][l] EXCEPT !.pc = "finish", !.outcome = "FAILED"]
  <2>1. "FAILED" \in RunStates BY Rows
  <2>2. JobOK(l, j) BY <1>1, <1>2, <2>1 DEF JobOK, Jobs, Working, RunOutcomes
  <2>3. lane' = [lane EXCEPT ![c][l] = j] BY <1>4, TablesTyped
  <2> HIDE DEF j
  <2> QED BY <1>1, <1>4, <2>2, <2>3, LaneStep, TablesTyped
<1> QED BY <1>3, <1>4 DEF CommitTransaction

\* A step of this action keeps the first layer.
LEMMA LocalReturns ==
  ASSUME LocalInv, NEW c \in Claims, NEW l \in Lanes, NEW outcome \in Outcomes,
         NEW content \in Contents \cup {None}, RunnerReturns(c, l, outcome, content)
  PROVE  LocalInv'
<1> DEFINE o == IF outcome = "DEFERRED" /\ lane[c][l].attempt >= MaxAttempts
                  THEN "FAILED" ELSE outcome
           pc == IF content # None THEN "receipt" ELSE "finish"
           j == [lane[c][l] EXCEPT !.pc = pc, !.outcome = o, !.content = content]
<1>1. UNCHANGED <<now, up, window, runs, receipt, release, ready, written, session>>
  BY DEF RunnerReturns, db
<1>2. JobOK(l, lane[c][l]) BY DEF LocalInv
<1>3. o \in RunOutcomes BY OrchestrationAssumption DEF OrchestrationAssumption, RunOutcomes
<1>4. RunOutcomes \subseteq RunStates BY Rows DEF RunOutcomes
<1>5. /\ lane[c][l].pc = "run"
      /\ content # None => lane[c][l].stage \in ReceiptStages
  BY DEF RunnerReturns
<1>6. lane' = [lane EXCEPT ![c][l] = j] BY DEF RunnerReturns
<1>7. pc \in {"receipt", "finish"} /\ (pc = "receipt" => content # None) OBVIOUS
<1>8. JobOK(l, j)
  <2> HIDE DEF o, pc
  <2>1. j \in Jobs BY <1>2, <1>3, <1>4, <1>7 DEF JobOK, Jobs
  <2>2. j.pc = pc /\ j.outcome = o /\ j.stage = lane[c][l].stage BY <1>2 DEF JobOK, Jobs
  <2> HIDE DEF j
  <2> QED BY <1>2, <1>3, <1>5, <1>7, <2>1, <2>2 DEF JobOK, Working
<1> HIDE DEF j
<1> QED BY <1>1, <1>6, <1>8, LaneStep, TablesTyped

\* A step of this action keeps the first layer.
LEMMA LocalReceipt ==
  ASSUME LocalInv, NEW c \in Claims, NEW l \in Lanes, LaneReceipt(c, l) PROVE LocalInv'
<1> DEFINE s == lane[c][l].stage
           bound == [receipt EXCEPT ![c[1]][s] = IF @ = None THEN lane[c][l].content ELSE @]
           Typed == [Windows -> [ReceiptStages -> Contents \cup {None}]]
<1>1. /\ UNCHANGED <<now, up, window, runs, release, ready, written, session>>
      /\ lane[c][l].pc = "receipt"
  BY DEF LaneReceipt
<1>2. JobOK(l, lane[c][l]) BY DEF LocalInv
<1>3. receipt \in Typed BY TablesTyped
<1>4. bound \in Typed
  <2>1. s \in ReceiptStages /\ lane[c][l].content \in Contents \cup {None}
    BY <1>1, <1>2 DEF JobOK, Jobs
  <2>2. c[1] \in Windows BY ClaimParts
  <2>3. receipt[c[1]][s] \in Contents \cup {None} BY <1>3, <2>1, <2>2
  <2> HIDE DEF s
  <2> QED BY <1>3, <2>1, <2>2, <2>3
<1> HIDE DEF bound
<1>5. CASE GiveUp(c, l) /\ UNCHANGED receipt
  <2>1. PICK j : JobOK(l, j) /\ lane' = [lane EXCEPT ![c][l] = j] BY <1>5, LostOK
  <2> QED BY <1>1, <1>3, <1>5, <2>1, LaneStep, TablesTyped
<1>6. CASE /\ receipt' = bound
           /\ lane' = [lane EXCEPT ![c][l].pc = "finish", ![c][l].held = TRUE]
  <2> DEFINE j == [lane[c][l] EXCEPT !.pc = "finish", !.held = TRUE]
  <2>1. JobOK(l, j) BY <1>1, <1>2 DEF JobOK, Jobs, Working
  <2>2. lane' = [lane EXCEPT ![c][l] = j] BY <1>6, TablesTyped
  <2> HIDE DEF j
  <2> QED BY <1>1, <1>4, <1>6, <2>1, <2>2, LaneStep, TablesTyped
<1>7. CASE /\ receipt' \in {receipt, bound}
           /\ lane' = [lane EXCEPT ![c][l].pc = "finish", ![c][l].outcome = "FAILED"]
  <2> DEFINE j == [lane[c][l] EXCEPT !.pc = "finish", !.outcome = "FAILED"]
  <2>1. "FAILED" \in RunStates BY Rows
  <2>2. JobOK(l, j) BY <1>1, <1>2, <2>1 DEF JobOK, Jobs, Working, RunOutcomes
  <2>3. lane' = [lane EXCEPT ![c][l] = j] BY <1>7, TablesTyped
  <2>4. receipt' \in Typed BY <1>3, <1>4, <1>7
  <2> HIDE DEF j
  <2> QED BY <1>1, <2>2, <2>3, <2>4, LaneStep, TablesTyped
<1> QED BY <1>5, <1>6, <1>7 DEF LaneReceipt, bound

\* A step of this action keeps the first layer.
LEMMA LocalFinish ==
  ASSUME LocalInv, NEW c \in Claims, NEW l \in Lanes, LaneFinish(c, l) PROVE LocalInv'
<1> DEFINE s == lane[c][l].stage
           at == IF lane[c][l].outcome = "DEFERRED" THEN Least(now + RetryDelay, Deadline[c[1]]) ELSE 0
           row == [NewRow(lane[c][l].outcome) EXCEPT !.retryAt = at]
           pc == IF lane[c][l].held /\ s \in ReleaseStages THEN "advance" ELSE "ready"
           j == [lane[c][l] EXCEPT !.pc = pc]
<1>1. /\ UNCHANGED <<now, up, window, receipt, release, ready, written, session>>
      /\ lane[c][l].pc = "finish"
  BY DEF LaneFinish
<1>2. JobOK(l, lane[c][l]) BY DEF LocalInv
<1>3. CASE GiveUp(c, l) /\ UNCHANGED runs
  <2>1. PICK k : JobOK(l, k) /\ lane' = [lane EXCEPT ![c][l] = k] BY <1>3, LostOK
  <2> QED BY <1>1, <1>3, <2>1, LaneStep, TablesTyped
<1>4. CASE /\ Mine(c, l) /\ Goto(c, l, pc)
           /\ runs' = [runs EXCEPT ![c[1]][s][lane[c][l].attempt] = row]
  <2>1. row \in RunRows
    <3>1. lane[c][l].outcome \in RunStates BY <1>1, <1>2, Rows DEF JobOK, RunOutcomes
    <3>2. at \in Nat BY TablesTyped, Parameters, ClaimParts DEF Least
    <3> HIDE DEF at
    <3> QED BY <3>1, <3>2, Rows
  <2>2. s \in Stages BY <1>1, <1>2, Parameters DEF JobOK, Working
  <2>3. /\ runs \in [Windows -> [Stages -> Seq(RunRows)]] /\ c[1] \in Windows
        /\ lane[c][l].attempt \in 1..Len(runs[c[1]][s])
    BY <1>4, TablesTyped, ClaimParts DEF Mine, Running, Attempts
  <2>4. [runs[c[1]][s] EXCEPT ![lane[c][l].attempt] = row] \in Seq(RunRows)
    <3> HIDE DEF row, s
    <3> QED BY <2>1, <2>2, <2>3, ExceptSeq
  <2>5. runs' \in [Windows -> [Stages -> Seq(RunRows)]]
    <3> HIDE DEF row, s
    <3> QED BY <1>4, <2>2, <2>3, <2>4
  <2>6. JobOK(l, j)
    <3>1. pc \in {"advance", "ready"} /\ (pc = "advance" => s \in ReleaseStages) OBVIOUS
    <3> HIDE DEF pc
    <3> QED BY <1>1, <1>2, <3>1 DEF JobOK, Jobs, Working
  <2>7. lane' = [lane EXCEPT ![c][l] = j] BY <1>4 DEF Goto
  <2> HIDE DEF j
  <2> QED BY <1>1, <2>5, <2>6, <2>7, LaneStep, TablesTyped
<1> QED BY <1>3, <1>4 DEF LaneFinish

\* A step of this action keeps the first layer.
LEMMA LocalAdvance ==
  ASSUME LocalInv, NEW c \in Claims, NEW l \in Lanes, LaneAdvance(c, l) PROVE LocalInv'
<1>1. /\ UNCHANGED <<now, up, window, runs, receipt, ready, written, session>>
      /\ lane[c][l].pc = "advance"
  BY DEF LaneAdvance
<1>2. CASE Lost(c, l) /\ UNCHANGED release
  <2>1. PICK k : JobOK(l, k) /\ lane' = [lane EXCEPT ![c][l] = k] BY <1>2, LostOK
  <2> QED BY <1>1, <1>2, <2>1, LaneStep, TablesTyped
<1>3. CASE /\ release' \in {release, [cutoff |-> c[1], stage |-> lane[c][l].stage]}
           /\ Goto(c, l, "ready")
  <2>1. JobOK(l, lane[c][l]) BY DEF LocalInv
  <2>2. lane[c][l].stage \in ReleaseStages BY <1>1, <2>1 DEF JobOK
  <2>3. c[1] \in Windows BY ClaimParts
  <2>4. release' \in [cutoff : Windows \cup {0}, stage : ReleaseStages \cup {None}]
    BY <1>3, <2>2, <2>3, TablesTyped
  <2>5. lane[c][l].pc \in Working BY <1>1 DEF Working
  <2>6. PICK j : JobOK(l, j) /\ lane' = [lane EXCEPT ![c][l] = j] BY <1>3, <2>5, GotoOK
  <2> QED BY <1>1, <2>4, <2>6, LaneStep, TablesTyped
<1> QED BY <1>2, <1>3 DEF LaneAdvance

\* A step of this action keeps the first layer.
LEMMA LocalReadiness ==
  ASSUME LocalInv, NEW c \in Claims, NEW l \in Lanes, LaneReadiness(c, l) PROVE LocalInv'
<1>1. /\ UNCHANGED <<now, up, window, runs, receipt, release, written, session>>
      /\ ready' = [ready EXCEPT ![lane[c][l].stage] = ReadinessOf(lane[c][l].outcome)]
      /\ Leave(c, l, "decide", TRUE)
  BY DEF LaneReadiness
<1>2. ReadinessOf(lane[c][l].outcome) \in ReadinessStates BY DEF ReadinessOf, ReadinessStates
<1>3. ready' \in [Stages -> ReadinessStates] BY <1>1, <1>2, TablesTyped
<1>4. PICK j : JobOK(l, j) /\ lane' = [lane EXCEPT ![c][l] = j] BY <1>1, DecideOK
<1> QED BY <1>1, <1>3, <1>4, LaneStep, TablesTyped

-----------------------------------------------------------------------------
(* The first layer is kept by the steps of the coordinators.                 *)

\* A session that has just begun or ended needs nothing.
LEMMA NoSessionOK ==
  ASSUME NEW pc \in {"none", "recover", "ended"}, NEW o \in Owners \cup {None}, NEW L \in SUBSET Lanes
  PROVE  /\ SessionOK([NoSession EXCEPT !.pc = pc, !.owner = o])
         /\ SessionOK([NoSession EXCEPT !.pc = pc, !.owner = o, !.cancelled = L])
<1>1. NoSession \in SessionRows BY DEF NoSession, SessionRows
<1> DEFINE q == [NoSession EXCEPT !.pc = pc, !.owner = o]
           r == [NoSession EXCEPT !.pc = pc, !.owner = o, !.cancelled = L]
<1> SUFFICES SessionOK(q) /\ SessionOK(r) OBVIOUS
<1>2. q \in SessionRows /\ r \in SessionRows BY <1>1 DEF SessionRows
<1>3. q.pc = pc /\ r.pc = pc BY DEF NoSession
<1> HIDE DEF q, r
<1> QED BY <1>2, <1>3 DEF SessionOK

\* Ending a session keeps its owner.
LEMMA EndOK ==
  ASSUME LocalInv, NEW c \in Claims, End(c)
  PROVE  \E r : /\ SessionOK(r) /\ r.pc = "ended" /\ r.owner = session[c].owner
                /\ session' = [session EXCEPT ![c] = r]
<1> DEFINE r == [NoSession EXCEPT !.pc = "ended", !.owner = session[c].owner, !.cancelled = Lanes]
<1>1. session[c].owner \in Owners \cup {None} BY TablesTyped DEF SessionRows
<1>2. SessionOK(r) BY <1>1, NoSessionOK
<1>3. r.pc = "ended" /\ r.owner = session[c].owner BY DEF NoSession
<1>4. session' = [session EXCEPT ![c] = r] BY DEF End
<1> HIDE DEF r
<1> QED BY <1>2, <1>3, <1>4

\* A step of this action keeps the first layer.
LEMMA LocalClaim ==
  ASSUME LocalInv, NEW o \in Owners, NEW w \in Windows, Claim(o, w) PROVE LocalInv'
<1> DEFINE c == <<w, window[w].epoch + 1>>
           r == [NoSession EXCEPT !.pc = "recover", !.owner = o]
           row == [state |-> "RUNNING", owner |-> o, epoch |-> c[2], lease |-> now + LeaseSeconds]
<1>1. /\ c \in Claims
      /\ UNCHANGED <<now, up, runs, receipt, release, ready, written, lane>>
      /\ session' = [session EXCEPT ![c] = r]
      /\ window' = [window EXCEPT ![w] = row]
  BY DEF Claim
<1>2. SessionOK(r) BY NoSessionOK
<1>3. row \in WindowRows
  <2>1. now + LeaseSeconds \in Nat BY TablesTyped, Parameters
  <2>2. c[2] \in 0..MaxEpoch BY <1>1, Parameters DEF Claims, Epochs
  <2> HIDE DEF c
  <2> QED BY <2>1, <2>2 DEF WindowRows
<1>4. window' \in [Windows -> WindowRows]
  <2> HIDE DEF row
  <2> QED BY <1>1, <1>3, TablesTyped
<1> HIDE DEF c, r
<1> QED BY <1>1, <1>2, <1>4, SessionStep, TablesTyped

\* Between rounds a session needs nothing.
LEMMA MovedOK ==
  ASSUME LocalInv, NEW c \in Claims, NEW pc \in {"round", "conclude"}
  PROVE  SessionOK([session[c] EXCEPT !.pc = pc])
<1> DEFINE r == [session[c] EXCEPT !.pc = pc]
<1> SUFFICES SessionOK(r) OBVIOUS
<1>1. session[c] \in SessionRows BY TablesTyped
<1>2. r \in SessionRows /\ r.pc = pc BY <1>1 DEF SessionRows
<1> HIDE DEF r
<1> QED BY <1>2 DEF SessionOK

\* A step of this action keeps the first layer.
LEMMA LocalRecover ==
  ASSUME LocalInv, NEW c \in Claims, Recover(c) PROVE LocalInv'
<1>1. UNCHANGED <<now, up, window, receipt, release, ready, written, lane>> BY DEF Recover
<1>2. CASE End(c) /\ UNCHANGED runs
  <2>1. PICK r : SessionOK(r) /\ session' = [session EXCEPT ![c] = r] BY <1>2, EndOK
  <2> QED BY <1>1, <1>2, <2>1, SessionStep, TablesTyped
<1>3. CASE /\ runs' = FailRunning(c[1], Stages, TRUE)
           /\ session' = [session EXCEPT ![c].pc = "round"]
  <2> DEFINE r == [session[c] EXCEPT !.pc = "round"]
  <2>1. SessionOK(r) BY MovedOK
  <2>2. session' = [session EXCEPT ![c] = r] BY <1>3
  <2>3. runs' \in [Windows -> [Stages -> Seq(RunRows)]]
    BY <1>3, FailRunningType, ClaimParts, TRUE \in BOOLEAN
  <2> HIDE DEF r
  <2> QED BY <1>1, <2>1, <2>2, <2>3, SessionStep, TablesTyped
<1> QED BY <1>2, <1>3 DEF Recover, LeaseLost

\* The end of a lane budget is an instant.
LEMMA LaneEndType ==
  ASSUME LocalInv, NEW w \in Windows, NEW l \in Lanes PROVE LaneEnd(w, l) \in Nat
<1> DEFINE deadline == IF LaneOffset[l] < Deadline[w] - ReleaseAt[w]
                         THEN ReleaseAt[w] + LaneOffset[l] ELSE Deadline[w]
           remaining == IF deadline > now THEN deadline - now ELSE 0
<1>1. /\ now \in Nat /\ Deadline[w] \in Nat /\ ReleaseAt[w] \in Nat /\ LaneOffset[l] \in Nat
      /\ LaneGrace \in Nat /\ MaxLaneSeconds \in Nat
  BY TablesTyped, Parameters
<1>2. deadline \in Nat BY <1>1
<1>3. remaining \in Nat
  <2> HIDE DEF deadline
  <2> QED BY <1>1, <1>2
<1>4. LaneEnd(w, l) = now + (IF remaining + LaneGrace < MaxLaneSeconds
                               THEN remaining + LaneGrace ELSE MaxLaneSeconds)
  BY DEF LaneEnd
<1> HIDE DEF remaining
<1> QED BY <1>1, <1>3, <1>4

\* A step of this action keeps the first layer.
LEMMA LocalBegin ==
  ASSUME LocalInv, NEW c \in Claims, BeginRound(c) PROVE LocalInv'
<1> DEFINE active == Lanes \ session[c].abandoned
           pc == IF active = {} THEN "conclude" ELSE "wait"
           ends == [l \in Lanes |-> IF l \in active THEN LaneEnd(c[1], l) ELSE session[c].ends[l]]
           r == [session[c] EXCEPT !.pc = pc, !.active = active, !.ends = ends]
           jobs == [l \in Lanes |->
                      IF l \in active THEN [NoJob EXCEPT !.pc = "decide"] ELSE lane[c][l]]
<1>1. /\ UNCHANGED <<now, up, window, runs, receipt, release, ready, written>>
      /\ session' = [session EXCEPT ![c] = r]
      /\ lane' = [lane EXCEPT ![c] = jobs]
  BY DEF BeginRound, db
<1>2. SessionOK(r)
  <2>1. session[c] \in SessionRows BY TablesTyped
  <2>2. ends \in [Lanes -> Nat] BY <2>1, LaneEndType, ClaimParts DEF SessionRows
  <2>3. active \in SUBSET Lanes /\ pc \in {"conclude", "wait"} OBVIOUS
  <2> HIDE DEF ends, active, pc
  <2>4. r \in SessionRows /\ r.pc = pc BY <2>1, <2>2, <2>3 DEF SessionRows
  <2> HIDE DEF r
  <2> QED BY <2>3, <2>4 DEF SessionOK
<1>3. ASSUME NEW l \in Lanes PROVE JobOK(l, jobs[l])
  <2> DEFINE fresh == [NoJob EXCEPT !.pc = "decide"]
  <2>1. JobOK(l, fresh)
    <3>1. fresh \in Jobs BY NoJobType DEF Jobs
    <3>2. fresh.pc = "decide" BY DEF NoJob
    <3> HIDE DEF fresh
    <3> QED BY <3>1, <3>2 DEF JobOK, Working
  <2>2. JobOK(l, lane[c][l]) BY DEF LocalInv
  <2>3. jobs[l] \in {fresh, lane[c][l]} OBVIOUS
  <2> HIDE DEF fresh, jobs
  <2> QED BY <2>1, <2>2, <2>3
<1>4. jobs \in [Lanes -> Jobs]
  <2>1. \A l \in Lanes : jobs[l] \in Jobs BY <1>3 DEF JobOK
  <2>2. jobs = [l \in Lanes |-> jobs[l]] OBVIOUS
  <2> HIDE DEF jobs
  <2> QED BY <2>1, <2>2
<1> HIDE DEF r, jobs
<1>5. /\ lane' \in [Claims -> [Lanes -> Jobs]]
      /\ \A d \in Claims, l \in Lanes : JobOK(l, lane'[d][l])
  BY <1>1, <1>3, <1>4, TablesTyped DEF LocalInv
<1>6. /\ session' \in [Claims -> SessionRows]
      /\ \A d \in Claims : SessionOK(session'[d])
  BY <1>1, <1>2, TablesTyped DEF LocalInv, SessionOK
<1> QED BY <1>1, <1>5, <1>6, LocalStep, TablesTyped

\* A step of this action keeps the first layer.
LEMMA LocalHeartbeat ==
  ASSUME LocalInv, NEW c \in Claims, Heartbeat(c) PROVE LocalInv'
<1>1. /\ UNCHANGED <<now, up, runs, receipt, release, ready, written, session, lane>>
      /\ window' = Renewed(c)
  BY DEF Heartbeat
<1> QED BY <1>1, RenewedType, DataStep, TablesTyped

\* A step of this action keeps the first layer.
LEMMA LocalCancel ==
  ASSUME LocalInv, NEW c \in Claims, CancelOverrun(c) PROVE LocalInv'
<1> DEFINE r == [session[c] EXCEPT !.pc = "timeout", !.todo = Overrun(c),
                                   !.cancelled = @ \cup Overrun(c)]
<1>1. /\ UNCHANGED <<now, up, window, runs, receipt, release, ready, written, lane>>
      /\ session' = [session EXCEPT ![c] = r]
  BY DEF CancelOverrun, db
<1>2. session[c] \in SessionRows BY TablesTyped
<1>3. Overrun(c) \in SUBSET Lanes BY <1>2 DEF Overrun, Alive, SessionRows
<1>4. SessionOK(r)
  <2>1. r \in SessionRows BY <1>2, <1>3 DEF SessionRows
  <2>2. r.pc = "timeout" /\ r.todo = Overrun(c) BY <1>2 DEF SessionRows
  <2> HIDE DEF r
  <2> QED BY <1>3, <2>1, <2>2 DEF SessionOK
<1> HIDE DEF r
<1> QED BY <1>1, <1>4, SessionStep, TablesTyped

\* A step of this action keeps the first layer.
LEMMA LocalTimeOut ==
  ASSUME LocalInv, NEW c \in Claims, TimeOutLanes(c) PROVE LocalInv'
<1> DEFINE stages == {s \in WindowStages : LaneOf[s] \in session[c].todo}
           failed == {s \in stages : \E a \in 1..Attempts(c[1], s) : Running(c[1], s, a)}
<1>1. UNCHANGED <<now, up, window, receipt, release, written, lane>> BY DEF TimeOutLanes
<1>2. CASE End(c) /\ UNCHANGED <<runs, ready>>
  <2>1. PICK r : SessionOK(r) /\ session' = [session EXCEPT ![c] = r] BY <1>2, EndOK
  <2> QED BY <1>1, <1>2, <2>1, SessionStep, TablesTyped
<1>3. CASE /\ runs' = FailRunning(c[1], stages, FALSE)
           /\ ready' = [s \in Stages |-> IF s \in failed THEN "BLOCKED" ELSE ready[s]]
           /\ session' = [session EXCEPT ![c].pc = "wait", ![c].todo = {},
                                         ![c].abandoned = @ \cup session[c].todo]
           /\ session[c].pc = "timeout"
  <2> DEFINE r == [session[c] EXCEPT !.pc = "wait", !.todo = {},
                                     !.abandoned = @ \cup session[c].todo]
  <2>1. SessionOK(r)
    <3>1. session[c] \in SessionRows BY TablesTyped
    <3>2. SessionOK(session[c]) BY DEF LocalInv
    <3>3. session[c].todo \subseteq Lanes BY <1>3, <3>2 DEF SessionOK
    <3>4. r \in SessionRows BY <3>1, <3>3 DEF SessionRows
    <3>5. r.pc = "wait" BY <3>1 DEF SessionRows
    <3> HIDE DEF r
    <3> QED BY <3>4, <3>5 DEF SessionOK
  <2>2. session' = [session EXCEPT ![c] = r] BY <1>3, TablesTyped
  <2>3. runs' \in [Windows -> [Stages -> Seq(RunRows)]]
    <3> HIDE DEF stages
    <3> QED BY <1>3, FailRunningType, ClaimParts, FALSE \in BOOLEAN
  <2>4. ready' \in [Stages -> ReadinessStates]
    <3> HIDE DEF failed
    <3> QED BY <1>3, TablesTyped DEF ReadinessStates
  <2> HIDE DEF r
  <2> QED BY <1>1, <2>1, <2>2, <2>3, <2>4, SessionStep, TablesTyped
<1> QED BY <1>2, <1>3 DEF TimeOutLanes, LeaseLost

\* A step of this action keeps the first layer.
LEMMA LocalEndRound ==
  ASSUME LocalInv, NEW c \in Claims, EndRound(c) PROVE LocalInv'
<1>1. UNCHANGED <<now, up, window, runs, receipt, release, ready, written, lane>>
  BY DEF EndRound, db
<1>2. CASE End(c)
  <2>1. PICK r : SessionOK(r) /\ session' = [session EXCEPT ![c] = r] BY <1>2, EndOK
  <2> QED BY <1>1, <2>1, SessionStep, TablesTyped
<1>3. CASE \E pc \in {"round", "conclude"} : session' = [session EXCEPT ![c].pc = pc]
  <2>1. PICK pc \in {"round", "conclude"} : session' = [session EXCEPT ![c].pc = pc] BY <1>3
  <2> DEFINE r == [session[c] EXCEPT !.pc = pc]
  <2>2. SessionOK(r) BY MovedOK
  <2>3. session' = [session EXCEPT ![c] = r] BY <2>1
  <2> HIDE DEF r
  <2> QED BY <1>1, <2>2, <2>3, SessionStep, TablesTyped
<1> QED BY <1>2, <1>3 DEF EndRound

\* A concluded window's aggregate is an owned state.
LEMMA FinalStateType == ASSUME NEW w \in Windows PROVE FinalState(w) \in OwnedWindowStates
  BY DEF FinalState, OwnedWindowStates

\* A step of this action keeps the first layer.
LEMMA LocalConclude ==
  ASSUME LocalInv, NEW c \in Claims, Conclude(c) PROVE LocalInv'
<1> DEFINE pending == Pending(c[1])
           pc == IF pending = {} THEN "finish"
                 ELSE IF now >= Deadline[c[1]] THEN "miss" ELSE "release"
           final == IF pending = {} THEN FinalState(c[1]) ELSE Absent
           r == [session[c] EXCEPT !.todo = pending, !.pc = pc, !.final = final]
<1>1. /\ UNCHANGED <<now, up, window, runs, receipt, release, ready, written, lane>>
      /\ session' = [session EXCEPT ![c] = r]
  BY TablesTyped DEF Conclude, db
<1>2. session[c] \in SessionRows BY TablesTyped
<1>3. pending \in SUBSET WindowStages BY DEF Pending
<1>4. /\ final \in OwnedWindowStates \cup {Absent} /\ pc \in {"finish", "miss", "release"}
      /\ pc = "finish" => final \in OwnedWindowStates
  BY FinalStateType, ClaimParts
<1>5. SessionOK(r)
  <2> HIDE DEF pending, pc, final
  <2>1. r \in SessionRows BY <1>2, <1>3, <1>4 DEF SessionRows
  <2>2. r.pc = pc /\ r.todo = pending /\ r.final = final BY <1>2 DEF SessionRows
  <2> HIDE DEF r
  <2> QED BY <1>3, <1>4, <2>1, <2>2 DEF SessionOK
<1> HIDE DEF r
<1> QED BY <1>1, <1>5, SessionStep, TablesTyped

\* A step of this action keeps the first layer.
LEMMA LocalMissed ==
  ASSUME LocalInv, NEW c \in Claims, RecordMissed(c) PROVE LocalInv'
<1>1. UNCHANGED <<now, up, window, receipt, release, written, lane>> BY DEF RecordMissed
<1>2. CASE End(c) /\ UNCHANGED <<runs, ready>>
  <2>1. PICK r : SessionOK(r) /\ session' = [session EXCEPT ![c] = r] BY <1>2, EndOK
  <2> QED BY <1>1, <1>2, <2>1, SessionStep, TablesTyped
<1>3. CASE \E s \in session[c].todo :
             /\ runs' = Insert(c[1], s, NewRow("MISSED"))
             /\ ready' = [ready EXCEPT ![s] = "BLOCKED"]
             /\ session' = [session EXCEPT ![c].todo = @ \ {s}]
             /\ session[c].pc = "miss"
  <2>1. PICK s \in session[c].todo :
             /\ runs' = Insert(c[1], s, NewRow("MISSED"))
             /\ ready' = [ready EXCEPT ![s] = "BLOCKED"]
             /\ session' = [session EXCEPT ![c].todo = @ \ {s}]
             /\ session[c].pc = "miss"
    BY <1>3
  <2> DEFINE r == [session[c] EXCEPT !.todo = @ \ {s}]
  <2>2. session[c] \in SessionRows BY TablesTyped
  <2>3. session[c].todo \subseteq WindowStages BY <2>1 DEF LocalInv, SessionOK
  <2>4. SessionOK(r)
    <3>1. r \in SessionRows BY <2>2 DEF SessionRows
    <3>2. r.pc = "miss" /\ r.todo \subseteq WindowStages BY <2>1, <2>2, <2>3 DEF SessionRows
    <3> HIDE DEF r
    <3> QED BY <3>1, <3>2 DEF SessionOK
  <2>5. session' = [session EXCEPT ![c] = r] BY <2>1
  <2>6. NewRow("MISSED") \in RunRows BY Rows
  <2>7. runs' \in [Windows -> [Stages -> Seq(RunRows)]]
    BY <2>1, <2>3, <2>6, InsertType, ClaimParts, Parameters
  <2>8. ready' \in [Stages -> ReadinessStates] BY <2>1, TablesTyped DEF ReadinessStates
  <2> HIDE DEF r
  <2> QED BY <1>1, <2>4, <2>5, <2>7, <2>8, SessionStep, TablesTyped
<1> QED BY <1>2, <1>3 DEF RecordMissed, LeaseLost

\* A step of this action keeps the first layer.
LEMMA LocalReread ==
  ASSUME LocalInv, NEW c \in Claims, Reread(c) PROVE LocalInv'
<1> DEFINE final == FinalState(c[1])
           r == [session[c] EXCEPT !.pc = "finish", !.final = final]
<1>1. /\ UNCHANGED <<now, up, window, runs, receipt, release, ready, written, lane>>
      /\ session' = [session EXCEPT ![c] = r]
  BY TablesTyped DEF Reread, db
<1>2. session[c] \in SessionRows BY TablesTyped
<1>3. final \in OwnedWindowStates BY FinalStateType, ClaimParts
<1>4. SessionOK(r)
  <2> HIDE DEF final
  <2>1. r \in SessionRows BY <1>2, <1>3 DEF SessionRows
  <2>2. r.pc = "finish" /\ r.final = final BY <1>2 DEF SessionRows
  <2> HIDE DEF r
  <2> QED BY <1>3, <2>1, <2>2 DEF SessionOK
<1> HIDE DEF r
<1> QED BY <1>1, <1>4, SessionStep, TablesTyped

\* A step of this action keeps the first layer.
LEMMA LocalClose ==
  ASSUME LocalInv, NEW c \in Claims, CloseWindow(c) PROVE LocalInv'
<1>1. /\ UNCHANGED <<now, up, runs, receipt, release, ready, written, lane>>
      /\ End(c)
  BY DEF CloseWindow
<1>2. PICK r : SessionOK(r) /\ session' = [session EXCEPT ![c] = r] BY <1>1, EndOK
<1>3. CASE UNCHANGED window BY <1>1, <1>2, <1>3, SessionStep, TablesTyped
<1>4. CASE ~UNCHANGED window
  <2> DEFINE state == IF session[c].pc = "finish" THEN session[c].final ELSE "PENDING"
             row == [window[c[1]] EXCEPT !.state = state, !.lease = 0]
  <2>1. /\ session[c].pc \in {"finish", "release"}
        /\ window' = [window EXCEPT ![c[1]].state = state, ![c[1]].lease = 0]
    BY <1>4 DEF CloseWindow
  <2>2. state \in TerminalWindowStates \cup {"PENDING", "RUNNING"}
    BY <2>1 DEF LocalInv, SessionOK, TerminalWindowStates
  <2>3. window \in [Windows -> WindowRows] /\ c[1] \in Windows BY TablesTyped, ClaimParts
  <2>4. row \in WindowRows
    <3> HIDE DEF state
    <3> QED BY <2>2, <2>3 DEF WindowRows
  <2>5. window' = [window EXCEPT ![c[1]] = row] BY <2>1, <2>3
  <2>6. window' \in [Windows -> WindowRows]
    <3> HIDE DEF row
    <3> QED BY <2>3, <2>4, <2>5
  <2> QED BY <1>1, <1>2, <2>6, SessionStep, TablesTyped
<1> QED BY <1>3, <1>4

\* A step of this action keeps the first layer.
LEMMA LocalCoordinatorFault ==
  ASSUME LocalInv, NEW c \in Claims, CoordinatorFault(c) PROVE LocalInv'
<1>1. /\ UNCHANGED <<now, up, window, runs, receipt, release, ready, written, lane>>
      /\ End(c)
  BY DEF CoordinatorFault, db
<1>2. PICK r : SessionOK(r) /\ session' = [session EXCEPT ![c] = r] BY <1>1, EndOK
<1> QED BY <1>1, <1>2, SessionStep, TablesTyped

-----------------------------------------------------------------------------
(* The first layer is kept by the rest of the system.                        *)

\* A step of this action keeps the first layer.
LEMMA LocalTick == ASSUME LocalInv, Tick PROVE LocalInv'
<1>1. /\ UNCHANGED <<up, window, runs, receipt, release, ready, written, session, lane>>
      /\ now' = now + 1
  BY DEF Tick, db
<1>2. now' \in Nat BY <1>1, TablesTyped
<1> QED BY <1>1, <1>2, DataStep, TablesTyped

\* A step of this action keeps the first layer.
LEMMA LocalResident ==
  ASSUME LocalInv, NEW s \in Stages, NEW status \in {"READY", "BLOCKED"}, ResidentTick(s, status)
  PROVE  LocalInv'
<1>1. /\ UNCHANGED <<now, up, window, runs, receipt, release, written, session, lane>>
      /\ ready' = [ready EXCEPT ![s] = status]
  BY DEF ResidentTick
<1>2. ready' \in [Stages -> ReadinessStates] BY <1>1, TablesTyped DEF ReadinessStates
<1> QED BY <1>1, <1>2, DataStep, TablesTyped

\* A step of this action keeps the first layer.
LEMMA LocalUnavailable ==
  ASSUME LocalInv, NEW w \in Windows, MarkUnavailable(w) PROVE LocalInv'
<1> DEFINE row == [window[w] EXCEPT !.state = "UNAVAILABLE", !.owner = None, !.lease = 0]
           rows == [s \in Stages |-> IF s \in Enabled THEN <<NewRow("UNAVAILABLE")>> ELSE <<>>]
<1>1. UNCHANGED <<now, up, receipt, release, ready, written, session, lane>>
  BY DEF MarkUnavailable
<1>2. window' = [window EXCEPT ![w] = row] BY TablesTyped DEF MarkUnavailable
<1>3. runs' = [runs EXCEPT ![w] = rows] BY DEF MarkUnavailable
<1>4. row \in WindowRows
  <2>1. window[w] \in WindowRows BY TablesTyped
  <2> QED BY <2>1 DEF WindowRows, TerminalWindowStates
<1>5. window' \in [Windows -> WindowRows]
  <2> HIDE DEF row
  <2> QED BY <1>2, <1>4, TablesTyped
<1>6. rows \in [Stages -> Seq(RunRows)]
  <2>1. NewRow("UNAVAILABLE") \in RunRows BY Rows
  <2> QED BY <2>1
<1>7. runs' \in [Windows -> [Stages -> Seq(RunRows)]]
  <2> HIDE DEF rows
  <2> QED BY <1>3, <1>6, TablesTyped
<1> QED BY <1>1, <1>5, <1>7, DataStep, TablesTyped

\* A step of this action keeps the first layer.
LEMMA LocalCrash ==
  ASSUME LocalInv, NEW o \in Owners, Crash(o) PROVE LocalInv'
<1> DEFINE dead == {c \in Claims : session[c].owner = o}
           gone == [NoSession EXCEPT !.pc = "ended", !.owner = o]
           off == [l \in Lanes |-> NoJob]
<1>1. /\ UNCHANGED <<now, window, runs, receipt, release, ready, written>>
      /\ up' = up \ {o}
      /\ session' = [c \in Claims |-> IF c \in dead THEN gone ELSE session[c]]
      /\ lane' = [c \in Claims |-> IF c \in dead THEN off ELSE lane[c]]
  BY DEF Crash, db
<1>2. SessionOK(gone) BY NoSessionOK
<1>3. ASSUME NEW l \in Lanes PROVE JobOK(l, NoJob)
  <2>1. NoJob.pc = "off" BY DEF NoJob
  <2> QED BY <2>1, NoJobType DEF JobOK, Working
<1>4. off \in [Lanes -> Jobs] BY NoJobType
<1>5. \A c \in Claims : lane'[c] \in {off, lane[c]} BY <1>1
<1>6. /\ lane' \in [Claims -> [Lanes -> Jobs]]
      /\ \A c \in Claims, l \in Lanes : JobOK(l, lane'[c][l])
  <2>1. \A c \in Claims : lane[c] \in [Lanes -> Jobs] BY TablesTyped
  <2>2. \A l \in Lanes : off[l] = NoJob OBVIOUS
  <2>3. \A c \in Claims, l \in Lanes : JobOK(l, lane'[c][l]) BY <1>3, <1>5, <2>2 DEF LocalInv
  <2> HIDE DEF off
  <2>4. lane' \in [Claims -> [Lanes -> Jobs]] BY <1>1, <1>4, <2>1
  <2> QED BY <2>3, <2>4
<1> HIDE DEF gone
<1>7. /\ session' \in [Claims -> SessionRows]
      /\ \A c \in Claims : SessionOK(session'[c])
  BY <1>1, <1>2, TablesTyped DEF LocalInv, SessionOK
<1> QED BY <1>1, <1>6, <1>7, LocalStep, TablesTyped

\* The first layer holds initially ...
LEMMA LocalInit == Init => LocalInv
<1> SUFFICES ASSUME Init PROVE LocalInv OBVIOUS
<1>1. TypeOK
  <2>1. now \in Nat /\ up \subseteq Owners BY DEF Init
  <2>2. window \in [Windows -> WindowRows] BY Parameters DEF Init, WindowRows
  <2>3. runs \in [Windows -> [Stages -> Seq(RunRows)]] BY DEF Init
  <2>4. /\ receipt \in [Windows -> [ReceiptStages -> Contents \cup {None}]]
        /\ release \in [cutoff : Windows \cup {0}, stage : ReleaseStages \cup {None}]
        /\ ready \in [Stages -> ReadinessStates]
        /\ written \in [Windows -> [Stages -> Nat]]
    BY DEF Init, ReadinessStates
  <2>5. NoSession \in SessionRows BY DEF NoSession, SessionRows
  <2>6. session \in [Claims -> SessionRows] BY <2>5 DEF Init
  <2>7. lane \in [Claims -> [Lanes -> Jobs]] BY NoJobType DEF Init
  <2> QED BY <2>1, <2>2, <2>3, <2>4, <2>6, <2>7 DEF TypeOK
<1>2. ASSUME NEW c \in Claims, NEW l \in Lanes PROVE JobOK(l, lane[c][l])
  <2>1. NoJob.pc = "off" BY DEF NoJob
  <2>2. lane[c][l] = NoJob BY DEF Init
  <2> QED BY <2>1, <2>2, NoJobType DEF JobOK, Working
<1>3. ASSUME NEW c \in Claims PROVE SessionOK(session[c])
  <2>1. NoSession.pc = "none" BY DEF NoSession
  <2>2. session[c] = NoSession BY DEF Init
  <2>3. session[c] \in SessionRows BY <1>1 DEF TypeOK
  <2> QED BY <2>1, <2>2, <2>3 DEF SessionOK
<1> QED BY <1>1, <1>2, <1>3 DEF LocalInv

\* ... is kept by every step ...
LEMMA LocalNext == LocalInv /\ [Next]_vars => LocalInv'
<1> SUFFICES ASSUME LocalInv, [Next]_vars PROVE LocalInv' OBVIOUS
<1>1. CASE UNCHANGED vars
  <2>1. UNCHANGED <<now, up, window, runs, receipt, release, ready, written, session, lane>>
    BY <1>1 DEF vars, db
  <2> QED BY <2>1, DataStep, TablesTyped
<1>2. ASSUME NEW o \in Owners, NEW w \in Windows, Claim(o, w) PROVE LocalInv'
  BY <1>2, LocalClaim
<1>3. ASSUME NEW c \in Claims, Coordinate(c) \/ Heartbeat(c) \/ CoordinatorFault(c) PROVE LocalInv'
  BY <1>3, LocalRecover, LocalBegin, LocalHeartbeat, LocalCancel, LocalTimeOut, LocalEndRound,
     LocalConclude, LocalMissed, LocalReread, LocalClose, LocalCoordinatorFault DEF Coordinate
<1>4. ASSUME NEW c \in Claims, NEW l \in Lanes, Advance(c, l) \/ Run(c, l) \/ LaneFault(c, l)
      PROVE  LocalInv'
  BY <1>4, LocalIdle, LocalDecide, LocalBlock, LocalStart, LocalOpen, LocalCommit, LocalReturns,
     LocalReceipt, LocalFinish, LocalAdvance, LocalReadiness, LocalFault DEF Advance, Run
<1>5. ASSUME NEW s \in Stages, NEW status \in {"READY", "BLOCKED"}, ResidentTick(s, status)
      PROVE  LocalInv'
  BY <1>5, LocalResident
<1>6. ASSUME NEW w \in Windows, MarkUnavailable(w) PROVE LocalInv' BY <1>6, LocalUnavailable
<1>7. ASSUME NEW o \in Owners, Crash(o) PROVE LocalInv' BY <1>7, LocalCrash
<1>8. CASE Tick BY <1>8, LocalTick
<1> QED BY <1>1, <1>2, <1>3, <1>4, <1>5, <1>6, <1>7, <1>8 DEF Next

\* ... and therefore always holds.
LEMMA LocalAlways == Spec => []LocalInv
<1> QED BY LocalInit, LocalNext, PTL DEF Spec

\* The tables and thread locals always hold values of their types: the rows the
\* repository writes satisfy their column checks, and a thread that is about to
\* act has a stage of its own lane.
THEOREM TypeCorrect == Spec => []TypeOK
<1>1. LocalInv => TypeOK BY DEF LocalInv
<1> QED BY <1>1, LocalAlways, PTL

-----------------------------------------------------------------------------
(* What a step leaves alone.                                                 *)

SameHolder(w) ==
  /\ window'[w].epoch = window[w].epoch
  /\ window'[w].state = "RUNNING" =>
       window[w].state = "RUNNING" /\ window'[w].owner = window[w].owner

\* A step of a thread touches no other thread, and only _advance_lane's choice
\* of a stage leads to an insertion.
ThreadFrame(c, l) ==
  /\ lane[c][l].pc # "off"
  /\ session' = session
  /\ \A d \in Claims, m \in Lanes : d # c \/ m # l => lane'[d][m] = lane[d][m]
  /\ lane'[c][l].pc \in {"block", "start"} => LaneDecide(c, l)
  /\ \A w \in Windows : SameHolder(w)

\* A thread step that leads to no insertion.
LEMMA ThreadShape ==
  ASSUME LocalInv, NEW c \in Claims, NEW l \in Lanes, NEW j, lane' = [lane EXCEPT ![c][l] = j],
         j.pc \notin {"block", "start"}, lane[c][l].pc # "off", session' = session,
         \/ window' = window
         \/ window' = Renewed(c)
  PROVE  ThreadFrame(c, l)
<1>1. lane \in [Claims -> [Lanes -> Jobs]] BY TablesTyped
<1>2. /\ \A d \in Claims, m \in Lanes : d # c \/ m # l => lane'[d][m] = lane[d][m]
      /\ lane'[c][l] = j
  BY <1>1
<1>3. \A w \in Windows : SameHolder(w) BY RenewedType DEF SameHolder
<1> QED BY <1>2, <1>3 DEF ThreadFrame

\* Every thread step has this frame.
LEMMA ThreadFrames ==
  ASSUME LocalInv, NEW c \in Claims, NEW l \in Lanes, Advance(c, l) \/ Run(c, l) \/ LaneFault(c, l)
  PROVE  ThreadFrame(c, l)
<1> DEFINE J == lane[c][l]
<1>0. J \in Jobs BY TablesTyped
<1>1. CASE LaneIdle(c, l)
  <2>1. J.progressed \in BOOLEAN BY <1>0 DEF Jobs
  <2>2. PICK j : j.pc = "done" /\ lane' = [lane EXCEPT ![c][l] = j]
    BY <1>1, <2>1, LeaveOK DEF LaneIdle
  <2> QED BY <1>1, <2>2, ThreadShape DEF LaneIdle, db
<1>2. CASE LaneDecide(c, l)
  <2>1. PICK j : lane' = [lane EXCEPT ![c][l] = j] BY <1>2 DEF LaneDecide
  <2>2. \A d \in Claims, m \in Lanes : d # c \/ m # l => lane'[d][m] = lane[d][m]
    BY <2>1, TablesTyped
  <2> QED BY <1>2, <2>2 DEF ThreadFrame, LaneDecide, SameHolder, db
<1>3. CASE LaneBlock(c, l)
  <2>1. J.pc = "block" /\ UNCHANGED <<window, session>> BY <1>3 DEF LaneBlock
  <2>2. CASE Lost(c, l)
    <3>1. PICK j : j.pc = "lost" /\ lane' = [lane EXCEPT ![c][l] = j] BY <2>2, LostOK
    <3> QED BY <2>1, <3>1, ThreadShape
  <2>3. CASE ~Lost(c, l)
    <3> DEFINE j == [J EXCEPT !.pc = "ready", !.outcome = "BLOCKED_PREREQ"]
    <3>1. lane' = [lane EXCEPT ![c][l] = j] BY <1>3, <2>3, TablesTyped DEF LaneBlock
    <3>2. j.pc = "ready" BY <1>0 DEF Jobs
    <3> HIDE DEF j
    <3> QED BY <2>1, <3>1, <3>2, ThreadShape
  <2> QED BY <2>2, <2>3
<1>4. CASE LaneStart(c, l)
  <2>1. /\ J.pc = "start" /\ UNCHANGED session
        /\ window' = window \/ window' = Renewed(c)
        /\ Lost(c, l) \/ Leave(c, l, "done", FALSE) \/ Goto(c, l, "run")
    BY <1>4 DEF LaneStart
  <2>2. J.pc \in Working BY <2>1 DEF Working
  <2>3. CASE Lost(c, l)
    <3>1. PICK j : j.pc = "lost" /\ lane' = [lane EXCEPT ![c][l] = j] BY <2>3, LostOK
    <3> QED BY <2>1, <3>1, ThreadShape
  <2>4. CASE Leave(c, l, "done", FALSE)
    <3>1. PICK j : j.pc = "done" /\ lane' = [lane EXCEPT ![c][l] = j] BY <2>4, DoneOK
    <3> QED BY <2>1, <3>1, ThreadShape
  <2>5. CASE Goto(c, l, "run")
    <3>1. PICK j : j.pc = "run" /\ lane' = [lane EXCEPT ![c][l] = j] BY <2>2, <2>5, GotoOK
    <3> QED BY <2>1, <3>1, ThreadShape
  <2> QED BY <2>1, <2>3, <2>4, <2>5
<1>5. CASE LaneReceipt(c, l) \/ CommitTransaction(c, l)
  <2>1. /\ J.pc \in {"receipt", "tx"} /\ UNCHANGED <<window, session>>
        /\ \/ GiveUp(c, l)
           \/ Goto(c, l, "run")
           \/ lane' = [lane EXCEPT ![c][l].pc = "finish", ![c][l].held = TRUE]
           \/ lane' = [lane EXCEPT ![c][l].pc = "finish", ![c][l].outcome = "FAILED"]
    BY <1>5 DEF LaneReceipt, CommitTransaction
  <2>2. CASE GiveUp(c, l) \/ Goto(c, l, "run")
    <3>1. J.pc \in Working BY <2>1 DEF Working
    <3>2. PICK j : j.pc \in {"lost", "run"} /\ lane' = [lane EXCEPT ![c][l] = j]
      BY <2>2, <3>1, LostOK, GotoOK
    <3> QED BY <2>1, <3>2, ThreadShape
  <2>3. CASE lane' = [lane EXCEPT ![c][l].pc = "finish", ![c][l].held = TRUE]
    <3> DEFINE j == [J EXCEPT !.pc = "finish", !.held = TRUE]
    <3>1. lane' = [lane EXCEPT ![c][l] = j] BY <2>3, TablesTyped
    <3>2. j.pc = "finish" BY <1>0 DEF Jobs
    <3> HIDE DEF j
    <3> QED BY <2>1, <3>1, <3>2, ThreadShape
  <2>4. CASE lane' = [lane EXCEPT ![c][l].pc = "finish", ![c][l].outcome = "FAILED"]
    <3> DEFINE j == [J EXCEPT !.pc = "finish", !.outcome = "FAILED"]
    <3>1. lane' = [lane EXCEPT ![c][l] = j] BY <2>4, TablesTyped
    <3>2. j.pc = "finish" BY <1>0 DEF Jobs
    <3> HIDE DEF j
    <3> QED BY <2>1, <3>1, <3>2, ThreadShape
  <2> QED BY <2>1, <2>2, <2>3, <2>4
<1>6. CASE LaneFinish(c, l) \/ LaneAdvance(c, l) \/ OpenTransaction(c, l)
  <2>1. /\ J.pc \in {"finish", "advance", "run"} /\ UNCHANGED <<window, session>>
        /\ \/ GiveUp(c, l)
           \/ \E pc \in {"advance", "ready", "tx"} : Goto(c, l, pc)
    BY <1>6 DEF LaneFinish, LaneAdvance, OpenTransaction, Lost, db
  <2>2. CASE GiveUp(c, l)
    <3>1. PICK j : j.pc = "lost" /\ lane' = [lane EXCEPT ![c][l] = j] BY <2>2, LostOK
    <3> QED BY <2>1, <3>1, ThreadShape
  <2>3. ASSUME NEW pc \in {"advance", "ready", "tx"}, Goto(c, l, pc) PROVE ThreadFrame(c, l)
    <3> DEFINE j == [J EXCEPT !.pc = pc]
    <3>1. lane' = [lane EXCEPT ![c][l] = j] BY <2>3 DEF Goto
    <3>2. j.pc = pc BY <1>0 DEF Jobs
    <3> HIDE DEF j
    <3> QED BY <2>1, <3>1, <3>2, ThreadShape
  <2> QED BY <2>1, <2>2, <2>3
<1>7. CASE LaneReadiness(c, l) \/ LaneFault(c, l)
  <2>1. /\ J.pc # "off" /\ UNCHANGED <<window, session>>
        /\ Leave(c, l, "decide", TRUE) \/ Leave(c, l, "done", FALSE)
    BY <1>7 DEF LaneReadiness, LaneFault, db
  <2>2. CASE Leave(c, l, "decide", TRUE)
    <3>1. PICK j : j.pc = "decide" /\ lane' = [lane EXCEPT ![c][l] = j] BY <2>2, DecideOK
    <3> QED BY <2>1, <3>1, ThreadShape
  <2>3. CASE Leave(c, l, "done", FALSE)
    <3>1. PICK j : j.pc = "done" /\ lane' = [lane EXCEPT ![c][l] = j] BY <2>3, DoneOK
    <3> QED BY <2>1, <3>1, ThreadShape
  <2> QED BY <2>1, <2>2, <2>3
<1>8. ASSUME NEW outcome \in Outcomes, NEW content \in Contents \cup {None},
             RunnerReturns(c, l, outcome, content)
      PROVE  ThreadFrame(c, l)
  <2> DEFINE pc == IF content # None THEN "receipt" ELSE "finish"
             o == IF outcome = "DEFERRED" /\ J.attempt >= MaxAttempts THEN "FAILED" ELSE outcome
             j == [J EXCEPT !.pc = pc, !.outcome = o, !.content = content]
  <2>1. /\ J.pc = "run" /\ UNCHANGED <<window, session>>
        /\ lane' = [lane EXCEPT ![c][l] = j]
    BY <1>8 DEF RunnerReturns, db
  <2>2. j.pc = pc /\ pc \notin {"block", "start"}
    <3>1. pc \notin {"block", "start"} OBVIOUS
    <3> HIDE DEF pc, o
    <3> QED BY <1>0, <3>1 DEF Jobs
  <2> HIDE DEF j
  <2> QED BY <2>1, <2>2, ThreadShape
<1> QED BY <1>1, <1>2, <1>3, <1>4, <1>5, <1>6, <1>7, <1>8 DEF Advance, Run

\* A step of a coordinator touches no other claim, and starts threads afresh.
CoordinatorFrame(c) ==
  /\ session[c].pc # "none"
  /\ \A d \in Claims : d # c => session'[d] = session[d]
  /\ session'[c].owner = session[c].owner
  /\ \A d \in Claims, m \in Lanes : lane'[d][m] # lane[d][m] => d = c /\ lane'[d][m].pc = "decide"
  /\ \A w \in Windows : SameHolder(w)

\* A coordinator step that changes its own session only.
LEMMA CoordinatorShape ==
  ASSUME LocalInv, NEW c \in Claims, NEW r, session' = [session EXCEPT ![c] = r],
         session[c].pc # "none", r.owner = session[c].owner, lane' = lane,
         \A w \in Windows : SameHolder(w)
  PROVE  CoordinatorFrame(c)
<1>1. session \in [Claims -> SessionRows] BY TablesTyped
<1> QED BY <1>1 DEF CoordinatorFrame

\* A step that leaves the windows alone.
LEMMA SameWindow == UNCHANGED window => \A w \in Windows : SameHolder(w)
  BY DEF SameHolder

\* A coordinator step that ends its session.
LEMMA EndShape ==
  ASSUME LocalInv, NEW c \in Claims, End(c), session[c].pc # "none", lane' = lane,
         \A w \in Windows : SameHolder(w)
  PROVE  CoordinatorFrame(c)
<1>1. PICK r : r.owner = session[c].owner /\ session' = [session EXCEPT ![c] = r] BY EndOK
<1> QED BY <1>1, CoordinatorShape

\* Every coordinator step has this frame.
LEMMA CoordinatorFrames ==
  ASSUME LocalInv, NEW c \in Claims, Coordinate(c) \/ Heartbeat(c) \/ CoordinatorFault(c)
  PROVE  CoordinatorFrame(c)
<1> DEFINE R == session[c]
<1>0. R \in SessionRows BY TablesTyped
<1>1. CASE Recover(c)
  <2>1. R.pc = "recover" /\ UNCHANGED <<window, lane>> BY <1>1 DEF Recover
  <2>2. CASE End(c) BY <2>1, <2>2, EndShape, SameWindow
  <2>3. CASE ~End(c)
    <3> DEFINE r == [R EXCEPT !.pc = "round"]
    <3>1. session' = [session EXCEPT ![c] = r] BY <1>1, <2>3 DEF Recover, LeaseLost
    <3>2. r.owner = R.owner BY <1>0 DEF SessionRows
    <3> HIDE DEF r
    <3> QED BY <2>1, <3>1, <3>2, CoordinatorShape, SameWindow
  <2> QED BY <2>2, <2>3
<1>2. CASE BeginRound(c)
  <2> DEFINE active == Lanes \ R.abandoned
             pc == IF active = {} THEN "conclude" ELSE "wait"
             ends == [l \in Lanes |-> IF l \in active THEN LaneEnd(c[1], l) ELSE R.ends[l]]
             r == [R EXCEPT !.pc = pc, !.active = active, !.ends = ends]
             jobs == [l \in Lanes |->
                        IF l \in active THEN [NoJob EXCEPT !.pc = "decide"] ELSE lane[c][l]]
  <2>1. /\ R.pc = "round" /\ UNCHANGED window
        /\ session' = [session EXCEPT ![c] = r]
        /\ lane' = [lane EXCEPT ![c] = jobs]
    BY <1>2 DEF BeginRound, db
  <2>2. \A m \in Lanes : jobs[m] # lane[c][m] => jobs[m].pc = "decide" BY DEF NoJob
  <2>3. r.owner = R.owner
    <3> HIDE DEF active, pc, ends
    <3> QED BY <1>0 DEF SessionRows
  <2> HIDE DEF r, jobs
  <2>4. \A d \in Claims : session'[d] = IF d = c THEN r ELSE session[d] BY <2>1, TablesTyped
  <2>5. \A d \in Claims : lane'[d] = IF d = c THEN jobs ELSE lane[d] BY <2>1, TablesTyped
  <2> QED BY <2>1, <2>2, <2>3, <2>4, <2>5, SameWindow DEF CoordinatorFrame
<1>3. CASE Heartbeat(c)
  <2>1. R.pc = "wait" /\ UNCHANGED <<session, lane>> /\ window' = Renewed(c) BY <1>3 DEF Heartbeat
  <2>2. \A w \in Windows : SameHolder(w) BY <2>1, RenewedType DEF SameHolder
  <2> QED BY <2>1, <2>2 DEF CoordinatorFrame
<1>4. CASE CancelOverrun(c)
  <2> DEFINE r == [R EXCEPT !.pc = "timeout", !.todo = Overrun(c), !.cancelled = @ \cup Overrun(c)]
  <2>1. R.pc = "wait" /\ UNCHANGED <<window, lane>> /\ session' = [session EXCEPT ![c] = r]
    BY <1>4 DEF CancelOverrun, db
  <2>2. r.owner = R.owner BY <1>0 DEF SessionRows
  <2> HIDE DEF r
  <2> QED BY <2>1, <2>2, CoordinatorShape, SameWindow
<1>5. CASE TimeOutLanes(c)
  <2>1. R.pc = "timeout" /\ UNCHANGED <<window, lane>> BY <1>5 DEF TimeOutLanes
  <2>2. CASE End(c) BY <2>1, <2>2, EndShape, SameWindow
  <2>3. CASE ~End(c)
    <3> DEFINE r == [R EXCEPT !.pc = "wait", !.todo = {}, !.abandoned = @ \cup R.todo]
    <3>1. session' = [session EXCEPT ![c] = r]
      BY <1>5, <2>3, TablesTyped DEF TimeOutLanes, LeaseLost
    <3>2. r.owner = R.owner BY <1>0 DEF SessionRows
    <3> HIDE DEF r
    <3> QED BY <2>1, <3>1, <3>2, CoordinatorShape, SameWindow
  <2> QED BY <2>2, <2>3
<1>6. CASE EndRound(c)
  <2>1. R.pc = "wait" /\ UNCHANGED <<window, lane>> BY <1>6 DEF EndRound, db
  <2>2. CASE End(c) BY <2>1, <2>2, EndShape, SameWindow
  <2>3. CASE ~End(c)
    <3>1. PICK pc \in {"round", "conclude"} : session' = [session EXCEPT ![c].pc = pc]
      BY <1>6, <2>3 DEF EndRound
    <3> DEFINE r == [R EXCEPT !.pc = pc]
    <3>2. session' = [session EXCEPT ![c] = r] BY <3>1
    <3>3. r.owner = R.owner BY <1>0 DEF SessionRows
    <3> HIDE DEF r
    <3> QED BY <2>1, <3>2, <3>3, CoordinatorShape, SameWindow
  <2> QED BY <2>2, <2>3
<1>7. CASE Conclude(c)
  <2> DEFINE pending == Pending(c[1])
             pc == IF pending = {} THEN "finish"
                   ELSE IF now >= Deadline[c[1]] THEN "miss" ELSE "release"
             final == IF pending = {} THEN FinalState(c[1]) ELSE Absent
             r == [R EXCEPT !.todo = pending, !.pc = pc, !.final = final]
  <2>1. R.pc = "conclude" /\ UNCHANGED <<window, lane>> /\ session' = [session EXCEPT ![c] = r]
    BY <1>7, TablesTyped DEF Conclude, db
  <2>2. r.owner = R.owner
    <3> HIDE DEF pending, pc, final
    <3> QED BY <1>0 DEF SessionRows
  <2> HIDE DEF r
  <2> QED BY <2>1, <2>2, CoordinatorShape, SameWindow
<1>8. CASE RecordMissed(c)
  <2>1. R.pc = "miss" /\ UNCHANGED <<window, lane>> BY <1>8 DEF RecordMissed
  <2>2. CASE End(c) BY <2>1, <2>2, EndShape, SameWindow
  <2>3. CASE ~End(c)
    <3>1. PICK s : session' = [session EXCEPT ![c].todo = @ \ {s}]
      BY <1>8, <2>3 DEF RecordMissed, LeaseLost
    <3> DEFINE r == [R EXCEPT !.todo = @ \ {s}]
    <3>2. session' = [session EXCEPT ![c] = r] BY <3>1
    <3>3. r.owner = R.owner BY <1>0 DEF SessionRows
    <3> HIDE DEF r
    <3> QED BY <2>1, <3>2, <3>3, CoordinatorShape, SameWindow
  <2> QED BY <2>2, <2>3
<1>9. CASE Reread(c)
  <2> DEFINE final == FinalState(c[1])
             r == [R EXCEPT !.pc = "finish", !.final = final]
  <2>1. R.pc = "miss" /\ UNCHANGED <<window, lane>> /\ session' = [session EXCEPT ![c] = r]
    BY <1>9, TablesTyped DEF Reread, db
  <2>2. r.owner = R.owner
    <3> HIDE DEF final
    <3> QED BY <1>0 DEF SessionRows
  <2> HIDE DEF r
  <2> QED BY <2>1, <2>2, CoordinatorShape, SameWindow
<1>10. CASE CloseWindow(c)
  <2>1. R.pc \in {"finish", "release"} /\ UNCHANGED lane /\ End(c) BY <1>10 DEF CloseWindow
  <2>2. \A w \in Windows : SameHolder(w)
    <3>1. CASE UNCHANGED window BY <3>1, SameWindow
    <3>2. CASE ~UNCHANGED window
      <4> DEFINE state == IF R.pc = "finish" THEN R.final ELSE "PENDING"
                 row == [window[c[1]] EXCEPT !.state = state, !.lease = 0]
      <4>1. window \in [Windows -> WindowRows] /\ c[1] \in Windows BY TablesTyped, ClaimParts
      <4>2. window' = [window EXCEPT ![c[1]] = row] BY <1>10, <3>2, <4>1 DEF CloseWindow
      <4>3. state # "RUNNING" BY <2>1 DEF LocalInv, SessionOK, OwnedWindowStates
      <4>4. row.state # "RUNNING" /\ row.epoch = window[c[1]].epoch
        <5> HIDE DEF state
        <5> QED BY <4>1, <4>3 DEF WindowRows
      <4> HIDE DEF row
      <4> QED BY <4>1, <4>2, <4>4 DEF SameHolder
    <3> QED BY <3>1, <3>2
  <2> QED BY <2>1, <2>2, EndShape
<1>11. CASE CoordinatorFault(c)
  <2>1. R.pc # "none" /\ UNCHANGED <<window, lane>> /\ End(c) BY <1>11 DEF CoordinatorFault, db
  <2> QED BY <2>1, EndShape, SameWindow
<1> QED BY <1>1, <1>2, <1>3, <1>4, <1>5, <1>6, <1>7, <1>8, <1>9, <1>10, <1>11 DEF Coordinate

-----------------------------------------------------------------------------
(* The second layer: a claim that was not made yet has neither a session nor *)
(* threads, so the epoch of a new claim is its own.                          *)

Unclaimed(c) ==
  /\ session[c].pc = "none" /\ session[c].owner = None
  /\ \A l \in Lanes : lane[c][l].pc = "off"

OrderInv == \A c \in Claims : c[2] > window[c[1]].epoch => Unclaimed(c)

\* The second layer holds initially.
LEMMA OrderInit == Init => OrderInv
  BY DEF Init, OrderInv, Unclaimed, NoSession, NoJob

\* An epoch is a number.
LEMMA EpochType == ASSUME LocalInv, NEW w \in Windows PROVE window[w].epoch \in Nat
<1>1. window[w] \in WindowRows BY TablesTyped
<1> QED BY <1>1, Parameters DEF WindowRows

\* The second layer after a step that lowers no epoch.
LEMMA OrderStep ==
  ASSUME LocalInv, LocalInv', OrderInv,
         \A w \in Windows : window'[w].epoch >= window[w].epoch,
         \A c \in Claims : Unclaimed(c) /\ c[2] > window'[c[1]].epoch => Unclaimed(c)'
  PROVE  OrderInv'
<1> SUFFICES ASSUME NEW c \in Claims, c[2] > window'[c[1]].epoch PROVE Unclaimed(c)'
  BY Constants DEF OrderInv
<1>1. c[1] \in Windows /\ c[2] \in Nat BY ClaimParts
<1>2. window[c[1]].epoch \in Nat BY <1>1, EpochType
<1>3. window'[c[1]].epoch \in Nat
  <2>1. window' \in [Windows -> WindowRows] BY Constants DEF LocalInv, TypeOK
  <2>2. window'[c[1]] \in WindowRows BY <1>1, <2>1
  <2> QED BY <2>2, Parameters DEF WindowRows
<1>4. c[2] > window[c[1]].epoch BY <1>1, <1>2, <1>3
<1> QED BY <1>4 DEF OrderInv

\* A step that keeps the holders lowers no epoch.
LEMMA SameEpoch ==
  ASSUME LocalInv, \A w \in Windows : SameHolder(w)
  PROVE  \A w \in Windows : window'[w].epoch >= window[w].epoch
  BY EpochType DEF SameHolder

\* The second layer is kept by thread steps,
LEMMA OrderThread ==
  ASSUME LocalInv, LocalInv', OrderInv, NEW c \in Claims, NEW l \in Lanes, ThreadFrame(c, l)
  PROVE  OrderInv'
<1>1. \A w \in Windows : window'[w].epoch >= window[w].epoch BY SameEpoch DEF ThreadFrame
<1>2. ASSUME NEW d \in Claims, Unclaimed(d) PROVE Unclaimed(d)'
  <2>1. d # c BY <1>2 DEF ThreadFrame, Unclaimed
  <2>2. \A m \in Lanes : lane'[d][m] = lane[d][m] BY <2>1 DEF ThreadFrame
  <2> QED BY <1>2, <2>2, Constants DEF ThreadFrame, Unclaimed
<1> QED BY <1>1, <1>2, OrderStep

\* ... by coordinator steps,
LEMMA OrderCoordinator ==
  ASSUME LocalInv, LocalInv', OrderInv, NEW c \in Claims, CoordinatorFrame(c) PROVE OrderInv'
<1>1. \A w \in Windows : window'[w].epoch >= window[w].epoch BY SameEpoch DEF CoordinatorFrame
<1>2. ASSUME NEW d \in Claims, Unclaimed(d) PROVE Unclaimed(d)'
  <2>1. d # c BY <1>2 DEF CoordinatorFrame, Unclaimed
  <2>2. session'[d] = session[d] /\ \A m \in Lanes : lane'[d][m] = lane[d][m]
    BY <2>1 DEF CoordinatorFrame
  <2> QED BY <1>2, <2>2, Constants DEF Unclaimed
<1> QED BY <1>1, <1>2, OrderStep

\* What a claim changes.
LEMMA ClaimEffect ==
  ASSUME LocalInv, NEW o \in Owners, NEW w \in Windows, Claim(o, w)
  PROVE  /\ <<w, window[w].epoch + 1>> \in Claims
         /\ window'[w].epoch = window[w].epoch + 1
         /\ \A v \in Windows : v # w => window'[v] = window[v]
         /\ \A d \in Claims : d # <<w, window[w].epoch + 1>> => session'[d] = session[d]
         /\ UNCHANGED <<lane, runs>>
<1>1. /\ window \in [Windows -> WindowRows] /\ session \in [Claims -> SessionRows]
  BY TablesTyped
<1> DEFINE c == <<w, window[w].epoch + 1>>
<1>2. window'[w].epoch = c[2] /\ \A v \in Windows : v # w => window'[v] = window[v]
  BY <1>1 DEF Claim
<1>3. c \in Claims /\ UNCHANGED <<lane, runs>> BY DEF Claim
<1>4. \A d \in Claims : d # c => session'[d] = session[d]
  <2>1. session' = [session EXCEPT ![c] = [NoSession EXCEPT !.pc = "recover", !.owner = o]]
    BY DEF Claim
  <2> HIDE DEF c
  <2> QED BY <1>1, <2>1
<1> QED BY <1>2, <1>3, <1>4

\* ... by claims,
LEMMA OrderClaim ==
  ASSUME LocalInv, LocalInv', OrderInv, NEW o \in Owners, NEW w \in Windows, Claim(o, w)
  PROVE  OrderInv'
<1>1. \A v \in Windows : window'[v].epoch >= window[v].epoch
  <2> TAKE v \in Windows
  <2>1. CASE v = w
    <3>1. window'[w].epoch = window[w].epoch + 1 BY ClaimEffect
    <3>2. window[w].epoch \in Nat BY EpochType
    <3> QED BY <2>1, <3>1, <3>2
  <2>2. CASE v # w
    <3>1. window'[v] = window[v] BY <2>2, ClaimEffect
    <3> QED BY <3>1, EpochType
  <2> QED BY <2>1, <2>2
<1>2. ASSUME NEW d \in Claims, Unclaimed(d), d[2] > window'[d[1]].epoch PROVE Unclaimed(d)'
  <2>1. d # <<w, window[w].epoch + 1>>
    <3>1. window[w].epoch + 1 \in Nat BY EpochType
    <3> QED BY <1>2, <3>1, ClaimEffect
  <2>2. session'[d] = session[d] /\ lane' = lane BY <2>1, ClaimEffect
  <2> QED BY <1>2, <2>2, Constants DEF Unclaimed
<1> QED BY <1>1, <1>2, OrderStep

\* ... by steps that touch neither sessions nor threads,
LEMMA OrderOther ==
  ASSUME LocalInv, LocalInv', OrderInv, \A w \in Windows : SameHolder(w), UNCHANGED <<session, lane>>
  PROVE  OrderInv'
<1>1. \A w \in Windows : window'[w].epoch >= window[w].epoch BY SameEpoch
<1>2. \A d \in Claims : Unclaimed(d) => Unclaimed(d)' BY Constants DEF Unclaimed
<1> QED BY <1>1, <1>2, OrderStep

\* Closing an unavailable window changes no holder.
LEMMA UnavailableHolder ==
  ASSUME LocalInv, NEW w \in Windows, MarkUnavailable(w)
  PROVE  /\ \A v \in Windows : SameHolder(v)
         /\ UNCHANGED <<session, lane>>
<1> DEFINE row == [window[w] EXCEPT !.state = "UNAVAILABLE", !.owner = None, !.lease = 0]
<1>1. window \in [Windows -> WindowRows] BY TablesTyped
<1>2. window' = [window EXCEPT ![w] = row] BY <1>1 DEF MarkUnavailable
<1>3. row.state = "UNAVAILABLE" /\ row.epoch = window[w].epoch BY <1>1 DEF WindowRows
<1> HIDE DEF row
<1>4. \A v \in Windows : SameHolder(v) BY <1>1, <1>2, <1>3 DEF SameHolder
<1> QED BY <1>4 DEF MarkUnavailable

\* What a crash changes.
LEMMA CrashEffect ==
  ASSUME LocalInv, NEW o \in Owners, Crash(o)
  PROVE  /\ UNCHANGED <<window, runs>>
         /\ \A c \in Claims : session'[c].owner = session[c].owner
         /\ \A c \in Claims : session[c].owner # o => session'[c] = session[c] /\ lane'[c] = lane[c]
         /\ \A c \in Claims, l \in Lanes : lane'[c][l] = lane[c][l] \/ lane'[c][l].pc = "off"
<1> DEFINE gone == [NoSession EXCEPT !.pc = "ended", !.owner = o]
<1>1. gone.owner = o /\ NoJob.pc = "off" BY DEF NoSession, NoJob
<1>2. /\ UNCHANGED <<window, runs>>
      /\ \A c \in Claims : session'[c] = IF session[c].owner = o THEN gone ELSE session[c]
      /\ \A c \in Claims : lane'[c] = IF session[c].owner = o THEN [l \in Lanes |-> NoJob] ELSE lane[c]
  BY DEF Crash, db
<1> HIDE DEF gone
<1> QED BY <1>1, <1>2

\* ... by crashes,
LEMMA OrderCrash ==
  ASSUME LocalInv, LocalInv', OrderInv, NEW o \in Owners, Crash(o) PROVE OrderInv'
<1>1. \A w \in Windows : window'[w].epoch >= window[w].epoch BY CrashEffect, EpochType
<1>2. ASSUME NEW d \in Claims, Unclaimed(d) PROVE Unclaimed(d)'
  <2>1. session[d].owner # o BY <1>2, Parameters DEF Unclaimed
  <2> QED BY <1>2, <2>1, CrashEffect, Constants DEF Unclaimed
<1> QED BY <1>1, <1>2, OrderStep

\* ... and so by every step.
LEMMA OrderNext == LocalInv /\ LocalInv' /\ OrderInv /\ [Next]_vars => OrderInv'
<1> SUFFICES ASSUME LocalInv, LocalInv', OrderInv, [Next]_vars PROVE OrderInv' OBVIOUS
<1>1. CASE UNCHANGED vars BY <1>1, OrderOther, SameWindow DEF vars, db
<1>2. ASSUME NEW o \in Owners, NEW w \in Windows, Claim(o, w) PROVE OrderInv' BY <1>2, OrderClaim
<1>3. ASSUME NEW c \in Claims, Coordinate(c) \/ Heartbeat(c) \/ CoordinatorFault(c) PROVE OrderInv'
  BY <1>3, CoordinatorFrames, OrderCoordinator
<1>4. ASSUME NEW c \in Claims, NEW l \in Lanes, Advance(c, l) \/ Run(c, l) \/ LaneFault(c, l)
      PROVE  OrderInv'
  BY <1>4, ThreadFrames, OrderThread
<1>5. ASSUME NEW s \in Stages, NEW status \in {"READY", "BLOCKED"}, ResidentTick(s, status)
      PROVE  OrderInv'
  BY <1>5, OrderOther, SameWindow DEF ResidentTick
<1>6. ASSUME NEW w \in Windows, MarkUnavailable(w) PROVE OrderInv'
  BY <1>6, UnavailableHolder, OrderOther
<1>7. ASSUME NEW o \in Owners, Crash(o) PROVE OrderInv' BY <1>7, OrderCrash
<1>8. CASE Tick BY <1>8, OrderOther, SameWindow DEF Tick, db
<1> QED BY <1>1, <1>2, <1>3, <1>4, <1>5, <1>6, <1>7, <1>8 DEF Next

-----------------------------------------------------------------------------
(* The third layer: the rows of one stage.                                   *)

\* No attempt is RUNNING.
Idle(q) == \A a \in 1..Len(q) : q[a].state # "RUNNING"

\* A RUNNING row is the only one and the last, unless _conclude put a MISSED
\* row on it (over the row of an abandoned thread).
RowsOK(q) ==
  \A a \in 1..Len(q) : q[a].state = "RUNNING" =>
    /\ a = Len(q) \/ q[Len(q)].state = "MISSED"
    /\ \A b \in 1..Len(q) : q[b].state = "RUNNING" => a = b

\* A row may be added when none is RUNNING; a MISSED row always.
LEMMA AppendRow ==
  ASSUME NEW q \in Seq(RunRows), NEW row \in RunRows, RowsOK(q), Idle(q) \/ row.state = "MISSED"
  PROVE  /\ RowsOK(Append(q, row))
         /\ row.state # "RUNNING" /\ Idle(q) => Idle(Append(q, row))
<1>1. /\ Len(Append(q, row)) = Len(q) + 1 /\ Len(q) \in Nat
      /\ \A a \in 1..Len(q) : Append(q, row)[a] = q[a]
      /\ Append(q, row)[Len(q) + 1] = row
  OBVIOUS
<1> DEFINE p == Append(q, row)
<1>2. \A a \in 1..Len(p) : a = Len(p) \/ a \in 1..Len(q) BY <1>1
<1> HIDE DEF p
<1>3. CASE Idle(q)
  <2>1. \A a \in 1..Len(p) : p[a].state = "RUNNING" => a = Len(p) BY <1>1, <1>2, <1>3 DEF Idle, p
  <2>2. RowsOK(p) BY <2>1 DEF RowsOK
  <2>3. row.state # "RUNNING" => Idle(p) BY <1>1, <1>2, <1>3 DEF Idle, p
  <2> QED BY <2>2, <2>3 DEF p
<1>4. CASE ~Idle(q) /\ row.state = "MISSED"
  <2>1. p[Len(p)].state = "MISSED" BY <1>1, <1>4 DEF p
  <2>2. \A a \in 1..Len(p) : p[a].state = "RUNNING" => a \in 1..Len(q) /\ q[a].state = "RUNNING"
    BY <1>1, <1>2, <2>1 DEF p
  <2>3. RowsOK(p) BY <2>1, <2>2 DEF RowsOK
  <2> QED BY <1>4, <2>3 DEF p
<1> QED BY <1>3, <1>4

\* A RUNNING row that stops leaves none RUNNING.
LEMMA StopRow ==
  ASSUME NEW q \in Seq(RunRows), NEW row, RowsOK(q), NEW a \in 1..Len(q), q[a].state = "RUNNING",
         row.state # "RUNNING"
  PROVE  Idle([q EXCEPT ![a] = row]) /\ RowsOK([q EXCEPT ![a] = row])
<1> DEFINE p == [q EXCEPT ![a] = row]
<1> SUFFICES Idle(p) /\ RowsOK(p) OBVIOUS
<1>1. /\ Len(p) = Len(q) /\ p[a] = row
      /\ \A b \in 1..Len(q) : b # a => p[b] = q[b]
  OBVIOUS
<1>2. \A b \in 1..Len(q) : b # a => q[b].state # "RUNNING" BY DEF RowsOK
<1> HIDE DEF p
<1>3. Idle(p) BY <1>1, <1>2 DEF Idle
<1> QED BY <1>3 DEF Idle, RowsOK

\* Failing RUNNING rows keeps the rest as it is.
LEMMA FailRows ==
  ASSUME NEW p, NEW q, Len(p) = Len(q), RowsOK(q), Len(q) \in Nat,
         \A a \in 1..Len(q) : p[a] = q[a] \/ (q[a].state = "RUNNING" /\ p[a].state # "RUNNING")
  PROVE  RowsOK(p) /\ (Idle(q) => Idle(p))
<1>1. \A a \in 1..Len(p) : p[a].state = "RUNNING" => p[a] = q[a] OBVIOUS
<1>2. ASSUME NEW a \in 1..Len(p), p[a].state = "RUNNING", a # Len(p) PROVE p[Len(p)].state = "MISSED"
  <2>1. q[Len(q)].state = "MISSED" BY <1>1, <1>2 DEF RowsOK
  <2>2. Len(q) \in 1..Len(q) BY <1>2
  <2> QED BY <2>1, <2>2
<1>3. RowsOK(p)
  <2>1. \A a, b \in 1..Len(p) : p[a].state = "RUNNING" /\ p[b].state = "RUNNING" => a = b
    BY <1>1 DEF RowsOK
  <2> QED BY <1>2, <2>1 DEF RowsOK
<1>4. Idle(q) => Idle(p) BY <1>1 DEF Idle
<1> QED BY <1>3, <1>4

RowsInv == \A w \in Windows, s \in Stages : RowsOK(runs[w][s])

\* When a thread that still holds the window is about to insert a row for its
\* stage, no attempt of the stage is RUNNING.
ClearToInsert ==
  \A c \in Claims, l \in Lanes :
    lane[c][l].pc \in {"block", "start"} /\ Held(c) => Idle(runs[c[1]][lane[c][l].stage])

\* The third layer implies the property.
LEMMA RowsUnique == LocalInv /\ RowsInv => OneRunningAttempt
<1> SUFFICES ASSUME LocalInv, RowsInv, NEW w \in Windows, NEW s \in Stages,
                    NEW a \in 1..Attempts(w, s), NEW b \in 1..Attempts(w, s),
                    Running(w, s, a), Running(w, s, b)
             PROVE  a = b
  BY DEF OneRunningAttempt
<1> QED BY DEF RowsInv, RowsOK, Running, Attempts

\* The third layer after a step, row by row ...
LEMMA RowsStep ==
  ASSUME \A w \in Windows, s \in Stages : RowsOK(runs'[w][s]) PROVE RowsInv'
  BY DEF RowsInv, RowsOK

HeldNext(c) ==
  /\ window'[c[1]].state = "RUNNING"
  /\ window'[c[1]].epoch = c[2]
  /\ window'[c[1]].owner = session'[c].owner

\* ... and thread by thread.
LEMMA ClearStep ==
  ASSUME \A c \in Claims, l \in Lanes :
           lane'[c][l].pc \in {"block", "start"} /\ HeldNext(c)
             => Idle(runs'[c[1]][lane'[c][l].stage])
  PROVE  ClearToInsert'
  BY Constants DEF ClearToInsert, HeldNext, Held, Idle

\* A window held after the step was held before it.
LEMMA HeldBefore ==
  ASSUME NEW c \in Claims, SameHolder(c[1]), session'[c].owner = session[c].owner, HeldNext(c)
  PROVE  Held(c)
  BY DEF HeldNext, Held, SameHolder

\* Two claims of one window are not both held.
LEMMA OneHolder ==
  ASSUME NEW c \in Claims, NEW d \in Claims, Held(c), Held(d), c[1] = d[1] PROVE c = d
  BY ClaimParts DEF Held

\* A step that starts no insertion and no attempt.
LEMMA KeepsClear ==
  ASSUME LocalInv, ClearToInsert, \A w \in Windows : SameHolder(w),
         \A c \in Claims : session'[c].owner = session[c].owner,
         \A c \in Claims, l \in Lanes :
           lane'[c][l].pc \in {"block", "start"} => lane'[c][l] = lane[c][l],
         \A w \in Windows, s \in Stages : Idle(runs[w][s]) => Idle(runs'[w][s])
  PROVE  ClearToInsert'
<1>1. ASSUME NEW c \in Claims, NEW l \in Lanes, lane'[c][l].pc \in {"block", "start"}, HeldNext(c)
      PROVE  Idle(runs'[c[1]][lane'[c][l].stage])
  <2>1. lane'[c][l] = lane[c][l] BY <1>1
  <2>2. Held(c) BY <1>1, HeldBefore, ClaimParts
  <2>3. Idle(runs[c[1]][lane[c][l].stage]) BY <1>1, <2>1, <2>2 DEF ClearToInsert
  <2>4. lane[c][l].stage \in Stages
    <3>1. JobOK(l, lane[c][l]) BY DEF LocalInv
    <3> QED BY <1>1, <2>1, <3>1, Parameters DEF JobOK, Working
  <2> QED BY <2>1, <2>3, <2>4, ClaimParts
<1> QED BY <1>1, ClearStep

RowsLayer == RowsInv /\ ClearToInsert

\* A step of a thread that changes the rows of its own stage at most.
LEMMA RowsThreadFrame ==
  ASSUME LocalInv, NEW c \in Claims, NEW l \in Lanes, ThreadFrame(c, l), ~LaneDecide(c, l)
  PROVE  /\ \A w \in Windows : SameHolder(w)
         /\ \A d \in Claims : session'[d].owner = session[d].owner
         /\ \A d \in Claims, m \in Lanes :
              lane'[d][m].pc \in {"block", "start"} => lane'[d][m] = lane[d][m] /\ (d # c \/ m # l)
  BY DEF ThreadFrame

\* _next_step chooses a stage only when none of its attempts is RUNNING.
LEMMA RowsDecide ==
  ASSUME LocalInv, RowsLayer, NEW c \in Claims, NEW l \in Lanes, LaneDecide(c, l), ThreadFrame(c, l)
  PROVE  RowsLayer'
<1>1. UNCHANGED <<window, runs, session>> BY DEF LaneDecide, db
<1>2. RowsInv' BY <1>1, RowsStep DEF RowsLayer, RowsInv
<1>3. PICK s \in Steps(c, l) : lane' = [lane EXCEPT ![c][l] =
            [NoJob EXCEPT !.pc = IF Decide(c, s) = "RUN" THEN "start" ELSE "block",
                          !.stage = s, !.attempt = Attempts(c[1], s) + 1, !.progressed = TRUE]]
  BY DEF LaneDecide
<1>4. lane'[c][l].stage = s
  <2> DEFINE pc == IF Decide(c, s) = "RUN" THEN "start" ELSE "block"
             n == Attempts(c[1], s) + 1
             j == [NoJob EXCEPT !.pc = pc, !.stage = s, !.attempt = n, !.progressed = TRUE]
  <2>1. lane' = [lane EXCEPT ![c][l] = j] BY <1>3
  <2>2. j.stage = s
    <3> HIDE DEF pc, n
    <3> QED BY DEF NoJob
  <2> HIDE DEF j
  <2>3. lane'[c][l] = j BY <2>1, TablesTyped
  <2> QED BY <2>2, <2>3
<1>5. s \in WindowStages /\ s \in Stages /\ c[1] \in Windows BY Parameters, ClaimParts DEF Steps
<1>6. LatestState(c[1], s) \notin {"RUNNING", "MISSED"}
  <2>1. Decision(s, DecisionStates(c[1]), ready, WindowStages) \in {"RUN", "BLOCK_PREREQ"}
    BY DEF Steps, Decide
  <2>2. DecisionStates(c[1])[s] \notin TerminalStates \cup {"RUNNING", "DEFERRED"}
    BY <1>5, <2>1 DEF Decision, Undecided
  <2>3. DecisionStates(c[1])[s] =
          IF OrphanRetry(c[1], s) \/ DeferredRetry(c[1], s) THEN Absent
          ELSE IF LatestState(c[1], s) = "DEFERRED" THEN "RUNNING"
          ELSE LatestState(c[1], s)
    BY <1>5 DEF DecisionStates
  <2>4. CASE OrphanRetry(c[1], s) \/ DeferredRetry(c[1], s)
    BY <2>4 DEF OrphanRetry, DeferredRetry
  <2>5. CASE ~(OrphanRetry(c[1], s) \/ DeferredRetry(c[1], s))
    BY <2>2, <2>3, <2>5 DEF TerminalStates, NonCompletingStates
  <2> QED BY <2>4, <2>5
<1>7. Idle(runs[c[1]][s])
  <2>1. runs[c[1]][s] \in Seq(RunRows) BY <1>5, TablesTyped
  <2>2. Len(runs[c[1]][s]) \in Nat /\ (runs[c[1]][s] = <<>> <=> Len(runs[c[1]][s]) = 0)
    BY <2>1
  <2>3. RowsOK(runs[c[1]][s]) BY <1>5 DEF RowsLayer, RowsInv
  <2>4. ASSUME NEW a \in 1..Len(runs[c[1]][s]), runs[c[1]][s][a].state = "RUNNING" PROVE FALSE
    <3>1. LatestState(c[1], s) = runs[c[1]][s][Len(runs[c[1]][s])].state
      BY <2>2, <2>4 DEF LatestState, Latest, Attempts
    <3> QED BY <1>6, <2>3, <2>4, <3>1 DEF RowsOK
  <2> QED BY <2>4 DEF Idle
<1>8. ASSUME NEW d \in Claims, NEW m \in Lanes, lane'[d][m].pc \in {"block", "start"}, HeldNext(d)
      PROVE  Idle(runs'[d[1]][lane'[d][m].stage])
  <2>1. CASE d = c /\ m = l BY <1>1, <1>4, <1>7, <2>1
  <2>2. CASE d # c \/ m # l
    <3>1. lane'[d][m] = lane[d][m] BY <2>2 DEF ThreadFrame
    <3>2. Held(d) BY <1>1, <1>8, HeldBefore, ClaimParts DEF ThreadFrame
    <3> QED BY <1>1, <1>8, <3>1, <3>2 DEF RowsLayer, ClearToInsert
  <2> QED BY <2>1, <2>2
<1> QED BY <1>2, <1>8, ClearStep DEF RowsLayer

\* A step that changes no row.
LEMMA RowsSame ==
  ASSUME LocalInv, RowsLayer, UNCHANGED runs, \A w \in Windows : SameHolder(w),
         \A c \in Claims : session'[c].owner = session[c].owner,
         \A c \in Claims, l \in Lanes :
           lane'[c][l].pc \in {"block", "start"} => lane'[c][l] = lane[c][l]
  PROVE  RowsLayer'
<1>1. RowsInv' BY RowsStep DEF RowsLayer, RowsInv
<1> QED BY <1>1, KeepsClear DEF RowsLayer

\* record_blocked adds a row that is not RUNNING.
LEMMA RowsBlock ==
  ASSUME LocalInv, RowsLayer, NEW c \in Claims, NEW l \in Lanes, LaneBlock(c, l), ThreadFrame(c, l)
  PROVE  RowsLayer'
<1> DEFINE s == lane[c][l].stage
           row == NewRow("BLOCKED_PREREQ")
<1>1. lane[c][l].pc = "block" /\ ~LaneDecide(c, l) BY DEF LaneBlock, LaneDecide
<1>2. CASE UNCHANGED runs BY <1>1, <1>2, RowsThreadFrame, RowsSame
<1>3. CASE ~UNCHANGED runs
  <2>1. Held(c) /\ runs' = Insert(c[1], s, row) BY <1>3 DEF LaneBlock
  <2>2. s \in Stages /\ c[1] \in Windows
    <3>1. JobOK(l, lane[c][l]) BY DEF LocalInv
    <3> QED BY <1>1, <3>1, Parameters, ClaimParts DEF JobOK, Working
  <2>3. row \in RunRows /\ row.state = "BLOCKED_PREREQ" BY Rows DEF NewRow
  <2>4. Idle(runs[c[1]][s]) BY <1>1, <2>1 DEF RowsLayer, ClearToInsert
  <2>5. runs[c[1]][s] \in Seq(RunRows) /\ RowsOK(runs[c[1]][s])
    BY <2>2, TablesTyped DEF RowsLayer, RowsInv
  <2> HIDE DEF s, row
  <2>6. \A v \in Windows, t \in Stages :
          runs'[v][t] = IF v = c[1] /\ t = s THEN Append(runs[c[1]][s], row) ELSE runs[v][t]
    BY <2>1, <2>2, <2>3, InsertType
  <2>7. RowsOK(Append(runs[c[1]][s], row)) /\ Idle(Append(runs[c[1]][s], row))
    BY <2>3, <2>4, <2>5, AppendRow
  <2>8. RowsInv' BY <2>6, <2>7, RowsStep DEF RowsLayer, RowsInv
  <2>9. \A v \in Windows, t \in Stages : Idle(runs[v][t]) => Idle(runs'[v][t]) BY <2>6, <2>7
  <2> QED BY <1>1, <2>8, <2>9, RowsThreadFrame, KeepsClear DEF RowsLayer
<1> QED BY <1>2, <1>3

\* start_stage adds the only RUNNING row, in the lane of its own thread.
LEMMA RowsStart ==
  ASSUME LocalInv, RowsLayer, NEW c \in Claims, NEW l \in Lanes, LaneStart(c, l), ThreadFrame(c, l)
  PROVE  RowsLayer'
<1> DEFINE s == lane[c][l].stage
           row == NewRow("RUNNING")
<1>1. lane[c][l].pc = "start" /\ ~LaneDecide(c, l) BY DEF LaneStart, LaneDecide
<1>2. CASE UNCHANGED runs BY <1>1, <1>2, RowsThreadFrame, RowsSame
<1>3. CASE ~UNCHANGED runs
  <2>1. Held(c) /\ runs' = Insert(c[1], s, row) BY <1>3 DEF LaneStart
  <2>2. s \in Stages /\ c[1] \in Windows /\ LaneOf[s] = l
    <3>1. JobOK(l, lane[c][l]) BY DEF LocalInv
    <3> QED BY <1>1, <3>1, Parameters, ClaimParts DEF JobOK, Working
  <2>3. row \in RunRows BY Rows
  <2>4. Idle(runs[c[1]][s]) BY <1>1, <2>1 DEF RowsLayer, ClearToInsert
  <2>5. runs[c[1]][s] \in Seq(RunRows) /\ RowsOK(runs[c[1]][s])
    BY <2>2, TablesTyped DEF RowsLayer, RowsInv
  <2>6. \A v \in Windows, t \in Stages :
          runs'[v][t] = IF v = c[1] /\ t = s THEN Append(runs[c[1]][s], row) ELSE runs[v][t]
    <3> HIDE DEF s, row
    <3> QED BY <2>1, <2>2, <2>3, InsertType
  <2>7. RowsOK(Append(runs[c[1]][s], row))
    <3> HIDE DEF s, row
    <3> QED BY <2>3, <2>4, <2>5, AppendRow
  <2>8. RowsInv'
    <3> HIDE DEF s, row
    <3> QED BY <2>6, <2>7, RowsStep DEF RowsLayer, RowsInv
  <2>9. ASSUME NEW d \in Claims, NEW m \in Lanes, lane'[d][m].pc \in {"block", "start"}, HeldNext(d)
        PROVE  Idle(runs'[d[1]][lane'[d][m].stage])
    <3>1. lane'[d][m] = lane[d][m] /\ (d # c \/ m # l) BY <1>1, <2>9, RowsThreadFrame
    <3>2. Held(d) BY <2>9, HeldBefore, ClaimParts DEF ThreadFrame
    <3>3. Idle(runs[d[1]][lane[d][m].stage]) BY <2>9, <3>1, <3>2 DEF RowsLayer, ClearToInsert
    <3>4. lane[d][m].stage \in Stages /\ LaneOf[lane[d][m].stage] = m
      <4>1. JobOK(m, lane[d][m]) BY DEF LocalInv
      <4> QED BY <2>9, <3>1, <4>1, Parameters DEF JobOK, Working
    <3>5. d[1] # c[1] \/ lane[d][m].stage # s BY <2>1, <2>2, <3>1, <3>2, <3>4, OneHolder
    <3> HIDE DEF s
    <3> QED BY <2>6, <3>1, <3>3, <3>4, <3>5, ClaimParts
  <2> QED BY <2>8, <2>9, ClearStep DEF RowsLayer
<1> QED BY <1>2, <1>3

\* finish_stage ends the only RUNNING row.
LEMMA RowsFinish ==
  ASSUME LocalInv, RowsLayer, NEW c \in Claims, NEW l \in Lanes, LaneFinish(c, l), ThreadFrame(c, l)
  PROVE  RowsLayer'
<1> DEFINE s == lane[c][l].stage
           a == lane[c][l].attempt
           at == IF lane[c][l].outcome = "DEFERRED" THEN Least(now + RetryDelay, Deadline[c[1]]) ELSE 0
           row == [NewRow(lane[c][l].outcome) EXCEPT !.retryAt = at]
           q == runs[c[1]][s]
<1>1. lane[c][l].pc = "finish" /\ ~LaneDecide(c, l) BY DEF LaneFinish, LaneDecide
<1>2. CASE UNCHANGED runs BY <1>1, <1>2, RowsThreadFrame, RowsSame
<1>3. CASE ~UNCHANGED runs
  <2>1. Mine(c, l) /\ runs' = [runs EXCEPT ![c[1]][s][a] = row] BY <1>3 DEF LaneFinish
  <2>2. s \in Stages /\ c[1] \in Windows /\ lane[c][l].outcome \in RunOutcomes
    <3>1. JobOK(l, lane[c][l]) BY DEF LocalInv
    <3> QED BY <1>1, <3>1, Parameters, ClaimParts DEF JobOK, Working
  <2>3. row.state # "RUNNING"
    <3> HIDE DEF at
    <3> QED BY <2>2 DEF NewRow, RunOutcomes
  <2>4. q \in Seq(RunRows) /\ RowsOK(q) BY <2>2, TablesTyped DEF RowsLayer, RowsInv
  <2>5. a \in 1..Len(q) /\ q[a].state = "RUNNING" BY <2>1 DEF Mine, Running, Attempts
  <2>6. Idle([q EXCEPT ![a] = row]) /\ RowsOK([q EXCEPT ![a] = row])
    <3> HIDE DEF q, a, row
    <3> QED BY <2>3, <2>4, <2>5, StopRow
  <2>7. \A v \in Windows, t \in Stages :
          runs'[v][t] = IF v = c[1] /\ t = s THEN [q EXCEPT ![a] = row] ELSE runs[v][t]
    <3> HIDE DEF s, a, row
    <3> QED BY <2>1, <2>2, TablesTyped
  <2> HIDE DEF s, a, row, q
  <2>8. RowsInv' BY <2>6, <2>7, RowsStep DEF RowsLayer, RowsInv
  <2>9. \A v \in Windows, t \in Stages : Idle(runs[v][t]) => Idle(runs'[v][t]) BY <2>6, <2>7
  <2> QED BY <1>1, <2>8, <2>9, RowsThreadFrame, KeepsClear DEF RowsLayer
<1> QED BY <1>2, <1>3

\* The third layer is kept by thread steps,
LEMMA RowsThread ==
  ASSUME LocalInv, RowsLayer, NEW c \in Claims, NEW l \in Lanes,
         Advance(c, l) \/ Run(c, l) \/ LaneFault(c, l)
  PROVE  RowsLayer'
<1>1. ThreadFrame(c, l) BY ThreadFrames
<1>2. CASE LaneDecide(c, l) BY <1>1, <1>2, RowsDecide
<1>3. CASE LaneBlock(c, l) BY <1>1, <1>3, RowsBlock
<1>4. CASE LaneStart(c, l) BY <1>1, <1>4, RowsStart
<1>5. CASE LaneFinish(c, l) BY <1>1, <1>5, RowsFinish
<1>6. CASE ~(LaneDecide(c, l) \/ LaneBlock(c, l) \/ LaneStart(c, l) \/ LaneFinish(c, l))
  <2>1. UNCHANGED runs
    BY <1>6 DEF Advance, Run, LaneIdle, LaneReceipt, LaneAdvance, LaneReadiness, OpenTransaction,
                CommitTransaction, RunnerReturns, LaneFault, db
  <2> QED BY <1>1, <1>6, <2>1, RowsThreadFrame, RowsSame
<1> QED BY <1>2, <1>3, <1>4, <1>5, <1>6

\* recover_orphans and the overrun only stop rows.
LEMMA RowsFail ==
  ASSUME LocalInv, RowsLayer, NEW w \in Windows, NEW stages, NEW lost \in BOOLEAN,
         runs' = FailRunning(w, stages, lost)
  PROVE  /\ RowsInv'
         /\ \A v \in Windows, t \in Stages : Idle(runs[v][t]) => Idle(runs'[v][t])
<1>1. ASSUME NEW t \in Stages
      PROVE  RowsOK(runs'[w][t]) /\ (Idle(runs[w][t]) => Idle(runs'[w][t]))
  <2> DEFINE p == runs'[w][t]
             q == runs[w][t]
  <2>1. Len(p) = Len(q) BY FailRunningType
  <2>2. \A a \in 1..Len(q) : p[a] = q[a] \/ (q[a].state = "RUNNING" /\ p[a].state # "RUNNING")
    <3> TAKE a \in 1..Len(q)
    <3>1. /\ t \in stages /\ Running(w, t, a) => p[a].state = "FAILED"
          /\ ~(t \in stages /\ Running(w, t, a)) => p[a] = q[a]
      BY FailRunningType
    <3>2. Running(w, t, a) => q[a].state = "RUNNING" BY DEF Running
    <3> HIDE DEF p, q
    <3> QED BY <3>1, <3>2
  <2>3. RowsOK(q) /\ Len(q) \in Nat BY TablesTyped DEF RowsLayer, RowsInv
  <2> SUFFICES RowsOK(p) /\ (Idle(q) => Idle(p)) OBVIOUS
  <2> HIDE DEF p, q
  <2> QED BY <2>1, <2>2, <2>3, FailRows
<1>2. ASSUME NEW v \in Windows, NEW t \in Stages
      PROVE  RowsOK(runs'[v][t]) /\ (Idle(runs[v][t]) => Idle(runs'[v][t]))
  <2>1. CASE v # w BY <2>1, FailRunningType DEF RowsLayer, RowsInv
  <2>2. CASE v = w BY <1>1, <2>2
  <2> QED BY <2>1, <2>2
<1> QED BY <1>2, RowsStep

\* _conclude adds a MISSED row.
LEMMA RowsMissed ==
  ASSUME LocalInv, RowsLayer, NEW w \in Windows, NEW s \in Stages,
         runs' = Insert(w, s, NewRow("MISSED"))
  PROVE  /\ RowsInv'
         /\ \A v \in Windows, t \in Stages : Idle(runs[v][t]) => Idle(runs'[v][t])
<1> DEFINE row == NewRow("MISSED")
<1>1. row \in RunRows /\ row.state = "MISSED" BY Rows DEF NewRow
<1>2. runs[w][s] \in Seq(RunRows) /\ RowsOK(runs[w][s]) BY TablesTyped DEF RowsLayer, RowsInv
<1> HIDE DEF row
<1>3. \A v \in Windows, t \in Stages :
        runs'[v][t] = IF v = w /\ t = s THEN Append(runs[w][s], row) ELSE runs[v][t]
  BY <1>1, InsertType DEF row
<1>4. RowsOK(Append(runs[w][s], row)) /\ (Idle(runs[w][s]) => Idle(Append(runs[w][s], row)))
  BY <1>1, <1>2, AppendRow
<1>5. RowsInv' BY <1>3, <1>4, RowsStep DEF RowsLayer, RowsInv
<1> QED BY <1>3, <1>4, <1>5

\* ... by coordinator steps,
LEMMA RowsCoordinator ==
  ASSUME LocalInv, RowsLayer, NEW c \in Claims,
         Coordinate(c) \/ Heartbeat(c) \/ CoordinatorFault(c)
  PROVE  RowsLayer'
<1>1. /\ \A w \in Windows : SameHolder(w)
      /\ \A d \in Claims : session'[d].owner = session[d].owner
      /\ \A d \in Claims, m \in Lanes :
           lane'[d][m].pc \in {"block", "start"} => lane'[d][m] = lane[d][m]
  BY CoordinatorFrames DEF CoordinatorFrame
<1>2. CASE UNCHANGED runs BY <1>1, <1>2, RowsSame
<1>3. CASE ~UNCHANGED runs
  <2>1. \/ runs' = FailRunning(c[1], Stages, TRUE)
        \/ \E stages : runs' = FailRunning(c[1], stages, FALSE)
        \/ /\ session[c].pc = "miss"
           /\ \E s \in session[c].todo : runs' = Insert(c[1], s, NewRow("MISSED"))
    BY <1>3 DEF Coordinate, Recover, BeginRound, CancelOverrun, TimeOutLanes, EndRound, Conclude,
                RecordMissed, Reread, CloseWindow, Heartbeat, CoordinatorFault, db
  <2>2. CASE runs' = FailRunning(c[1], Stages, TRUE)
    <3>1. TRUE \in BOOLEAN /\ c[1] \in Windows BY ClaimParts
    <3>2. /\ RowsInv'
          /\ \A v \in Windows, t \in Stages : Idle(runs[v][t]) => Idle(runs'[v][t])
      BY <2>2, <3>1, RowsFail, Zenon
    <3> QED BY <1>1, <3>2, KeepsClear DEF RowsLayer
  <2>3. CASE \E stages : runs' = FailRunning(c[1], stages, FALSE)
    <3>1. FALSE \in BOOLEAN /\ c[1] \in Windows BY ClaimParts
    <3>2. /\ RowsInv'
          /\ \A v \in Windows, t \in Stages : Idle(runs[v][t]) => Idle(runs'[v][t])
      BY <2>3, <3>1, RowsFail, Zenon
    <3> QED BY <1>1, <3>2, KeepsClear DEF RowsLayer
  <2>4. CASE /\ session[c].pc = "miss"
             /\ \E s \in session[c].todo : runs' = Insert(c[1], s, NewRow("MISSED"))
    <3>1. session[c].todo \subseteq Stages BY <2>4, Parameters DEF LocalInv, SessionOK
    <3>2. /\ RowsInv'
          /\ \A v \in Windows, t \in Stages : Idle(runs[v][t]) => Idle(runs'[v][t])
      BY <2>4, <3>1, RowsMissed, ClaimParts
    <3> QED BY <1>1, <3>2, KeepsClear DEF RowsLayer
  <2> QED BY <2>1, <2>2, <2>3, <2>4
<1> QED BY <1>2, <1>3

\* ... by claims, whose epoch no thread has yet,
LEMMA RowsClaim ==
  ASSUME LocalInv, OrderInv, RowsLayer, NEW o \in Owners, NEW w \in Windows, Claim(o, w)
  PROVE  RowsLayer'
<1> DEFINE c == <<w, window[w].epoch + 1>>
<1>1. RowsInv' BY ClaimEffect, RowsStep DEF RowsLayer, RowsInv
<1>2. window[w].epoch \in Nat BY EpochType
<1>3. ASSUME NEW d \in Claims, NEW m \in Lanes, lane'[d][m].pc \in {"block", "start"}, HeldNext(d)
      PROVE  Idle(runs'[d[1]][lane'[d][m].stage])
  <2>1. lane'[d][m] = lane[d][m] /\ UNCHANGED runs BY ClaimEffect
  <2>2. CASE d[1] = w
    <3>1. d[2] = window[w].epoch + 1 BY <1>3, <2>2, ClaimEffect DEF HeldNext
    <3>2. Unclaimed(d) BY <1>2, <2>2, <3>1 DEF OrderInv
    <3> QED BY <1>3, <2>1, <3>2 DEF Unclaimed
  <2>3. CASE d[1] # w
    <3>1. window'[d[1]] = window[d[1]] BY <2>3, ClaimEffect, ClaimParts
    <3>2. session'[d] = session[d]
      <4>1. d # <<w, window[w].epoch + 1>> BY <2>3
      <4> QED BY <4>1, ClaimEffect
    <3>3. Held(d) BY <1>3, <3>1, <3>2 DEF HeldNext, Held
    <3> QED BY <1>3, <2>1, <3>3 DEF RowsLayer, ClearToInsert
  <2> QED BY <2>2, <2>3
<1> QED BY <1>1, <1>3, ClearStep DEF RowsLayer

\* ... by the closing of an unavailable window,
LEMMA RowsUnavailable ==
  ASSUME LocalInv, RowsLayer, NEW w \in Windows, MarkUnavailable(w) PROVE RowsLayer'
<1> DEFINE row == NewRow("UNAVAILABLE")
<1>1. \A v \in Windows, t \in Stages :
        runs'[v][t] = IF v = w THEN IF t \in Enabled THEN <<row>> ELSE <<>> ELSE runs[v][t]
  BY TablesTyped DEF MarkUnavailable
<1>2. row.state = "UNAVAILABLE" BY DEF NewRow
<1> HIDE DEF row
<1>3. Idle(<<>>) /\ Idle(<<row>>) BY <1>2 DEF Idle
<1>4. \A q : Idle(q) => RowsOK(q) BY DEF Idle, RowsOK
<1>5. RowsInv' BY <1>1, <1>3, <1>4, RowsStep DEF RowsLayer, RowsInv
<1>6. \A v \in Windows, t \in Stages : Idle(runs[v][t]) => Idle(runs'[v][t]) BY <1>1, <1>3
<1>7. UNCHANGED <<session, lane>> /\ \A v \in Windows : SameHolder(v) BY UnavailableHolder
<1> QED BY <1>5, <1>6, <1>7, KeepsClear DEF RowsLayer

\* ... by crashes,
LEMMA RowsCrash ==
  ASSUME LocalInv, RowsLayer, NEW o \in Owners, Crash(o) PROVE RowsLayer'
<1>1. UNCHANGED <<window, runs>> BY CrashEffect
<1>2. \A c \in Claims : session'[c].owner = session[c].owner BY CrashEffect
<1>3. \A c \in Claims, l \in Lanes :
        lane'[c][l].pc \in {"block", "start"} => lane'[c][l] = lane[c][l]
  BY CrashEffect
<1> QED BY <1>1, <1>2, <1>3, RowsSame, SameWindow

\* The third layer holds initially.
LEMMA RowsInit == Init => RowsLayer
<1> SUFFICES ASSUME Init PROVE RowsLayer OBVIOUS
<1>1. RowsInv BY DEF Init, RowsInv, RowsOK
<1>2. ClearToInsert BY DEF Init, ClearToInsert, NoJob
<1> QED BY <1>1, <1>2 DEF RowsLayer

\* It is kept by every step.
LEMMA RowsNext == LocalInv /\ OrderInv /\ RowsLayer /\ [Next]_vars => RowsLayer'
<1> SUFFICES ASSUME LocalInv, OrderInv, RowsLayer, [Next]_vars PROVE RowsLayer' OBVIOUS
<1>0. UNCHANGED <<window, runs, session, lane>> => RowsLayer' BY RowsSame, SameWindow
<1>1. CASE UNCHANGED vars BY <1>0, <1>1 DEF vars, db
<1>2. ASSUME NEW o \in Owners, NEW w \in Windows, Claim(o, w) PROVE RowsLayer' BY <1>2, RowsClaim
<1>3. ASSUME NEW c \in Claims, Coordinate(c) \/ Heartbeat(c) \/ CoordinatorFault(c) PROVE RowsLayer'
  BY <1>3, RowsCoordinator
<1>4. ASSUME NEW c \in Claims, NEW l \in Lanes, Advance(c, l) \/ Run(c, l) \/ LaneFault(c, l)
      PROVE  RowsLayer'
  BY <1>4, RowsThread
<1>5. ASSUME NEW s \in Stages, NEW status \in {"READY", "BLOCKED"}, ResidentTick(s, status)
      PROVE  RowsLayer'
  BY <1>0, <1>5 DEF ResidentTick
<1>6. ASSUME NEW w \in Windows, MarkUnavailable(w) PROVE RowsLayer' BY <1>6, RowsUnavailable
<1>7. ASSUME NEW o \in Owners, Crash(o) PROVE RowsLayer' BY <1>7, RowsCrash
<1>8. CASE Tick BY <1>0, <1>8 DEF Tick, db
<1> QED BY <1>1, <1>2, <1>3, <1>4, <1>5, <1>6, <1>7, <1>8 DEF Next

IInv == LocalInv /\ OrderInv /\ RowsLayer

\* The three layers together are an inductive invariant.
LEMMA InvariantHolds == Spec => []IInv
<1>1. Init => IInv BY LocalInit, OrderInit, RowsInit DEF IInv
<1>2. IInv /\ [Next]_vars => IInv' BY LocalNext, OrderNext, RowsNext DEF IInv
<1> QED BY <1>1, <1>2, PTL DEF Spec

\* No stage of a window ever has two attempts RUNNING at once, however claims,
\* crashes, timeouts and abandoned threads of any number of processes interleave.
THEOREM RunningAttemptUnique == Spec => []OneRunningAttempt
<1>1. IInv => OneRunningAttempt BY RowsUnique DEF IInv, RowsLayer
<1> QED BY <1>1, InvariantHolds, PTL

-----------------------------------------------------------------------------
(* The attempt that executes, from the rows of a stage.                      *)

\* The one RUNNING attempt is the executing one, and without one there is none.
LEMMA ExecutingNow ==
  ASSUME NEW k \in Work, RowsOK(runs[k[1]][k[2]])
  PROVE  /\ Idle(runs[k[1]][k[2]]) => ExecutingAttempt(k) = 0
         /\ \A a \in 1..Len(runs[k[1]][k[2]]) :
              runs[k[1]][k[2]][a].state = "RUNNING" => ExecutingAttempt(k) = a
<1> DEFINE q == runs[k[1]][k[2]]
<1>1. Idle(q) => ExecutingAttempt(k) = 0 BY DEF ExecutingAttempt, Idle, Running, Attempts
<1>2. ASSUME NEW a \in 1..Len(q), q[a].state = "RUNNING" PROVE ExecutingAttempt(k) = a
  <2>1. \A b \in 1..Len(q) : q[b].state = "RUNNING" => b = a BY <1>2 DEF RowsOK
  <2>2. \A b \in 1..Attempts(k[1], k[2]) : Running(k[1], k[2], b) <=> b = a
    BY <1>2, <2>1 DEF Running, Attempts
  <2>3. a \in 1..Attempts(k[1], k[2]) BY <1>2 DEF Attempts
  <2> QED BY <2>2, <2>3 DEF ExecutingAttempt
<1> QED BY <1>1, <1>2

\* The same of the rows after a step.
LEMMA ExecutingNext ==
  ASSUME NEW k \in Work, RowsOK(runs'[k[1]][k[2]])
  PROVE  /\ Idle(runs'[k[1]][k[2]]) => ExecutingAttempt(k)' = 0
         /\ \A a \in 1..Len(runs'[k[1]][k[2]]) :
              runs'[k[1]][k[2]][a].state = "RUNNING" => ExecutingAttempt(k)' = a
<1> DEFINE q == runs'[k[1]][k[2]]
<1>1. Idle(q) => ExecutingAttempt(k)' = 0 BY DEF ExecutingAttempt, Idle, Running, Attempts
<1>2. ASSUME NEW a \in 1..Len(q), q[a].state = "RUNNING" PROVE ExecutingAttempt(k)' = a
  <2>1. \A b \in 1..Len(q) : q[b].state = "RUNNING" => b = a BY <1>2 DEF RowsOK
  <2>2. \A b \in 1..Attempts(k[1], k[2])' : Running(k[1], k[2], b)' <=> b = a
    BY <1>2, <2>1 DEF Running, Attempts
  <2>3. a \in 1..Attempts(k[1], k[2])' BY <1>2 DEF Attempts
  <2> QED BY <2>2, <2>3 DEF ExecutingAttempt
<1> QED BY <1>1, <1>2

\* A step of the tables, work by work, is a step of the abstract state.
LEMMA WorkParts == ASSUME NEW k \in Work PROVE k[1] \in Windows /\ k[2] \in Stages /\ k = <<k[1], k[2]>>
  BY DEF Work

-----------------------------------------------------------------------------
(* The steps of the abstract specification.                                  *)

\* Attempts are recorded that are not executed.
LEMMA Records ==
  ASSUME NEW K \in SUBSET Work, UNCHANGED written,
         \A k \in Work : Attempts(k[1], k[2])'
                           = IF k \in K THEN Attempts(k[1], k[2]) + 1 ELSE Attempts(k[1], k[2]),
         \A k \in Work : ExecutingAttempt(k)' = ExecutingAttempt(k)
  PROVE  Exclusive!Next
<1>1. Exclusive!Record(K) BY DEF Exclusive!Record, Work
<1> QED BY <1>1 DEF Exclusive!Next

\* Executions stop.
LEMMA Stops ==
  ASSUME NEW K \in SUBSET Work, UNCHANGED written,
         \A k \in Work : Attempts(k[1], k[2])' = Attempts(k[1], k[2]),
         \A k \in Work : ExecutingAttempt(k)' = IF k \in K THEN 0 ELSE ExecutingAttempt(k)
  PROVE  Exclusive!Next
<1>1. Exclusive!Stop(K) BY DEF Exclusive!Stop, Work
<1> QED BY <1>1 DEF Exclusive!Next

\* An attempt begins.
LEMMA Begins ==
  ASSUME NEW j \in Work, UNCHANGED written, ExecutingAttempt(j) = 0,
         \A k \in Work : Attempts(k[1], k[2])'
                           = IF k = j THEN Attempts(k[1], k[2]) + 1 ELSE Attempts(k[1], k[2]),
         \A k \in Work : ExecutingAttempt(k)'
                           = IF k = j THEN Attempts(j[1], j[2]) + 1 ELSE ExecutingAttempt(k)
  PROVE  Exclusive!Next
<1>1. Exclusive!Begin(j) BY DEF Exclusive!Begin, Work
<1> QED BY <1>1 DEF Exclusive!Next

\* The executing attempt writes.
LEMMA Writes ==
  ASSUME NEW j \in Work, UNCHANGED runs, ExecutingAttempt(j) # 0,
         \A k \in Work : written'[k[1]][k[2]]
                           = IF k = j THEN ExecutingAttempt(j) ELSE written[k[1]][k[2]]
  PROVE  Exclusive!Next
<1>1. /\ \A k \in Work : Attempts(k[1], k[2])' = Attempts(k[1], k[2])
      /\ \A k \in Work : ExecutingAttempt(k)' = ExecutingAttempt(k)
  BY DEF Attempts, ExecutingAttempt, Running
<1>2. Exclusive!Write(j) BY <1>1 DEF Exclusive!Write, Work
<1> QED BY <1>2 DEF Exclusive!Next

\* Nothing of it changes.
LEMMA Leaves ==
  ASSUME UNCHANGED <<runs, written>> PROVE UNCHANGED Exclusive!vars
<1>1. /\ \A k \in Work : Attempts(k[1], k[2])' = Attempts(k[1], k[2])
      /\ \A k \in Work : ExecutingAttempt(k)' = ExecutingAttempt(k)
  BY DEF Attempts, ExecutingAttempt, Running
<1> QED BY <1>1 DEF Exclusive!vars, Work

-----------------------------------------------------------------------------
(* What each change of the tables is to the abstract state.                  *)

\* A work whose rows stay keeps its attempt.
LEMMA SameRows ==
  ASSUME NEW k \in Work, runs'[k[1]][k[2]] = runs[k[1]][k[2]]
  PROVE  /\ Attempts(k[1], k[2])' = Attempts(k[1], k[2])
         /\ ExecutingAttempt(k)' = ExecutingAttempt(k)
  BY DEF Attempts, ExecutingAttempt, Running

\* A row that is not RUNNING is a record.
LEMMA InsertRecords ==
  ASSUME LocalInv, RowsInv, RowsInv', NEW w \in Windows, NEW s \in Stages, NEW row \in RunRows,
         runs' = Insert(w, s, row), row.state # "RUNNING", UNCHANGED written
  PROVE  Exclusive!Next
<1> DEFINE j == <<w, s>>
           q == runs[w][s]
           p == runs'[w][s]
<1>1. \A v \in Windows, t \in Stages :
        runs'[v][t] = IF v = w /\ t = s THEN Append(q, row) ELSE runs[v][t]
  BY InsertType
<1>2. p = Append(q, row) /\ q \in Seq(RunRows) BY <1>1, TablesTyped
<1>3. /\ Len(p) = Len(q) + 1 /\ Len(q) \in Nat /\ p[Len(q) + 1] = row
      /\ \A a \in 1..Len(q) : p[a] = q[a]
  BY <1>2
<1>4. j \in Work /\ j[1] = w /\ j[2] = s BY DEF Work
<1>5. RowsOK(q) /\ RowsOK(p) BY DEF RowsInv, RowsOK
<1>6. ExecutingAttempt(j)' = ExecutingAttempt(j)
  <2>1. CASE Idle(q)
    <3>1. Idle(p)
      <4> HIDE DEF p, q
      <4> QED BY <1>3, <2>1 DEF Idle
    <3>2. ExecutingAttempt(j) = 0 BY <1>4, <1>5, <2>1, ExecutingNow
    <3>3. ExecutingAttempt(j)' = 0 BY <1>4, <1>5, <3>1, ExecutingNext
    <3> QED BY <3>2, <3>3
  <2>2. ASSUME NEW a \in 1..Len(q), q[a].state = "RUNNING"
        PROVE  ExecutingAttempt(j)' = ExecutingAttempt(j)
    <3>1. ExecutingAttempt(j) = a BY <1>4, <1>5, <2>2, ExecutingNow
    <3>2. a \in 1..Len(p) /\ p[a].state = "RUNNING"
      <4> HIDE DEF p, q
      <4> QED BY <1>3, <2>2
    <3>3. ExecutingAttempt(j)' = a BY <1>4, <1>5, <3>2, ExecutingNext
    <3> QED BY <3>1, <3>3
  <2> QED BY <2>1, <2>2 DEF Idle
<1>7. Attempts(w, s)' = Attempts(w, s) + 1 BY <1>3 DEF Attempts
<1>8. \A k \in Work : k # j => runs'[k[1]][k[2]] = runs[k[1]][k[2]] BY <1>1, WorkParts
<1> DEFINE K == {j}
<1>9. K \in SUBSET Work BY <1>4
<1>10. \A k \in Work : /\ Attempts(k[1], k[2])'
                            = IF k \in K THEN Attempts(k[1], k[2]) + 1 ELSE Attempts(k[1], k[2])
                       /\ ExecutingAttempt(k)' = ExecutingAttempt(k)
  BY <1>4, <1>6, <1>7, <1>8, SameRows
<1> HIDE DEF K
<1> QED BY <1>9, <1>10, Records

\* A RUNNING row, where none is RUNNING, begins an attempt.
LEMMA InsertBegins ==
  ASSUME LocalInv, RowsInv, RowsInv', NEW w \in Windows, NEW s \in Stages, Idle(runs[w][s]),
         runs' = Insert(w, s, NewRow("RUNNING")), UNCHANGED written
  PROVE  Exclusive!Next
<1> DEFINE j == <<w, s>>
           q == runs[w][s]
           p == runs'[w][s]
           row == NewRow("RUNNING")
<1>1. row \in RunRows /\ row.state = "RUNNING" BY Rows DEF NewRow
<1> HIDE DEF row
<1>2. \A v \in Windows, t \in Stages :
        runs'[v][t] = IF v = w /\ t = s THEN Append(q, row) ELSE runs[v][t]
  BY <1>1, InsertType DEF row
<1>3. p = Append(q, row) /\ q \in Seq(RunRows) BY <1>2, TablesTyped
<1>4. Len(p) = Len(q) + 1 /\ Len(q) \in Nat /\ p[Len(q) + 1] = row BY <1>3
<1>5. j \in Work /\ j[1] = w /\ j[2] = s BY DEF Work
<1>6. RowsOK(q) /\ RowsOK(p) BY DEF RowsInv, RowsOK
<1>7. ExecutingAttempt(j) = 0 BY <1>5, <1>6, ExecutingNow
<1>8. ExecutingAttempt(j)' = Attempts(w, s) + 1
  <2>1. Len(q) + 1 \in 1..Len(p) /\ p[Len(q) + 1].state = "RUNNING"
    <3> HIDE DEF p, q
    <3> QED BY <1>1, <1>4
  <2>2. ExecutingAttempt(j)' = Len(q) + 1 BY <1>5, <1>6, <2>1, ExecutingNext
  <2> QED BY <2>2 DEF Attempts
<1>9. Attempts(w, s)' = Attempts(w, s) + 1 BY <1>4 DEF Attempts
<1>10. \A k \in Work : k # j => runs'[k[1]][k[2]] = runs[k[1]][k[2]] BY <1>2, WorkParts
<1>11. \A k \in Work :
         /\ Attempts(k[1], k[2])'
              = IF k = j THEN Attempts(k[1], k[2]) + 1 ELSE Attempts(k[1], k[2])
         /\ ExecutingAttempt(k)' = IF k = j THEN Attempts(j[1], j[2]) + 1 ELSE ExecutingAttempt(k)
  BY <1>5, <1>8, <1>9, <1>10, SameRows
<1> HIDE DEF j
<1> QED BY <1>5, <1>7, <1>11, Begins

\* Failing RUNNING rows stops them.
LEMMA FailStops ==
  ASSUME LocalInv, RowsInv, RowsInv', NEW w \in Windows, NEW stages, NEW lost \in BOOLEAN,
         runs' = FailRunning(w, stages, lost), UNCHANGED written
  PROVE  Exclusive!Next
<1> DEFINE K == {k \in Work : k[1] = w /\ k[2] \in stages}
<1>1. ASSUME NEW k \in K
      PROVE  Attempts(k[1], k[2])' = Attempts(k[1], k[2]) /\ ExecutingAttempt(k)' = 0
  <2> DEFINE q == runs[w][k[2]]
             p == runs'[w][k[2]]
  <2>1. k \in Work /\ k[1] = w /\ k[2] \in stages /\ k[2] \in Stages BY WorkParts
  <2>2. /\ Len(p) = Len(q)
        /\ \A a \in 1..Len(q) : IF Running(w, k[2], a) THEN p[a].state = "FAILED" ELSE p[a] = q[a]
    BY <2>1, FailRunningType
  <2>3. \A a \in 1..Len(q) : Running(w, k[2], a) <=> q[a].state = "RUNNING"
    BY DEF Running, Attempts
  <2>4. Idle(p)
    <3> HIDE DEF p, q
    <3> QED BY <2>2, <2>3 DEF Idle
  <2>5. RowsOK(p) BY <2>1 DEF RowsInv, RowsOK
  <2>6. ExecutingAttempt(k)' = 0 BY <2>1, <2>4, <2>5, ExecutingNext
  <2> QED BY <2>1, <2>2, <2>6 DEF Attempts
<1>2. ASSUME NEW k \in Work, k \notin K
      PROVE  /\ Attempts(k[1], k[2])' = Attempts(k[1], k[2])
             /\ ExecutingAttempt(k)' = ExecutingAttempt(k)
  <2>1. runs'[k[1]][k[2]] = runs[k[1]][k[2]] BY <1>2, WorkParts, FailRunningType
  <2> QED BY <2>1, SameRows
<1>3. \A k \in Work : /\ Attempts(k[1], k[2])' = Attempts(k[1], k[2])
                      /\ ExecutingAttempt(k)' = IF k \in K THEN 0 ELSE ExecutingAttempt(k)
  BY <1>1, <1>2
<1>4. K \in SUBSET Work OBVIOUS
<1> HIDE DEF K
<1> QED BY <1>3, <1>4, Stops

\* finish_stage stops its attempt.
LEMMA FinishStops ==
  ASSUME LocalInv, RowsInv, RowsInv', NEW w \in Windows, NEW s \in Stages, NEW row,
         NEW a, Running(w, s, a), row.state # "RUNNING", runs' = [runs EXCEPT ![w][s][a] = row],
         UNCHANGED written
  PROVE  Exclusive!Next
<1> DEFINE j == <<w, s>>
           q == runs[w][s]
           p == runs'[w][s]
<1>1. runs \in [Windows -> [Stages -> Seq(RunRows)]] BY TablesTyped
<1>2. \A v \in Windows, t \in Stages :
        runs'[v][t] = IF v = w /\ t = s THEN [q EXCEPT ![a] = row] ELSE runs[v][t]
  BY <1>1
<1>3. p = [q EXCEPT ![a] = row] /\ q \in Seq(RunRows) BY <1>1, <1>2
<1>4. a \in 1..Len(q) /\ q[a].state = "RUNNING" BY DEF Running, Attempts
<1>5. j \in Work /\ j[1] = w /\ j[2] = s BY DEF Work
<1>6. RowsOK(q) /\ RowsOK(p) BY DEF RowsInv, RowsOK
<1>7. Idle(p) /\ Len(p) = Len(q)
  <2>1. Len(p) = Len(q) BY <1>3, <1>4
  <2>2. Idle([q EXCEPT ![a] = row])
    <3> HIDE DEF p, q
    <3> QED BY <1>3, <1>4, <1>6, StopRow
  <2> HIDE DEF p, q
  <2> QED BY <1>3, <2>1, <2>2
<1>8. ExecutingAttempt(j)' = 0 /\ Attempts(w, s)' = Attempts(w, s)
  BY <1>5, <1>6, <1>7, ExecutingNext DEF Attempts
<1>9. \A k \in Work : k # j => runs'[k[1]][k[2]] = runs[k[1]][k[2]] BY <1>2, WorkParts
<1> DEFINE K == {j}
<1>10. K \in SUBSET Work BY <1>5
<1>11. \A k \in Work : /\ Attempts(k[1], k[2])' = Attempts(k[1], k[2])
                       /\ ExecutingAttempt(k)' = IF k \in K THEN 0 ELSE ExecutingAttempt(k)
  BY <1>5, <1>8, <1>9, SameRows
<1> HIDE DEF K
<1> QED BY <1>10, <1>11, Stops

\* Closing an unavailable window records an attempt of each of its stages.
LEMMA UnavailableRecords ==
  ASSUME LocalInv, RowsInv, RowsInv', NEW w \in Windows, MarkUnavailable(w) PROVE Exclusive!Next
<1> DEFINE K == {k \in Work : k[1] = w /\ k[2] \in Enabled}
           row == NewRow("UNAVAILABLE")
<1>1. \A v \in Windows, t \in Stages :
        runs'[v][t] = IF v = w THEN IF t \in Enabled THEN <<row>> ELSE <<>> ELSE runs[v][t]
  BY TablesTyped DEF MarkUnavailable
<1>2. UNCHANGED written /\ \A t \in Stages : runs[w][t] = <<>> BY DEF MarkUnavailable
<1>3. row.state # "RUNNING" BY DEF NewRow
<1> HIDE DEF row
<1>4. Idle(<<>>) /\ Idle(<<row>>) BY <1>3 DEF Idle
<1>5. ASSUME NEW k \in K
      PROVE  /\ Attempts(k[1], k[2])' = Attempts(k[1], k[2]) + 1
             /\ ExecutingAttempt(k)' = ExecutingAttempt(k)
  <2>1. /\ k \in Work /\ k[1] = w /\ k[2] \in Enabled /\ k[2] \in Stages /\ k[1] \in Windows
    BY WorkParts
  <2>2. runs[k[1]][k[2]] = <<>> /\ runs'[k[1]][k[2]] = <<row>> BY <1>1, <1>2, <2>1
  <2>3. RowsOK(runs[k[1]][k[2]]) /\ RowsOK(runs'[k[1]][k[2]]) BY <2>1 DEF RowsInv, RowsOK
  <2>4. ExecutingAttempt(k) = 0 BY <1>4, <2>1, <2>2, <2>3, ExecutingNow
  <2>5. ExecutingAttempt(k)' = 0 BY <1>4, <2>1, <2>2, <2>3, ExecutingNext
  <2> QED BY <2>2, <2>4, <2>5 DEF Attempts
<1>6. ASSUME NEW k \in Work, k \notin K
      PROVE  /\ Attempts(k[1], k[2])' = Attempts(k[1], k[2])
             /\ ExecutingAttempt(k)' = ExecutingAttempt(k)
  <2>1. runs'[k[1]][k[2]] = runs[k[1]][k[2]] BY <1>1, <1>2, <1>6, WorkParts
  <2> QED BY <2>1, SameRows
<1>7. \A k \in Work : /\ Attempts(k[1], k[2])'
                           = IF k \in K THEN Attempts(k[1], k[2]) + 1 ELSE Attempts(k[1], k[2])
                      /\ ExecutingAttempt(k)' = ExecutingAttempt(k)
  BY <1>5, <1>6
<1>8. K \in SUBSET Work OBVIOUS
<1> HIDE DEF K
<1> QED BY <1>2, <1>7, <1>8, Records

\* The commit fence lets the executing attempt write, and no other.
LEMMA CommitWrites ==
  ASSUME LocalInv, RowsInv, NEW c \in Claims, NEW l \in Lanes, CommitTransaction(c, l)
  PROVE  Exclusive!Next \/ UNCHANGED Exclusive!vars
<1> DEFINE s == lane[c][l].stage
           a == lane[c][l].attempt
           j == <<c[1], s>>
<1>1. CASE UNCHANGED written BY <1>1, Leaves DEF CommitTransaction
<1>2. CASE ~UNCHANGED written
  <2>1. /\ Mine(c, l) /\ UNCHANGED runs
        /\ written' = [written EXCEPT ![c[1]][s] = a]
    BY <1>2 DEF CommitTransaction
  <2>2. s \in Stages /\ c[1] \in Windows
    <3>1. JobOK(l, lane[c][l]) /\ lane[c][l].pc = "tx" BY DEF LocalInv, CommitTransaction
    <3> QED BY <3>1, Parameters, ClaimParts DEF JobOK, Working
  <2>3. a \in 1..Len(runs[c[1]][s]) /\ runs[c[1]][s][a].state = "RUNNING"
    BY <2>1 DEF Mine, Running, Attempts
  <2>4. j \in Work /\ j[1] = c[1] /\ j[2] = s BY <2>2 DEF Work
  <2>5. RowsOK(runs[j[1]][j[2]]) BY <2>2, <2>4 DEF RowsInv
  <2>6. ExecutingAttempt(j) = a
    <3> HIDE DEF j, a, s
    <3> QED BY <2>3, <2>4, <2>5, ExecutingNow
  <2>7. a # 0
    <3>1. runs[c[1]][s] \in Seq(RunRows) BY <2>2, TablesTyped
    <3> HIDE DEF a, s
    <3> QED BY <2>3, <3>1
  <2>8. \A k \in Work : written'[k[1]][k[2]]
                          = IF k = j THEN ExecutingAttempt(j) ELSE written[k[1]][k[2]]
    <3>1. written \in [Windows -> [Stages -> Nat]] BY TablesTyped
    <3>2. \A v \in Windows, t \in Stages :
            written'[v][t] = IF v = c[1] /\ t = s THEN a ELSE written[v][t]
      <4> HIDE DEF s, a
      <4> QED BY <2>1, <2>2, <3>1
    <3> HIDE DEF s, a
    <3> QED BY <2>2, <2>6, <3>2, WorkParts
  <2> HIDE DEF j
  <2> QED BY <2>1, <2>4, <2>6, <2>7, <2>8, Writes
<1> QED BY <1>1, <1>2

-----------------------------------------------------------------------------
(* The refinement.                                                           *)

AbstractStep == Exclusive!Next \/ UNCHANGED Exclusive!vars

\* A thread step is an abstract step: start_stage begins an attempt,
\* record_blocked records one, finish_stage stops one, a commit writes.
LEMMA ThreadRefines ==
  ASSUME IInv, IInv', NEW c \in Claims, NEW l \in Lanes,
         Advance(c, l) \/ Run(c, l) \/ LaneFault(c, l)
  PROVE  AbstractStep
<1> DEFINE s == lane[c][l].stage
<1>0. LocalInv /\ RowsInv /\ RowsInv' /\ ClearToInsert BY DEF IInv, RowsLayer
<1>1. c[1] \in Windows /\ (lane[c][l].pc \in Working => s \in Stages)
  <2>1. JobOK(l, lane[c][l]) BY <1>0 DEF LocalInv
  <2> QED BY <2>1, Parameters, ClaimParts DEF JobOK
<1>2. CASE UNCHANGED <<runs, written>> BY <1>2, Leaves DEF AbstractStep
<1>3. CASE CommitTransaction(c, l) BY <1>0, <1>3, CommitWrites DEF AbstractStep
<1>4. CASE LaneBlock(c, l) /\ ~UNCHANGED runs
  <2>1. lane[c][l].pc = "block" /\ runs' = Insert(c[1], s, NewRow("BLOCKED_PREREQ")) /\ UNCHANGED written
    BY <1>4 DEF LaneBlock
  <2>2. NewRow("BLOCKED_PREREQ") \in RunRows /\ NewRow("BLOCKED_PREREQ").state # "RUNNING"
    BY Rows DEF NewRow
  <2>3. s \in Stages BY <1>1, <2>1 DEF Working
  <2> QED BY <1>0, <1>1, <2>1, <2>2, <2>3, InsertRecords DEF AbstractStep
<1>5. CASE LaneStart(c, l) /\ ~UNCHANGED runs
  <2>1. /\ lane[c][l].pc = "start" /\ Held(c) /\ UNCHANGED written
        /\ runs' = Insert(c[1], s, NewRow("RUNNING"))
    BY <1>5 DEF LaneStart
  <2>2. Idle(runs[c[1]][s]) BY <1>0, <2>1 DEF ClearToInsert
  <2>3. s \in Stages BY <1>1, <2>1 DEF Working
  <2> QED BY <1>0, <1>1, <2>1, <2>2, <2>3, InsertBegins DEF AbstractStep
<1>6. CASE LaneFinish(c, l) /\ ~UNCHANGED runs
  <2> DEFINE j == lane[c][l]
             at == IF j.outcome = "DEFERRED" THEN Least(now + RetryDelay, Deadline[c[1]]) ELSE 0
             row == [NewRow(j.outcome) EXCEPT !.retryAt = at]
  <2>1. /\ j.pc = "finish" /\ Mine(c, l) /\ UNCHANGED written
        /\ runs' = [runs EXCEPT ![c[1]][s][j.attempt] = row]
    BY <1>6 DEF LaneFinish
  <2>2. j.outcome \in RunOutcomes
    <3>1. JobOK(l, j) BY <1>0 DEF LocalInv
    <3> QED BY <2>1, <3>1 DEF JobOK
  <2>3. row.state # "RUNNING"
    <3> HIDE DEF at
    <3> QED BY <2>2 DEF NewRow, RunOutcomes
  <2>4. s \in Stages /\ Running(c[1], s, j.attempt) BY <1>1, <2>1 DEF Working, Mine
  <2> HIDE DEF row, j, s
  <2> QED BY <1>0, <1>1, <2>1, <2>3, <2>4, FinishStops DEF AbstractStep
<1> QED BY <1>2, <1>3, <1>4, <1>5, <1>6
        DEF Advance, Run, LaneIdle, LaneDecide, LaneBlock, LaneStart, LaneReceipt, LaneFinish,
            LaneAdvance, LaneReadiness, OpenTransaction, RunnerReturns, LaneFault, db

\* A coordinator step is one: orphans and overrun lanes are stopped, and a
\* MISSED stage is recorded.
LEMMA CoordinatorRefines ==
  ASSUME IInv, IInv', NEW c \in Claims, Coordinate(c) \/ Heartbeat(c) \/ CoordinatorFault(c)
  PROVE  AbstractStep
<1>0. LocalInv /\ RowsInv /\ RowsInv' BY DEF IInv, RowsLayer
<1>1. CASE UNCHANGED <<runs, written>> BY <1>1, Leaves DEF AbstractStep
<1>2. CASE ~UNCHANGED <<runs, written>>
  <2>1. /\ UNCHANGED written
        /\ \/ runs' = FailRunning(c[1], Stages, TRUE)
           \/ \E stages : runs' = FailRunning(c[1], stages, FALSE)
           \/ /\ session[c].pc = "miss"
              /\ \E s \in session[c].todo : runs' = Insert(c[1], s, NewRow("MISSED"))
    BY <1>2 DEF Coordinate, Recover, BeginRound, CancelOverrun, TimeOutLanes, EndRound, Conclude,
                RecordMissed, Reread, CloseWindow, Heartbeat, CoordinatorFault, db
  <2>2. ASSUME NEW stages, NEW lost \in BOOLEAN, runs' = FailRunning(c[1], stages, lost)
        PROVE  AbstractStep
    BY <1>0, <2>1, <2>2, FailStops, ClaimParts DEF AbstractStep
  <2>3. ASSUME session[c].pc = "miss", NEW s \in session[c].todo,
               runs' = Insert(c[1], s, NewRow("MISSED"))
        PROVE  AbstractStep
    <3>1. s \in Stages BY <1>0, <2>3, Parameters DEF LocalInv, SessionOK
    <3>2. NewRow("MISSED") \in RunRows /\ NewRow("MISSED").state # "RUNNING" BY Rows DEF NewRow
    <3> QED BY <1>0, <2>1, <2>3, <3>1, <3>2, InsertRecords, ClaimParts DEF AbstractStep
  <2>4. TRUE \in BOOLEAN /\ FALSE \in BOOLEAN OBVIOUS
  <2> QED BY <2>1, <2>2, <2>3, <2>4, Zenon
<1> QED BY <1>1, <1>2

\* Every step is an abstract step.
LEMMA StepRefines == IInv /\ IInv' /\ [Next]_vars => AbstractStep
<1> SUFFICES ASSUME IInv, IInv', [Next]_vars PROVE AbstractStep OBVIOUS
<1>0. UNCHANGED <<runs, written>> => AbstractStep BY Leaves DEF AbstractStep
<1>1. CASE UNCHANGED vars BY <1>0, <1>1 DEF vars, db
<1>2. ASSUME NEW o \in Owners, NEW w \in Windows, Claim(o, w) PROVE AbstractStep
  BY <1>0, <1>2 DEF Claim
<1>3. ASSUME NEW c \in Claims, Coordinate(c) \/ Heartbeat(c) \/ CoordinatorFault(c)
      PROVE  AbstractStep
  BY <1>3, CoordinatorRefines
<1>4. ASSUME NEW c \in Claims, NEW l \in Lanes, Advance(c, l) \/ Run(c, l) \/ LaneFault(c, l)
      PROVE  AbstractStep
  BY <1>4, ThreadRefines
<1>5. ASSUME NEW s \in Stages, NEW status \in {"READY", "BLOCKED"}, ResidentTick(s, status)
      PROVE  AbstractStep
  BY <1>0, <1>5 DEF ResidentTick
<1>6. ASSUME NEW w \in Windows, MarkUnavailable(w) PROVE AbstractStep
  BY <1>6, UnavailableRecords DEF IInv, RowsLayer, AbstractStep
<1>7. ASSUME NEW o \in Owners, Crash(o) PROVE AbstractStep BY <1>0, <1>7 DEF Crash, db
<1>8. CASE Tick BY <1>0, <1>8 DEF Tick, db
<1> QED BY <1>1, <1>2, <1>3, <1>4, <1>5, <1>6, <1>7, <1>8 DEF Next

\* However claims, crashes, timeouts and abandoned threads interleave, the
\* attempts of a stage are executed one at a time, and only the one that is
\* executing writes the stage's data.
THEOREM Refinement == Spec => ImplementsExclusiveExecution
<1>1. Init => Exclusive!Init
  <2> SUFFICES ASSUME Init PROVE Exclusive!Init OBVIOUS
  <2>1. \A w \in Windows, s \in Stages : runs[w][s] = <<>> /\ written[w][s] = 0 BY DEF Init
  <2>2. \A k \in Work : /\ Attempts(k[1], k[2]) = 0 /\ ExecutingAttempt(k) = 0
                        /\ written[k[1]][k[2]] = 0
    BY <2>1, WorkParts DEF Attempts, ExecutingAttempt, Running
  <2> QED BY <2>2 DEF Exclusive!Init
<1>2. IInv /\ IInv' /\ [Next]_vars => [Exclusive!Next]_Exclusive!vars
  BY StepRefines DEF AbstractStep
<1> QED BY <1>1, <1>2, InvariantHolds, PTL DEF Spec, Exclusive!Spec, ImplementsExclusiveExecution
=============================================================================
