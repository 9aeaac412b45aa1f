------------------------- MODULE WindowOrchestration -------------------------
(* Orchestrator processes that share the window and stage-run tables.  A      *)
(* process claims a due window under a lease, runs its stages in one thread   *)
(* per execution lane, and concludes it.  One action is one database          *)
(* transaction, or one step of a thread between two transactions              *)
(* (backend/realtime/stage_orchestrator.py over orchestration_repository.py). *)
EXTENDS StageGraph, Sequences

CONSTANTS
  Enabled,         \* stages in the approved service plan
  Windows,         \* windows of the session; a window stands for its cutoff
  ReleaseAt,       \* [Windows -> Nat]
  Deadline,        \* [Windows -> Nat]
  LaneOffset,      \* [lane -> seconds after release a lane's stages must end by]
  Owners,          \* orchestrator processes (a restarted process is a new one)
  LeaseSeconds, RetryDelay, MaxAttempts, MaxLaneSeconds, LaneGrace,
  WritingStages,   \* stages whose runner writes data of its own
  ReceiptStages,   \* stages whose COMPLETE outcome may carry a cycle receipt
  ReleaseStages,   \* those whose receipt advances the release pointer
  Contents,        \* what a receipt binds (its input and universe digests)
  Outcomes,        \* what a stage runner may report
  Failures,        \* which of "crash", "call", "thread" may happen: a process
                   \* dies, or a repository call of a coordinator, or of a
                   \* lane thread, raises
  None,            \* no owner, no content
  MaxEpoch,        \* bound: claims of one window
  MaxTime          \* bound: the clock

ASSUME OrchestrationAssumption ==
  /\ Enabled \subseteq Stages
  /\ Windows \subseteq Nat \ {0}
  /\ ReleaseAt \in [Windows -> Nat]
  /\ Deadline \in [Windows -> Nat]
  /\ LaneOffset \in [{LaneOf[s] : s \in Stages} -> Nat]
  /\ {LeaseSeconds, MaxAttempts, RetryDelay} \subseteq Nat \ {0}
  /\ {MaxLaneSeconds, LaneGrace, MaxEpoch, MaxTime} \subseteq Nat
  /\ WritingStages \subseteq Stages
  /\ ReleaseStages \subseteq ReceiptStages /\ ReceiptStages \subseteq Stages
  /\ None \notin Owners \cup Contents \cup Stages
  /\ Outcomes \subseteq {"COMPLETE", "FAILED", "BLOCKED_POLICY", "DEFERRED"}

VARIABLES
  now,       \* the clock every process reads
  up,        \* processes that have not crashed
  window,    \* rt.window_runs
  runs,      \* rt.stage_runs: the attempts of a stage in a window, in order
  receipt,   \* rt.cycle_receipts: content stored for a window and kind
  release,   \* rt.release_current
  ready,     \* rt.stage_readiness_current
  written,   \* stage data: the attempt that committed last
  session,   \* run_window calls, one per claim: the coordinator's locals
  lane       \* the lane threads of each claim

db == <<window, runs, receipt, release, ready, written>>
vars == <<now, up, db, session, lane>>

WindowStages == Enabled \ Resident
Lanes == LanesRequired(WindowStages)
Epochs == 1..MaxEpoch
Claims == Windows \X Epochs
OwnedWindowStates == {"COMPLETE", "FAILED", "MISSED"}
TerminalWindowStates == OwnedWindowStates \cup {"UNAVAILABLE"}
RunStates == TerminalStates \cup {"RUNNING", "DEFERRED"}

NewRow(state) == [state |-> state, ownerLost |-> FALSE, retryAt |-> 0]
NoJob == [pc |-> "off", stage |-> None, attempt |-> 0, outcome |-> Absent,
          content |-> None, held |-> FALSE, progressed |-> FALSE]
NoSession == [pc |-> "none", owner |-> None, active |-> {}, cancelled |-> {},
              abandoned |-> {}, ends |-> [l \in Lanes |-> 0], todo |-> {},
              final |-> Absent]

Init ==
  /\ now = 0
  /\ up = Owners
  /\ window = [w \in Windows |->
                [state |-> "PENDING", owner |-> None, epoch |-> 0, lease |-> 0]]
  /\ runs = [w \in Windows |-> [s \in Stages |-> <<>>]]
  /\ receipt = [w \in Windows |-> [s \in ReceiptStages |-> None]]
  /\ release = [cutoff |-> 0, stage |-> None]
  /\ ready = [s \in Stages |-> Absent]
  /\ written = [w \in Windows |-> [s \in Stages |-> 0]]
  /\ session = [c \in Claims |-> NoSession]
  /\ lane = [c \in Claims |-> [l \in Lanes |-> NoJob]]

-----------------------------------------------------------------------------
(* The repository: what one transaction reads or requires.                   *)

\* _fence: the window is still RUNNING under this claim.
Held(c) ==
  /\ window[c[1]].state = "RUNNING"
  /\ window[c[1]].epoch = c[2]
  /\ window[c[1]].owner = session[c].owner

Attempts(w, s) == Len(runs[w][s])
Latest(w, s) == runs[w][s][Attempts(w, s)]
LatestState(w, s) == IF runs[w][s] = <<>> THEN Absent ELSE Latest(w, s).state

\* fence_stage_run: this attempt of the stage is still RUNNING.
Running(w, s, a) == a \in 1..Attempts(w, s) /\ runs[w][s][a].state = "RUNNING"

\* A crashed attempt below the attempt limit is retried as a new one.
OrphanRetry(w, s) ==
  /\ LatestState(w, s) = "FAILED"
  /\ Latest(w, s).ownerLost
  /\ Attempts(w, s) < MaxAttempts

DeferredRetry(w, s) ==
  /\ LatestState(w, s) = "DEFERRED"
  /\ Attempts(w, s) < MaxAttempts
  /\ Latest(w, s).retryAt <= now

\* Deliberate error: a crashed attempt counts as failed for its dependents.
OrphansCountAsFailed(w) ==
  [s \in Stages |->
     IF DeferredRetry(w, s) THEN Absent
     ELSE IF LatestState(w, s) = "DEFERRED" THEN "RUNNING"
     ELSE LatestState(w, s)]

\* _decision_states: retried attempts are left out, waiting ones count as RUNNING.
DecisionStates(w) ==
  [s \in Stages |->
     IF OrphanRetry(w, s) \/ DeferredRetry(w, s) THEN Absent
     ELSE IF LatestState(w, s) = "DEFERRED" THEN "RUNNING"
     ELSE LatestState(w, s)]

Insert(w, s, row) == [runs EXCEPT ![w][s] = Append(@, row)]
Renewed(c) == [window EXCEPT ![c[1]].lease = now + LeaseSeconds]

\* Every RUNNING attempt of the given stages of w is failed.
FailRunning(w, stages, ownerLost) ==
  [runs EXCEPT ![w] = [s \in Stages |->
     [a \in DOMAIN runs[w][s] |->
        IF s \in stages /\ Running(w, s, a)
          THEN [NewRow("FAILED") EXCEPT !.ownerLost = ownerLost]
          ELSE runs[w][s][a]]]]

-----------------------------------------------------------------------------
(* Coordinator: one run_window call.                                         *)

Busy(o) == \E c \in Claims : session[c].owner = o /\ session[c].pc # "ended"

\* The session ends: finally, every lane is told to stop.
End(c) == session' = [session EXCEPT ![c] =
            [NoSession EXCEPT !.pc = "ended", !.owner = session[c].owner, !.cancelled = Lanes]]
LeaseLost(c) == ~Held(c) /\ End(c)

\* claim_window: a live lease is only refused to another owner.
Claim(o, w) ==
  LET c == <<w, window[w].epoch + 1>> IN
  /\ o \in up /\ ~Busy(o) /\ c \in Claims
  /\ ReleaseAt[w] <= now
  /\ window[w].state \notin TerminalWindowStates
  /\ window[w].state # "RUNNING" \/ window[w].lease <= now \/ window[w].owner = o
  /\ window' = [window EXCEPT ![w] = [state |-> "RUNNING", owner |-> o,
                                      epoch |-> c[2], lease |-> now + LeaseSeconds]]
  /\ session' = [session EXCEPT ![c] = [NoSession EXCEPT !.pc = "recover", !.owner = o]]
  /\ UNCHANGED <<now, up, runs, receipt, release, ready, written, lane>>

\* recover_orphans: what an earlier claim left RUNNING is failed as OWNER_LOST.
Recover(c) ==
  /\ session[c].pc = "recover"
  /\ \/ LeaseLost(c) /\ UNCHANGED runs
     \/ /\ Held(c)
        /\ runs' = FailRunning(c[1], Stages, TRUE)
        /\ session' = [session EXCEPT ![c].pc = "round"]
  /\ UNCHANGED <<now, up, window, receipt, release, ready, written, lane>>

\* _lane_budget, as the instant at which a lane of this round overruns.
LaneEnd(w, l) ==
  LET deadline == IF LaneOffset[l] < Deadline[w] - ReleaseAt[w]
                    THEN ReleaseAt[w] + LaneOffset[l] ELSE Deadline[w]
      remaining == IF deadline > now THEN deadline - now ELSE 0
  IN  now + (IF remaining + LaneGrace < MaxLaneSeconds
               THEN remaining + LaneGrace ELSE MaxLaneSeconds)

\* Deliberate error: an abandoned lane is given a new thread in the next round.
RestartAbandoned(c) ==
  /\ session[c].pc = "round"
  /\ session' = [session EXCEPT
       ![c].pc = "wait", ![c].active = Lanes,
       ![c].ends = [l \in Lanes |-> LaneEnd(c[1], l)]]
  /\ lane' = [lane EXCEPT ![c] = [l \in Lanes |-> [NoJob EXCEPT !.pc = "decide"]]]
  /\ UNCHANGED <<now, up, db>>

\* A round starts one thread per lane that was not abandoned earlier; with no
\* lane left there is no progress and the window is concluded.
BeginRound(c) ==
  LET active == Lanes \ session[c].abandoned IN
  /\ session[c].pc = "round"
  /\ session' = [session EXCEPT
       ![c].pc = IF active = {} THEN "conclude" ELSE "wait",
       ![c].active = active,
       ![c].ends = [l \in Lanes |-> IF l \in active THEN LaneEnd(c[1], l) ELSE @[l]]]
  /\ lane' = [lane EXCEPT ![c] = [l \in Lanes |->
       IF l \in active THEN [NoJob EXCEPT !.pc = "decide"] ELSE @[l]]]
  /\ UNCHANGED <<now, up, db>>

Exited(c, l) == lane[c][l].pc \in {"done", "lost"}
Alive(c) == {l \in session[c].active \ session[c].abandoned : ~Exited(c, l)}
Overrun(c) == {l \in Alive(c) : session[c].ends[l] <= now}

\* The coordinator renews its lease while it waits for the lanes.
Heartbeat(c) ==
  /\ session[c].pc = "wait" /\ Alive(c) # {} /\ Held(c)
  /\ window' = Renewed(c)
  /\ UNCHANGED <<now, up, runs, receipt, release, ready, written, session, lane>>

\* _run_round, an overrun: the lane is told to stop ...
CancelOverrun(c) ==
  /\ session[c].pc = "wait" /\ Overrun(c) # {}
  /\ session' = [session EXCEPT ![c].pc = "timeout", ![c].todo = Overrun(c),
                                ![c].cancelled = @ \cup Overrun(c)]
  /\ UNCHANGED <<now, up, db, lane>>

\* ... then its running stage is failed, and the lane is waited for no longer.
TimeOutLanes(c) ==
  LET w == c[1]
      stages == {s \in WindowStages : LaneOf[s] \in session[c].todo}
      failed == {s \in stages : \E a \in 1..Attempts(w, s) : Running(w, s, a)}
  IN
  /\ session[c].pc = "timeout"
  /\ \/ LeaseLost(c) /\ UNCHANGED <<runs, ready>>
     \/ /\ Held(c)
        /\ runs' = FailRunning(w, stages, FALSE)
        /\ ready' = [s \in Stages |-> IF s \in failed THEN "BLOCKED" ELSE ready[s]]
        /\ session' = [session EXCEPT ![c].pc = "wait", ![c].todo = {},
                                      ![c].abandoned = @ \cup session[c].todo]
  /\ UNCHANGED <<now, up, window, receipt, release, written, lane>>

\* All threads of the round returned: a lost lease ends the call, progress (or
\* a newly abandoned lane) starts another round, else the window is concluded.
EndRound(c) ==
  LET heard == session[c].active \ session[c].abandoned
      progress == \/ \E l \in heard : lane[c][l].progressed
                  \/ session[c].active \cap session[c].abandoned # {}
  IN
  /\ session[c].pc = "wait" /\ Alive(c) = {}
  /\ IF \E l \in heard : lane[c][l].pc = "lost"
       THEN End(c)
       ELSE session' = [session EXCEPT ![c].pc = IF progress THEN "round" ELSE "conclude"]
  /\ UNCHANGED <<now, up, db, lane>>

\* Deliberate error: a stage a dead thread left RUNNING is taken as settled.
PendingWithoutRunning(w) ==
  {s \in WindowStages : LatestState(w, s) \in {Absent, "DEFERRED"} \/ OrphanRetry(w, s)}

Pending(w) ==
  {s \in WindowStages : \/ LatestState(w, s) \in {Absent, "RUNNING", "DEFERRED"}
                        \/ OrphanRetry(w, s)}

FinalState(w) ==
  IF \A s \in WindowStages : LatestState(w, s) = "COMPLETE" THEN "COMPLETE"
  ELSE IF \E s \in WindowStages : LatestState(w, s) = "MISSED" THEN "MISSED"
  ELSE "FAILED"

\* _conclude reads the stage states once and decides what to do.
Conclude(c) ==
  /\ session[c].pc = "conclude"
  /\ LET pending == Pending(c[1]) IN
     session' = [session EXCEPT
       ![c].todo = pending,
       ![c].pc = IF pending = {} THEN "finish"
                 ELSE IF now >= Deadline[c[1]] THEN "miss" ELSE "release",
       ![c].final = IF pending = {} THEN FinalState(c[1]) ELSE Absent]
  /\ UNCHANGED <<now, up, db, lane>>

\* Past the deadline each pending stage is recorded MISSED, one by one.
RecordMissed(c) ==
  /\ session[c].pc = "miss" /\ session[c].todo # {}
  /\ \/ LeaseLost(c) /\ UNCHANGED <<runs, ready>>
     \/ \E s \in session[c].todo :
          /\ Held(c)
          /\ runs' = Insert(c[1], s, NewRow("MISSED"))
          /\ ready' = [ready EXCEPT ![s] = "BLOCKED"]
          /\ session' = [session EXCEPT ![c].todo = @ \ {s}]
  /\ UNCHANGED <<now, up, window, receipt, release, written, lane>>

\* ... and the states are read again for the window's aggregate.
Reread(c) ==
  /\ session[c].pc = "miss" /\ session[c].todo = {}
  /\ session' = [session EXCEPT ![c].pc = "finish", ![c].final = FinalState(c[1])]
  /\ UNCHANGED <<now, up, db, lane>>

\* finish_window, or release_window for a later poll.
CloseWindow(c) ==
  /\ session[c].pc \in {"finish", "release"}
  /\ End(c)
  /\ \/ ~Held(c) /\ UNCHANGED window
     \/ /\ Held(c)
        /\ window' = [window EXCEPT
             ![c[1]].state = IF session[c].pc = "finish" THEN session[c].final ELSE "PENDING",
             ![c[1]].lease = 0]
  /\ UNCHANGED <<now, up, runs, receipt, release, ready, written, lane>>

\* A repository call of the coordinator raises: run_window ends, poll_windows
\* reports it and goes on.
CoordinatorFault(c) ==
  /\ "call" \in Failures
  /\ session[c].pc \notin {"none", "round", "ended"}
  /\ End(c)
  /\ UNCHANGED <<now, up, db, lane>>

-----------------------------------------------------------------------------
(* Lane threads: _advance_lane.                                              *)

Goto(c, l, pc) == lane' = [lane EXCEPT ![c][l].pc = pc]
Leave(c, l, pc, progressed) ==
  lane' = [lane EXCEPT ![c][l] = [NoJob EXCEPT !.pc = pc, !.progressed = progressed]]
GiveUp(c, l) == Leave(c, l, "lost", FALSE)
Lost(c, l) == ~Held(c) /\ GiveUp(c, l)
Decide(c, s) == Decision(s, DecisionStates(c[1]), ready, WindowStages)
Steps(c, l) == {s \in WindowStages : LaneOf[s] = l /\ Decide(c, s) \in {"RUN", "BLOCK_PREREQ"}}
Stopped(c, l) == l \in session[c].cancelled \/ now >= Deadline[c[1]]

LaneIdle(c, l) ==
  /\ lane[c][l].pc = "decide"
  /\ Stopped(c, l) \/ Steps(c, l) = {}
  /\ Leave(c, l, "done", lane[c][l].progressed)
  /\ UNCHANGED <<now, up, db, session>>

\* The first stage of the lane, in catalog order, that may act.
LaneDecide(c, l) ==
  /\ lane[c][l].pc = "decide" /\ ~Stopped(c, l)
  /\ \E s \in Steps(c, l) :
       /\ \A t \in Steps(c, l) : Rank[s] <= Rank[t]
       /\ lane' = [lane EXCEPT ![c][l] =
            [NoJob EXCEPT !.pc = IF Decide(c, s) = "RUN" THEN "start" ELSE "block",
                          !.stage = s, !.attempt = Attempts(c[1], s) + 1,
                          !.progressed = TRUE]]
  /\ UNCHANGED <<now, up, db, session>>

\* record_blocked
LaneBlock(c, l) ==
  LET s == lane[c][l].stage IN
  /\ lane[c][l].pc = "block"
  /\ \/ Lost(c, l) /\ UNCHANGED runs
     \/ /\ Held(c)
        /\ runs' = Insert(c[1], s, NewRow("BLOCKED_PREREQ"))
        /\ lane' = [lane EXCEPT ![c][l].pc = "ready", ![c][l].outcome = "BLOCKED_PREREQ"]
  /\ UNCHANGED <<now, up, window, receipt, release, ready, written, session>>

\* Deliberate error: start_stage takes the next number itself and skips _fence.
StartUnfenced(c, l) ==
  LET s == lane[c][l].stage IN
  /\ lane[c][l].pc = "start"
  /\ runs' = Insert(c[1], s, NewRow("RUNNING"))
  /\ lane' = [lane EXCEPT ![c][l].pc = "run", ![c][l].attempt = Attempts(c[1], s) + 1]
  /\ UNCHANGED <<now, up, window, receipt, release, ready, written, session>>

\* renew_lease and start_stage.  The attempt number was read before: the row
\* is refused (UNIQUE) when another writer took it, and the lane gives up.
LaneStart(c, l) ==
  LET s == lane[c][l].stage IN
  /\ lane[c][l].pc = "start"
  /\ \/ Lost(c, l) /\ UNCHANGED <<window, runs>>
     \/ /\ Held(c) /\ lane[c][l].attempt <= Attempts(c[1], s)
        /\ window' = Renewed(c)
        /\ Leave(c, l, "done", FALSE)
        /\ UNCHANGED runs
     \/ /\ Held(c) /\ lane[c][l].attempt > Attempts(c[1], s)
        /\ window' = Renewed(c)
        /\ runs' = Insert(c[1], s, NewRow("RUNNING"))
        /\ Goto(c, l, "run")
  /\ UNCHANGED <<now, up, receipt, release, ready, written, session>>

\* Deliberate error: the row exists, in whatever state.
MineInAnyState(c, l) == lane[c][l].attempt \in 1..Attempts(c[1], lane[c][l].stage)

Mine(c, l) == Running(c[1], lane[c][l].stage, lane[c][l].attempt)

\* StageContext.transaction: refused once cancelled (the runner then raises).
OpenTransaction(c, l) ==
  /\ lane[c][l].pc = "run" /\ lane[c][l].stage \in WritingStages
  /\ l \notin session[c].cancelled
  /\ Goto(c, l, "tx")
  /\ UNCHANGED <<now, up, db, session>>

\* The commit fence: data lands only while the attempt is RUNNING, else the
\* transaction is rolled back and the runner raises.
CommitTransaction(c, l) ==
  /\ lane[c][l].pc = "tx"
  /\ \/ /\ Mine(c, l)
        /\ written' = [written EXCEPT ![c[1]][lane[c][l].stage] = lane[c][l].attempt]
        /\ Goto(c, l, "run")
     \/ /\ ~Mine(c, l)
        /\ lane' = [lane EXCEPT ![c][l].pc = "finish", ![c][l].outcome = "FAILED"]
        /\ UNCHANGED written
  /\ UNCHANGED <<now, up, window, runs, receipt, release, ready, session>>

\* The runner returns (an exception is a FAILED or DEFERRED outcome).  The
\* last permitted attempt cannot be deferred.
RunnerReturns(c, l, outcome, content) ==
  LET j == lane[c][l]
      exhausted == outcome = "DEFERRED" /\ j.attempt >= MaxAttempts
  IN
  /\ j.pc = "run"
  /\ content # None => outcome = "COMPLETE" /\ j.stage \in ReceiptStages
  /\ lane' = [lane EXCEPT ![c][l] =
       [j EXCEPT !.pc = IF content # None THEN "receipt" ELSE "finish",
                 !.outcome = IF exhausted THEN "FAILED" ELSE outcome,
                 !.content = content]]
  /\ UNCHANGED <<now, up, db, session>>

\* Deliberate error: the pointer is advanced with the receipt, the stage
\* finished afterwards.
ReceiptThenAdvance(c, l) ==
  LET j == lane[c][l] IN
  /\ j.pc = "receipt" /\ Held(c) /\ Mine(c, l)
  /\ receipt' = [receipt EXCEPT ![c[1]][j.stage] = IF @ = None THEN j.content ELSE @]
  /\ Goto(c, l, "advance")
  /\ UNCHANGED <<now, up, window, runs, release, ready, written, session>>

\* record_receipt.  A receipt of the kind that binds something else is a
\* rejection, as is any other error (the insert may have committed before it).
LaneReceipt(c, l) ==
  LET j == lane[c][l]
      stored == receipt[c[1]][j.stage]
      bound == [receipt EXCEPT ![c[1]][j.stage] = IF @ = None THEN j.content ELSE @]
  IN
  /\ j.pc = "receipt"
  /\ \/ /\ ~(Held(c) /\ Mine(c, l))
        /\ GiveUp(c, l) /\ UNCHANGED receipt
     \/ /\ Held(c) /\ Mine(c, l) /\ stored \in {None, j.content}
        /\ receipt' = bound
        /\ lane' = [lane EXCEPT ![c][l].pc = "finish", ![c][l].held = TRUE]
     \/ /\ Held(c) /\ Mine(c, l)
        /\ receipt' \in IF stored \in {None, j.content} THEN {receipt, bound} ELSE {receipt}
        /\ lane' = [lane EXCEPT ![c][l].pc = "finish", ![c][l].outcome = "FAILED"]
  /\ UNCHANGED <<now, up, window, runs, release, ready, written, session>>

Least(a, b) == IF a < b THEN a ELSE b

\* finish_stage
LaneFinish(c, l) ==
  LET j == lane[c][l]
      row == [NewRow(j.outcome) EXCEPT !.retryAt =
                IF j.outcome = "DEFERRED" THEN Least(now + RetryDelay, Deadline[c[1]]) ELSE 0]
  IN
  /\ j.pc = "finish"
  /\ \/ ~(Held(c) /\ Mine(c, l)) /\ GiveUp(c, l) /\ UNCHANGED runs
     \/ /\ Held(c) /\ Mine(c, l)
        /\ runs' = [runs EXCEPT ![c[1]][j.stage][j.attempt] = row]
        /\ Goto(c, l, IF j.held /\ j.stage \in ReleaseStages THEN "advance" ELSE "ready")
  /\ UNCHANGED <<now, up, window, receipt, release, ready, written, session>>

\* Deliberate error: the last writer wins.
AdvanceAnyway(c, l) ==
  /\ lane[c][l].pc = "advance" /\ Held(c)
  /\ release' = [cutoff |-> c[1], stage |-> lane[c][l].stage]
  /\ Goto(c, l, "ready")
  /\ UNCHANGED <<now, up, window, runs, receipt, ready, written, session>>

\* advance_release: only to a later cutoff.
LaneAdvance(c, l) ==
  LET next == [cutoff |-> c[1], stage |-> lane[c][l].stage] IN
  /\ lane[c][l].pc = "advance"
  /\ \/ Lost(c, l) /\ UNCHANGED release
     \/ /\ Held(c)
        /\ release' = IF release.cutoff < next.cutoff THEN next ELSE release
        /\ Goto(c, l, "ready")
  /\ UNCHANGED <<now, up, window, runs, receipt, ready, written, session>>

\* A COMPLETE outcome with reason codes, reported DEGRADED, is taken as READY.
ReadinessOf(outcome) ==
  CASE outcome = "COMPLETE" -> "READY"
    [] outcome = "DEFERRED" -> "WAITING_INPUT"
    [] OTHER -> "BLOCKED"

\* upsert_readiness, which no fence protects.
LaneReadiness(c, l) ==
  /\ lane[c][l].pc = "ready"
  /\ ready' = [ready EXCEPT ![lane[c][l].stage] = ReadinessOf(lane[c][l].outcome)]
  /\ Leave(c, l, "decide", TRUE)
  /\ UNCHANGED <<now, up, window, runs, receipt, release, written, session>>

\* Any other repository error ends the thread; its sibling lanes go on.
LaneFault(c, l) ==
  /\ "thread" \in Failures
  /\ lane[c][l].pc \in {"decide", "block", "start", "finish", "advance", "ready"}
  /\ Leave(c, l, "done", FALSE)
  /\ UNCHANGED <<now, up, db, session>>

-----------------------------------------------------------------------------
(* The rest of the system.                                                   *)

\* tick_resident: a resident stage reports through readiness only.
ResidentTick(s, status) ==
  /\ s \in Enabled \cap Resident /\ up # {}
  /\ ready' = [ready EXCEPT ![s] = status]
  /\ UNCHANGED <<now, up, window, runs, receipt, release, written, session, lane>>

\* finish_unavailable_window: a window no one has started is closed as it is.
MarkUnavailable(w) ==
  /\ window[w].state = "PENDING"
  /\ \A s \in Stages : runs[w][s] = <<>>
  /\ window' = [window EXCEPT ![w].state = "UNAVAILABLE", ![w].owner = None, ![w].lease = 0]
  /\ runs' = [runs EXCEPT ![w] = [s \in Stages |->
       IF s \in Enabled THEN <<NewRow("UNAVAILABLE")>> ELSE <<>>]]
  /\ UNCHANGED <<now, up, receipt, release, ready, written, session, lane>>

\* The process dies with all its threads; its rows stay as they are.
Crash(o) ==
  LET dead == {c \in Claims : session[c].owner = o} IN
  /\ "crash" \in Failures /\ o \in up
  /\ up' = up \ {o}
  /\ session' = [c \in Claims |->
       IF c \in dead THEN [NoSession EXCEPT !.pc = "ended", !.owner = o] ELSE session[c]]
  /\ lane' = [c \in Claims |-> IF c \in dead THEN [l \in Lanes |-> NoJob] ELSE lane[c]]
  /\ UNCHANGED <<now, db>>

Tick == now < MaxTime /\ now' = now + 1 /\ UNCHANGED <<up, db, session, lane>>

Coordinate(c) ==
  \/ Recover(c) \/ BeginRound(c) \/ CancelOverrun(c) \/ TimeOutLanes(c) \/ EndRound(c)
  \/ Conclude(c) \/ RecordMissed(c) \/ Reread(c) \/ CloseWindow(c)

\* The thread's own steps, the stage runner excepted.
Advance(c, l) ==
  \/ LaneIdle(c, l) \/ LaneDecide(c, l) \/ LaneBlock(c, l) \/ LaneStart(c, l)
  \/ LaneReceipt(c, l) \/ LaneFinish(c, l) \/ LaneAdvance(c, l) \/ LaneReadiness(c, l)

Run(c, l) ==
  \/ OpenTransaction(c, l) \/ CommitTransaction(c, l)
  \/ \E outcome \in Outcomes, content \in Contents \cup {None} :
       RunnerReturns(c, l, outcome, content)

Next ==
  \/ \E o \in Owners, w \in Windows : Claim(o, w)
  \/ \E c \in Claims : Coordinate(c) \/ Heartbeat(c) \/ CoordinatorFault(c)
  \/ \E c \in Claims, l \in Lanes : Advance(c, l) \/ Run(c, l) \/ LaneFault(c, l)
  \/ \E s \in Stages, status \in {"READY", "BLOCKED"} : ResidentTick(s, status)
  \/ \E w \in Windows : MarkUnavailable(w)
  \/ \E o \in Owners : Crash(o)
  \/ Tick

Spec == Init /\ [][Next]_vars

\* Threads that are not stuck in a stage runner are scheduled, and time passes.
Fairness ==
  /\ WF_vars(Tick)
  /\ \A c \in Claims : WF_vars(Coordinate(c))
  /\ \A c \in Claims, l \in Lanes : WF_vars(Advance(c, l))

FairSpec == Spec /\ Fairness

-----------------------------------------------------------------------------
(* Properties.                                                               *)

WindowRows == [state : TerminalWindowStates \cup {"PENDING", "RUNNING"},
               owner : Owners \cup {None}, epoch : 0..MaxEpoch, lease : Nat]
RunRows == [state : RunStates, ownerLost : BOOLEAN, retryAt : Nat]
Jobs == [pc : {"off", "decide", "block", "start", "run", "tx", "receipt", "finish",
               "advance", "ready", "done", "lost"},
         stage : WindowStages \cup {None}, attempt : Nat,
         outcome : RunStates \cup {Absent}, content : Contents \cup {None},
         held : BOOLEAN, progressed : BOOLEAN]
SessionRows ==
  [pc : {"none", "recover", "round", "wait", "timeout", "conclude", "miss", "finish",
         "release", "ended"},
   owner : Owners \cup {None}, active : SUBSET Lanes, cancelled : SUBSET Lanes,
   abandoned : SUBSET Lanes, ends : [Lanes -> Nat], todo : SUBSET (Lanes \cup WindowStages),
   final : OwnedWindowStates \cup {Absent}]

\* Every table and every thread local holds a value of its column's type.
TypeOK ==
  /\ now \in Nat
  /\ up \subseteq Owners
  /\ window \in [Windows -> WindowRows]
  /\ runs \in [Windows -> [Stages -> Seq(RunRows)]]
  /\ receipt \in [Windows -> [ReceiptStages -> Contents \cup {None}]]
  /\ release \in [cutoff : Windows \cup {0}, stage : ReleaseStages \cup {None}]
  /\ ready \in [Stages -> ReadinessStates]
  /\ written \in [Windows -> [Stages -> Nat]]
  /\ session \in [Claims -> SessionRows]
  /\ lane \in [Claims -> [Lanes -> Jobs]]

\* However claims, crashes, timeouts and abandoned threads interleave, a stage
\* of a window never has two RUNNING attempts (start_stage, recover_orphans).
OneRunningAttempt ==
  \A w \in Windows, s \in Stages : \A a, b \in 1..Attempts(w, s) :
    Running(w, s, a) /\ Running(w, s, b) => a = b

\* The tables implement ExclusiveExecution: the one RUNNING row is the attempt
\* being executed, and only it writes stage data (StageContext.transaction with
\* fence_stage_run): the thread of a lost or timed-out attempt commits nothing.
Work == Windows \X Stages
ExecutingAttempt(k) ==
  IF \E a \in 1..Attempts(k[1], k[2]) : Running(k[1], k[2], a)
    THEN CHOOSE a \in 1..Attempts(k[1], k[2]) : Running(k[1], k[2], a) ELSE 0
Exclusive == INSTANCE ExclusiveExecution WITH
  begun <- [k \in Work |-> Attempts(k[1], k[2])],
  executing <- [k \in Work |-> ExecutingAttempt(k)],
  data <- [k \in Work |-> written[k[1]][k[2]]]
ImplementsExclusiveExecution == Exclusive!Spec

Executed == {"RUNNING", "COMPLETE", "FAILED", "BLOCKED_POLICY", "DEFERRED"}

\* A stage that was started finds every prerequisite run by this plan COMPLETE,
\* and it stays so: no thread acts on a stale read of another lane's result.
PrerequisitesComplete ==
  \A w \in Windows, s \in Stages :
    (\E a \in 1..Attempts(w, s) : runs[w][s][a].state \in Executed)
      => \A p \in Prerequisites[s] \cap WindowStages : LatestState(w, p) = "COMPLETE"

\* A stage recorded BLOCKED_PREREQ has a prerequisite that ended without
\* completing and will not be retried; the trigger validate_stage_run, which
\* demands one, therefore never refuses record_blocked.
BlockedForCause ==
  \A w \in Windows, s \in Stages :
    LatestState(w, s) = "BLOCKED_PREREQ" =>
      \E p \in Prerequisites[s] :
        LatestState(w, p) \in NonCompletingStates /\ ~OrphanRetry(w, p)

\* In a closed window the last record of each stage is terminal, and stays so,
\* and the window is COMPLETE exactly when they all are: no thread that outlives
\* _conclude leaves work open in a window nobody will claim again.
ClosedWindowSettled ==
  \A w \in Windows :
    window[w].state \in OwnedWindowStates =>
      /\ \A s \in WindowStages : LatestState(w, s) \in TerminalStates
      /\ window[w].state = "COMPLETE"
           <=> \A s \in WindowStages : LatestState(w, s) = "COMPLETE"

\* The release pointer names a receipt that is stored and whose stage completed
\* an attempt in that window: no crash, rejected receipt or lost lease between
\* the separate transactions of _finish publishes unfinished work.
ReleaseIsBacked ==
  release.cutoff # 0 =>
    /\ receipt[release.cutoff][release.stage] # None
    /\ \E a \in 1..Attempts(release.cutoff, release.stage) :
         runs[release.cutoff][release.stage][a].state = "COMPLETE"

\* The pointer never moves to an earlier cutoff, whichever window's thread
\* advances it last (advance_release).
ReleaseMonotone == [][release'.cutoff >= release.cutoff]_vars

\* A run_window call always comes to its end, even when a stage runner hangs
\* for ever: the lane is abandoned when its budget is spent.
SessionsEnd ==
  \A c \in Claims : session[c].pc # "none" ~> session[c].pc = "ended"
=============================================================================
