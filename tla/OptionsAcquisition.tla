-------------------------- MODULE OptionsAcquisition --------------------------
(* The options acquisition: runs of run_acquisition, one after the other or    *)
(* overlapping, that own the provider socket under a host lock, charge every   *)
(* frame against a session budget kept in a status file, and hand the frames   *)
(* through a bounded buffer to a pump thread that writes the journal           *)
(* (advanced_options_acquisition_runtime.py, advanced_gateway.py, buffer.py,   *)
(* bridge.py, advanced_equity_ingress.py, journal.py).  A frame is its         *)
(* connection, its number and the run that received it; a batch normalizes to  *)
(* at least one event.  Byte budgets, which follow the message budget line by  *)
(* line, and the diagnostic mode are left out.                                 *)
EXTENDS Integers, Sequences, FiniteSets, SequencesExt

CONSTANTS
  Runs,             \* executions of run_acquisition, each used at most once
  None,             \* nobody holds the lock
  Ceiling,          \* decoded_message_ceiling
  AttemptCeiling,   \* connection_attempt_ceiling
  ControlMessages,  \* CONTROL_MESSAGES_PER_ATTEMPT
  Quantum,          \* STATUS_MESSAGE_RESERVATION_QUANTUM
  LowWater,         \* STATUS_MESSAGE_RESERVATION_LOW_WATER
  BufferLimit,      \* buffer_event_limit
  BatchLimit,       \* maximum_batch_messages
  MaxControls,      \* environment: control frames the provider sends a connection
  Overlap,          \* environment: may a run start before the last one ended?
  CanCrash,         \* environment: may the process die?
  CanFail,          \* environment: may a status write, the journal or a join fail?
  CanReject         \* environment: may a session end in a permanent failure?

ASSUME AcquisitionAssumption ==
  /\ {Ceiling, AttemptCeiling, ControlMessages, Quantum, LowWater} \subseteq Nat \ {0}
  /\ {BufferLimit, BatchLimit} \subseteq Nat \ {0}
  /\ MaxControls \in Nat
  /\ LowWater <= Quantum
  /\ {Overlap, CanCrash, CanFail, CanReject} \subseteq BOOLEAN
  /\ None \notin Runs

VARIABLES
  status,      \* the status file
  lease,       \* the run that holds the host lock on the provider socket
  raw,         \* raw_messages of the journal, in offset order
  normalized,  \* decoder_progress.committed_raw_offset
  over,        \* has the authority's acquisition_stop passed?
  main,        \* the locals of each run, its gateway and its status publisher
  pump,        \* each run's journal pump, with the buffer that feeds it
  received,    \* history: frames received from the provider
  sessions     \* history: connections a reservation was made for

journal == <<raw, normalized>>
history == <<received, sessions>>
vars == <<status, lease, journal, over, main, pump, history>>

Least(a, b) == IF a < b THEN a ELSE b
Greatest(a, b) == IF a > b THEN a ELSE b
Frames == [conn : Nat, number : Nat, by : Runs]

Fresh == [state |-> "NONE", attempts |-> 0, decoded |-> 0, reserved |-> 0, gaps |-> <<>>]
Unstarted == [pc |-> "off", attempts |-> 0, decoded |-> 0, received |-> 0,
              controls |-> 0, accepted |-> 0, admitted |-> 0, value |-> Fresh,
              stop |-> FALSE, broken |-> FALSE, failing |-> FALSE, paused |-> FALSE]
NoPump == [state |-> "off", last |-> 0, commit |-> 0, queue |-> <<>>, claim |-> <<>>,
           stop |-> FALSE]

Init ==
  /\ status = Fresh
  /\ lease = None
  /\ raw = <<>>
  /\ normalized = 0
  /\ over = FALSE
  /\ main = [p \in Runs |-> Unstarted]
  /\ pump = [p \in Runs |-> NoPump]
  /\ received = 0
  /\ sessions = 0

(* The main thread outside its session, in the session, and with the publisher *)
(* thread running.                                                             *)
Serving == {"loop", "reserving", "session", "control", "market", "admitting"}
Published == Serving \cup {"closing", "joining", "exiting"}
Alive(p) == main[p].pc \notin {"off", "ended"}
PumpEnded(p) ==
  pump[p].state \in {"done", "conflict", "unreadable", "stale", "broken", "killed"}

(* The publisher's value becomes v, and so does the file. *)
Persist(p, v, locals) ==
  /\ ~main[p].broken
  /\ main' = [main EXCEPT ![p] = [locals EXCEPT !.value = v]]
  /\ status' = v

(* The locals of a run that is over, by its end or with its process. *)
Ended(locals) ==
  [Unstarted EXCEPT !.pc = "ended", !.failing = locals.failing, !.admitted = locals.admitted]

Gap(s, attempt) == Append(s.gaps, [attempt |-> attempt, open |-> TRUE])
\* Deliberate error: a gap that was closed is no longer listed.
ForgottenGaps(s) == IF s.gaps = <<>> THEN s.gaps ELSE SubSeq(s.gaps, 1, Len(s.gaps) - 1)

ClosedGaps(s) ==
  IF s.gaps = <<>> THEN s.gaps ELSE [s.gaps EXCEPT ![Len(s.gaps)].open = FALSE]

-------------------------------------------------------------------------------
(* Starting: the counters are read first, then the pump thread is started, and *)
(* only then is the lock taken.                                                *)

ResumeUsage(s) == Greatest(s.decoded, s.reserved)

Load(p) ==
  /\ main[p].pc = "off"
  /\ ~over
  /\ Overlap \/ \A q \in Runs : ~Alive(q)
  /\ LET used == ResumeUsage(status)
     IN main' = [main EXCEPT ![p] =
          [main[p] EXCEPT !.pc = "loaded", !.attempts = status.attempts, !.decoded = used,
             !.value = [state |-> "CONNECTING", attempts |-> status.attempts,
                        decoded |-> used, reserved |-> used, gaps |-> status.gaps]]]
  /\ UNCHANGED <<status, lease, journal, over, pump, history>>

OpenPump(p) ==
  /\ main[p].pc = "loaded"
  /\ main' = [main EXCEPT ![p].pc = "opened"]
  /\ pump' = [pump EXCEPT ![p].state = "starting"]
  /\ UNCHANGED <<status, lease, journal, over, history>>

Acquire(p) ==
  /\ main[p].pc = "opened"
  /\ lease = None
  /\ lease' = p
  /\ Persist(p, main[p].value, [main[p] EXCEPT !.pc = "loop"])
  /\ UNCHANGED <<journal, over, pump, history>>

(* The exception leaves run_acquisition before its try block: nobody stops the *)
(* pump, whose thread is not a daemon, so the process stays.                   *)
StartFails(p) ==
  /\ main[p].pc = "opened"
  /\ lease # None \/ CanFail
  /\ lease' = IF lease = None THEN p ELSE lease
  /\ main' = [main EXCEPT ![p].pc = "stuck"]
  /\ UNCHANGED <<status, journal, over, pump, history>>

-------------------------------------------------------------------------------
(* The loop over connections.                                                  *)

MayConnect(p) ==
  /\ ~main[p].stop
  /\ ~over
  /\ main[p].attempts < AttemptCeiling
  /\ main[p].decoded < Ceiling

\* Deliberate error: nothing is set aside for the control frames.
AllRemaining(p) == Ceiling - main[p].decoded

Remaining(p) == Ceiling - main[p].decoded - ControlMessages

\* Deliberate error: the attempt is written with the reservation's next extension.
ConnectingUnnamed(s, n, decoded) == [s EXCEPT !.state = "CONNECTING", !.decoded = decoded]

(* The attempt number, which names the stream session, is in the file before   *)
(* the provider is called.                                                     *)
Connecting(s, n, decoded) ==
  [s EXCEPT !.state = "CONNECTING", !.attempts = n, !.decoded = decoded]

Connect(p) ==
  /\ main[p].pc = "loop"
  /\ MayConnect(p)
  /\ LET n == main[p].attempts + 1
     IN IF Remaining(p) <= 0
        THEN /\ main' = [main EXCEPT ![p].pc = "closing", ![p].attempts = n]
             /\ UNCHANGED status
        ELSE Persist(p, Connecting(main[p].value, n, main[p].decoded),
                     [main[p] EXCEPT !.pc = "reserving", !.attempts = n])
  /\ UNCHANGED <<lease, journal, over, pump, history>>

LeaveLoop(p) ==
  /\ main[p].pc = "loop"
  /\ ~MayConnect(p)
  /\ main' = [main EXCEPT ![p].pc = "closing"]
  /\ UNCHANGED <<status, lease, journal, over, pump, history>>

Reserve(p) ==
  /\ main[p].pc = "reserving"
  /\ Persist(p, [main[p].value EXCEPT !.reserved =
                   Least(Ceiling, main[p].decoded + ControlMessages + Quantum)],
             [main[p] EXCEPT !.pc = "session", !.received = 0, !.controls = 0,
                             !.accepted = 0])
  /\ sessions' = sessions + 1
  /\ UNCHANGED <<lease, journal, over, pump, received>>

-------------------------------------------------------------------------------
(* A session of the gateway.  Every frame is charged before it is looked at;   *)
(* a market frame then waits for room in the buffer.  The provider sends none  *)
(* before it has acknowledged the subscription.                                *)

Counted(p) == main[p].decoded + ControlMessages + main[p].received

Ready(p) ==
  /\ main[p].pc = "session"
  /\ main[p].value.state = "CONNECTING"
  /\ main[p].controls > 0
  /\ Persist(p, [main[p].value EXCEPT !.state = "CAPTURING",
                                      !.gaps = ClosedGaps(main[p].value)], main[p])
  /\ UNCHANGED <<lease, journal, over, pump, history>>

Receive(p, kind) ==
  /\ main[p].pc = "session"
  /\ main[p].accepted < Remaining(p)
  /\ \/ kind = "control" /\ main[p].controls < MaxControls
     \/ kind = "market" /\ main[p].value.state = "CAPTURING"
  /\ main' = [main EXCEPT ![p].pc = kind, ![p].received = @ + 1]
  /\ received' = received + 1
  /\ UNCHANGED <<status, lease, journal, over, pump, sessions>>

\* Deliberate error: the reservation is extended when it is exceeded.
RunsOut(current, reserved) == current > reserved /\ reserved < Ceiling

RunsLow(current, reserved) == current + LowWater > reserved /\ reserved < Ceiling

(* usage(): true when the reservation was extended, which is what writes the   *)
(* file; otherwise only the publisher's value changes.                         *)
Charged(s, current) ==
  [s EXCEPT !.decoded = current,
            !.reserved = IF RunsLow(current, @) THEN Least(Ceiling, current + Quantum) ELSE @]

Charge(p, locals) ==
  LET s == Charged(main[p].value, Counted(p))
  IN IF s.reserved # main[p].value.reserved
     THEN Persist(p, s, locals)
     ELSE /\ main' = [main EXCEPT ![p] = [locals EXCEPT !.value = s]]
          /\ UNCHANGED status

TakeControl(p) ==
  /\ main[p].pc = "control"
  /\ Charge(p, [main[p] EXCEPT !.pc = "session", !.controls = @ + 1])
  /\ UNCHANGED <<lease, journal, over, pump, history>>

ChargeMarket(p) ==
  /\ main[p].pc = "market"
  /\ Charge(p, [main[p] EXCEPT !.pc = "admitting"])
  /\ UNCHANGED <<lease, journal, over, pump, history>>

Waiting(p) == Len(pump[p].queue) + Len(pump[p].claim)

\* Deliberate error: the frames the pump has claimed are not counted.
QueueHasRoom(p) == Len(pump[p].queue) < BufferLimit

HasRoom(p) == Waiting(p) < BufferLimit

\* Deliberate error: the oldest frame makes room for the newest.
PutEvicting(queue, frame) ==
  Append(IF Len(queue) + 1 < BufferLimit THEN queue ELSE Tail(queue), frame)

Put(queue, frame) == Append(queue, frame)

Admit(p) ==
  /\ main[p].pc = "admitting"
  /\ HasRoom(p)
  /\ LET frame == [conn |-> main[p].attempts, number |-> main[p].accepted, by |-> p]
     IN pump' = [pump EXCEPT ![p].queue = Put(@, frame)]
  /\ main' = [main EXCEPT ![p].pc = "session", ![p].accepted = @ + 1, ![p].admitted = @ + 1]
  /\ UNCHANGED <<status, lease, journal, over, history>>

(* A permanent or internal failure ends the run: a refusal by the provider, a  *)
(* protocol error or an oversized frame; or a buffer that after the hand-off   *)
(* wait still has no room, or holds a frame too old.  No gap is recorded.      *)
Fail(p) ==
  /\ CanReject
  /\ Persist(p, [main[p].value EXCEPT !.state = "FAILED"],
             [main[p] EXCEPT !.pc = "closing", !.failing = TRUE])
  /\ UNCHANGED <<lease, journal, over, pump, history>>

Refuse(p) == main[p].pc \in {"session", "admitting"} /\ Fail(p)
Overload(p) == main[p].pc = "admitting" /\ Waiting(p) > 0 /\ Fail(p)

Settled(s, state, decoded) ==
  [s EXCEPT !.state = state, !.decoded = decoded, !.reserved = decoded]

(* The transport is lost, in the handshake or later: a gap, and another try. *)
Drop(p) ==
  /\ main[p].pc = "session"
  /\ Persist(p, [Settled(main[p].value, "RECONNECTING", Counted(p))
                   EXCEPT !.gaps = Gap(main[p].value, main[p].attempts)],
             [main[p] EXCEPT !.pc = "loop", !.decoded = Counted(p)])
  /\ UNCHANGED <<lease, journal, over, pump, history>>

\* Deliberate error: a stop is only looked at between sessions.
AuthorityEnds(p) == over

StopRequested(p) == main[p].stop \/ over

(* The session returns: its allowance is used up, or it met a stop or the      *)
(* authority's end before a receive.                                           *)
EndSession(p) ==
  /\ main[p].pc = "session"
  /\ LET full == main[p].accepted = Remaining(p)
     IN /\ full \/ StopRequested(p)
        /\ Persist(p, Settled(main[p].value, "CAPTURING", Counted(p)),
                   [main[p] EXCEPT !.pc = IF full THEN "loop" ELSE "closing",
                                   !.decoded = Counted(p)])
  /\ UNCHANGED <<lease, journal, over, pump, history>>

(* The publisher has failed: the session stops, or the next write raises. *)
Abort(p) ==
  /\ main[p].broken
  /\ main[p].pc \in Serving
  /\ main' = [main EXCEPT ![p].pc = "closing", ![p].failing = TRUE]
  /\ UNCHANGED <<status, lease, journal, over, pump, history>>

-------------------------------------------------------------------------------
(* The end of a run: the finally block, and what follows it.                   *)

StopPauses(p) ==
  /\ main[p].stop
  /\ ~over
  /\ main[p].attempts < AttemptCeiling
  /\ main[p].decoded + ControlMessages < Ceiling

Close(p) ==
  /\ main[p].pc = "closing"
  /\ LET locals == [main[p] EXCEPT !.pc = "joining", !.paused = StopPauses(p)]
     IN IF main[p].value.state = "FAILED" \/ main[p].broken
        THEN /\ main' = [main EXCEPT ![p] = [locals EXCEPT !.failing = TRUE]]
             /\ UNCHANGED status
        ELSE Persist(p, [main[p].value EXCEPT
                           !.state = IF StopPauses(p) THEN "PAUSED" ELSE "DRAINING"], locals)
  /\ pump' = [pump EXCEPT ![p].stop = TRUE]
  /\ UNCHANGED <<lease, journal, over, history>>

\* Deliberate error: the pump's progress is read without waiting for its thread.
NotJoined(p) == pump[p].state # "off"

Joined(p) == pump[p].state = "done"

(* The pump has drained: its progress is published, the publisher stopped and  *)
(* the lock released.  A pending exception is raised then.                     *)
Release(p) ==
  /\ main[p].pc = "joining"
  /\ Joined(p)
  /\ lease' = None
  /\ LET failing == main[p].failing \/ main[p].broken
     IN /\ main' = [main EXCEPT ![p] =
             IF failing THEN Ended([main[p] EXCEPT !.failing = TRUE])
                        ELSE [main[p] EXCEPT !.pc = "released"]]
        /\ status' = IF main[p].broken THEN status ELSE main[p].value
  /\ UNCHANGED <<journal, over, pump, history>>

(* join() raises, or times out: the rest of the finally block is skipped, and  *)
(* the lock is only freed when the process ends.                               *)
JoinFails(p) ==
  /\ main[p].pc = "joining"
  /\ pump[p].state # "done"
  /\ PumpEnded(p) \/ CanFail
  /\ main' = [main EXCEPT ![p].pc = "exiting", ![p].failing = TRUE]
  /\ UNCHANGED <<status, lease, journal, over, pump, history>>

Exit(p) ==
  /\ main[p].pc = "exiting"
  /\ PumpEnded(p)
  /\ main' = [main EXCEPT ![p] = Ended(main[p])]
  /\ lease' = None
  /\ UNCHANGED <<status, journal, over, pump, history>>

(* The last write of a run, after the lock was released. *)
Reported(p) ==
  LET s == Settled(main[p].value, "COMPLETE", main[p].decoded)
  IN CASE main[p].paused ->
            [s EXCEPT !.state = "PAUSED", !.attempts = main[p].attempts,
                      !.gaps = Gap(s, main[p].attempts)]
       [] ~main[p].paused /\ pump[p].last = 0 -> [main[p].value EXCEPT !.state = "FAILED"]
       [] OTHER -> [s EXCEPT !.attempts = main[p].attempts]

Report(p) ==
  /\ main[p].pc = "released"
  /\ \E written \in {TRUE} \cup {~CanFail} :
       /\ status' = IF written THEN Reported(p) ELSE status
       /\ main' = [main EXCEPT ![p] =
            Ended([main[p] EXCEPT !.failing = ~written \/ Reported(p).state = "FAILED"])]
  /\ UNCHANGED <<lease, journal, over, pump, history>>

-------------------------------------------------------------------------------
(* The publisher thread.                                                       *)

Heartbeat(p) ==
  /\ main[p].pc \in Published
  /\ ~main[p].broken
  /\ status # main[p].value
  /\ status' = main[p].value
  /\ UNCHANGED <<lease, journal, over, main, pump, history>>

StatusFails(p) ==
  /\ CanFail
  /\ main[p].pc \in Published
  /\ ~main[p].broken
  /\ main' = [main EXCEPT ![p].broken = TRUE]
  /\ UNCHANGED <<status, lease, journal, over, pump, history>>

-------------------------------------------------------------------------------
(* The pump thread.                                                            *)

\* Deliberate error: the pump continues after the last raw offset.
RecoveredRaw == Len(raw)

RecoveredOffset == normalized

PumpRecover(p) ==
  /\ pump[p].state = "starting"
  /\ pump' = [pump EXCEPT ![p].state = "idle", ![p].last = RecoveredOffset]
  /\ UNCHANGED <<status, lease, journal, over, main, history>>

PumpClaim(p) ==
  /\ pump[p].state = "idle"
  /\ pump[p].queue # <<>>
  /\ LET queue == pump[p].queue
         n == Least(BatchLimit, Len(queue))
     IN pump' = [pump EXCEPT ![p].state = "claimed",
                             ![p].claim = SubSeq(queue, 1, n),
                             ![p].queue = SubSeq(queue, n + 1, Len(queue))]
  /\ UNCHANGED <<status, lease, journal, over, main, history>>

SameIdentity(f, g) == f.conn = g.conn /\ f.number = g.number
Conflicts(claim) ==
  \/ \E i, j \in 1..Len(claim) : i < j /\ SameIdentity(claim[i], claim[j])
  \/ \E f \in ToSet(claim), g \in ToSet(raw) : SameIdentity(f, g) /\ f # g

(* drain_raw_buffer_once returns the claim to the buffer when the writer raises. *)
GivenBack(q) == [q EXCEPT !.claim = <<>>, !.queue = q.claim \o @]

(* append_batch: the raw frames are committed in one transaction, and only then *)
(* is the claim acknowledged.  A claim whose append fails is given back to a    *)
(* pump that does not try again, so no frame of a claim is in the journal yet:  *)
(* the writer's skip of known frames has nothing to do.                         *)
PumpAppend(p) ==
  /\ pump[p].state = "claimed"
  /\ LET claim == pump[p].claim
     IN IF Conflicts(claim)
        THEN /\ pump' = [pump EXCEPT ![p] = [GivenBack(pump[p]) EXCEPT !.state = "conflict"]]
             /\ UNCHANGED raw
        ELSE /\ raw' = raw \o claim
             /\ pump' = [pump EXCEPT ![p].state = "appended", ![p].claim = <<>>,
                                     ![p].commit = Len(raw')]
  /\ UNCHANGED <<status, lease, normalized, over, main, history>>

(* The offset of the last record that read_after(last, limit) returns. *)
ReadUpTo(last) == Least(Len(raw), last + BatchLimit)

(* commit_normalized_many wants the rows that follow the decoder's progress. *)
NextRetained(p) == pump[p].last = normalized

(* The rows after the last offset are read back, normalized and committed with *)
(* the decoder's progress.                                                     *)
PumpNormalize(p) ==
  /\ pump[p].state = "appended"
  /\ LET read == ReadUpTo(pump[p].last)
         next == CASE read # pump[p].commit -> "unreadable"
                   [] read = pump[p].commit /\ ~NextRetained(p) -> "stale"
                   [] OTHER -> "idle"
     IN /\ pump' = [pump EXCEPT ![p].state = next,
                                ![p].last = IF next = "idle" THEN read ELSE @]
        /\ normalized' = IF next = "idle" THEN read ELSE normalized
  /\ UNCHANGED <<status, lease, raw, over, main, history>>

\* Deliberate error: a stop is heeded at once.
StopAtOnce(p) == pump[p].stop

(* Stop is only heeded when nothing is queued or claimed. *)
MayStop(p) == pump[p].stop /\ Waiting(p) = 0

PumpStops(p) ==
  /\ pump[p].state = "idle"
  /\ MayStop(p)
  /\ pump' = [pump EXCEPT ![p].state = "done"]
  /\ UNCHANGED <<status, lease, journal, over, main, history>>

(* A disk error, or a frame the normalizer quarantines or does not admit. *)
PumpBreaks(p) ==
  /\ CanFail
  /\ pump[p].state \in {"starting", "claimed", "appended"}
  /\ pump' = [pump EXCEPT ![p] = [GivenBack(pump[p]) EXCEPT !.state = "broken"]]
  /\ UNCHANGED <<status, lease, journal, over, main, history>>

PumpSteps(p) == PumpRecover(p) \/ PumpClaim(p) \/ PumpAppend(p) \/ PumpNormalize(p) \/ PumpStops(p)

-------------------------------------------------------------------------------
(* The environment: a stop (a signal, or the loss of the database lease on the *)
(* socket), the death of the process, and the end of the session.              *)

RequestStop(p) ==
  /\ Alive(p)
  /\ ~main[p].stop
  /\ main' = [main EXCEPT ![p].stop = TRUE]
  /\ UNCHANGED <<status, lease, journal, over, pump, history>>

Crash(p) ==
  /\ CanCrash
  /\ Alive(p)
  /\ main' = [main EXCEPT ![p] = Ended([main[p] EXCEPT !.failing = TRUE])]
  /\ pump' = [pump EXCEPT ![p] = [NoPump EXCEPT !.state = "killed"]]
  /\ lease' = IF lease = p THEN None ELSE lease
  /\ UNCHANGED <<status, journal, over, history>>

SessionEnds ==
  /\ ~over
  /\ over' = TRUE
  /\ UNCHANGED <<status, lease, journal, main, pump, history>>

(* What the main thread does by itself, without the provider. *)
MainSteps(p) ==
  \/ OpenPump(p) \/ Acquire(p) \/ Connect(p) \/ LeaveLoop(p) \/ Reserve(p)
  \/ TakeControl(p) \/ ChargeMarket(p) \/ Admit(p) \/ EndSession(p) \/ Abort(p)
  \/ Close(p) \/ Release(p) \/ JoinFails(p) \/ Exit(p) \/ Report(p)

(* A session with the provider, and how it can end. *)
Provider(p) ==
  \/ Ready(p)
  \/ \E kind \in {"control", "market"} : Receive(p, kind)
  \/ Refuse(p)
  \/ Overload(p)
  \/ Drop(p)

Next ==
  \/ SessionEnds
  \/ \E p \in Runs :
       \/ Load(p) \/ StartFails(p) \/ MainSteps(p) \/ Provider(p) \/ PumpSteps(p)
       \/ Heartbeat(p) \/ StatusFails(p) \/ PumpBreaks(p) \/ RequestStop(p) \/ Crash(p)

Spec == Init /\ [][Next]_vars

(* The threads of a live process are scheduled, and a hand-off that finds no    *)
(* room gives up in the end; the provider owes nothing.                        *)
FairSpec ==
  /\ Spec
  /\ \A p \in Runs :
       /\ WF_vars(MainSteps(p))
       /\ WF_vars(Overload(p))
       /\ WF_vars(PumpSteps(p))

-------------------------------------------------------------------------------
(* Properties.                                                                 *)

States == {"NONE", "CONNECTING", "CAPTURING", "RECONNECTING", "PAUSED", "DRAINING",
           "FAILED", "COMPLETE"}
Statuses == [state : States, attempts : Nat, decoded : Nat, reserved : Nat,
             gaps : Seq([attempt : Nat, open : BOOLEAN])]

(* Types, with what the journal, the buffer and the lock are bounded by: the    *)
(* decoder never passes the raw offset, the buffer never holds more than        *)
(* buffer_event_limit, and only a run that is not over holds the lock.          *)
TypeOK ==
  /\ status \in Statuses
  /\ lease \in {p \in Runs : Alive(p)} \cup {None}
  /\ raw \in Seq(Frames)
  /\ normalized \in 0..Len(raw)
  /\ over \in BOOLEAN
  /\ \A p \in Runs :
       /\ main[p].value \in Statuses
       /\ {main[p].attempts, main[p].decoded, main[p].received} \subseteq Nat
       /\ {main[p].stop, main[p].broken, main[p].failing} \subseteq BOOLEAN
       /\ pump[p].queue \in Seq(Frames) /\ pump[p].claim \in Seq(Frames)
       /\ pump[p].last \in 0..Len(raw)
       /\ Waiting(p) <= BufferLimit
  /\ received \in Nat /\ sessions \in Nat

(* A crash never burns more than was reserved, and never less than was used:    *)
(* whenever the process dies, what a restart resumes from covers every frame    *)
(* received and the control allowance of every connection, unless it already    *)
(* closes the session (usage, _message_reservation_runs_low,                    *)
(* _resume_budget_usage).                                                       *)
AccountingCovers ==
  \/ ResumeUsage(status) >= received + ControlMessages * sessions
  \/ ResumeUsage(status) >= Ceiling

(* Over all runs, crashes and reconnects, no more frames are received than the  *)
(* authority's ceiling, as long as a connection needs no more control frames    *)
(* than are set aside for it (the allowance of run_acquisition).                *)
CeilingHeld == MaxControls <= ControlMessages => received <= Ceiling

AllFrames == ToSet(raw) \cup UNION {ToSet(pump[p].queue) \cup ToSet(pump[p].claim) : p \in Runs}

(* A stream session and message number never name two frames: a connection of   *)
(* a restarted run never takes the name of one its predecessor opened, however  *)
(* the predecessor died (uuid5 of connection_attempts, the unique key of        *)
(* raw_messages).                                                               *)
FramesIdentified == \A f, g \in AllFrames : SameIdentity(f, g) => f = g

(* The journal keeps a prefix of each connection, in order: a crash may lose    *)
(* its last frames, never one in the middle (the buffer's claim, append_batch). *)
JournalKeepsPrefixes ==
  \A i \in 1..Len(raw) :
    raw[i].number = Cardinality({j \in 1..(i - 1) : raw[j].conn = raw[i].conn})

(* A run that ends without an error has put every frame it admitted into the    *)
(* journal and had it normalized, whatever backlog it started from (the pump's  *)
(* loop condition, request_stop and join).                                      *)
DrainedOnEnd ==
  \A p \in Runs : main[p].pc = "ended" /\ ~main[p].failing =>
    LET own == {i \in 1..Len(raw) : raw[i].by = p}
    IN Cardinality(own) = main[p].admitted /\ \A i \in own : i <= normalized

(* The pump is never refused by its own journal: the offset it continues from   *)
(* is where the decoder stopped, and its frames are not in conflict with those  *)
(* of an earlier run (commit_normalized_many, append_batch).                    *)
PumpAccepted == \A p \in Runs : pump[p].state \notin {"conflict", "stale"}

(* Where the journal goes from one connection to a later one, a transport gap   *)
(* is recorded for the earlier one (transport_gaps, and "the journal has a hole *)
(* here").                                                                      *)
HolesAreGaps ==
  \A f, g \in ToSet(raw) : f.conn < g.conn =>
    \E i \in 1..Len(status.gaps) : status.gaps[i].attempt = f.conn

(* A session reported COMPLETE has no raw frame that was never normalized.      *)
CompleteIsNormalized == status.state = "COMPLETE" => normalized = Len(raw)

(* A run that is told to stop, or whose session is over, ends and frees the     *)
(* socket (stop_requested, stop_at, the finally block).                         *)
StopEnds ==
  \A p \in Runs : (main[p].stop \/ over) /\ Alive(p) ~> main[p].pc = "ended"
===============================================================================
