----------------------- MODULE OptionsAcquisitionProofs -----------------------
(* Proofs about OptionsAcquisition for runs that do not overlap, as the        *)
(* database lease on the socket has it: any number of runs, one after the      *)
(* other, any ceilings, limits and quanta, with crashes and failures at will;  *)
(* and, in the last part, what holds in addition where nothing fails.          *)
EXTENDS OptionsAcquisition, FiniteSetTheorems, SequenceTheorems, TLAPS

PCs == {"off", "loaded", "opened", "stuck", "released", "ended"} \cup Published
PumpStates == {"off", "starting", "idle", "claimed", "appended", "done", "conflict",
               "unreadable", "stale", "broken", "killed"}
InSession == {"session", "control", "market", "admitting"}

Locals ==
  [pc : PCs, attempts : Nat, decoded : Nat, received : Nat, controls : Nat, accepted : Nat,
   admitted : Nat, value : Statuses, stop : BOOLEAN, broken : BOOLEAN, failing : BOOLEAN,
   paused : BOOLEAN]
Pumps ==
  [state : PumpStates, last : Nat, commit : Nat, queue : Seq(Frames), claim : Seq(Frames),
   stop : BOOLEAN]

Shape ==
  /\ status \in Statuses
  /\ lease \in Runs \cup {None}
  /\ raw \in Seq(Frames)
  /\ normalized \in Nat
  /\ over \in BOOLEAN
  /\ main \in [Runs -> Locals]
  /\ pump \in [Runs -> Pumps]
  /\ received \in Nat
  /\ sessions \in Nat

-------------------------------------------------------------------------------
(* Layer 1: one run at a time, and what its program counter says of its pump.  *)

Alone == \A p, q \in Runs : Alive(p) /\ Alive(q) => p = q

PhaseOK(m, q) ==
  /\ m.pc \in {"off", "loaded"} => q = NoPump
  /\ m.pc \notin {"off", "loaded"} => q.state # "off"
  /\ m.pc = "ended" => q.state \notin {"starting", "idle", "claimed", "appended"}
  /\ m.pc = "released" => q.state = "done" /\ ~m.failing
  /\ m.pc = "exiting" => m.failing
  /\ q.stop => m.pc \in {"joining", "exiting", "released", "ended"}
  /\ q.state = "done" => q.stop /\ q.queue = <<>>
  /\ q.state # "claimed" => q.claim = <<>>
  /\ Len(q.queue) + Len(q.claim) <= BufferLimit

ProgressOK(q) ==
  /\ q.last <= Len(raw)
  /\ q.state \in {"idle", "claimed", "appended"} => q.last = normalized
  /\ q.state = "appended" => q.commit = Len(raw)

Phases ==
  /\ Alone
  /\ lease # None => main[lease].pc \in {"stuck"} \cup Published
  /\ normalized <= Len(raw)
  /\ \A p \in Runs : PhaseOK(main[p], pump[p])
  /\ \A p \in Runs : ProgressOK(pump[p])

-------------------------------------------------------------------------------
(* Layer 2: what the file and each local count covers what was used.           *)

Used == received + ControlMessages * sessions
Covers(n) == n >= Used \/ n >= Ceiling
Count(m) == m.decoded + ControlMessages + m.received

SessionOK(m) ==
  /\ m.decoded < Ceiling
  /\ Used <= Count(m)
  /\ received <= m.decoded + m.received
  /\ m.received = m.controls + m.accepted + (IF m.pc = "session" THEN 0 ELSE 1)
  /\ m.controls + (IF m.pc = "control" THEN 1 ELSE 0) <= MaxControls
  /\ m.accepted + (IF m.pc \in {"market", "admitting"} THEN 1 ELSE 0)
       <= Ceiling - m.decoded - ControlMessages
  /\ \/ m.value.reserved >= Ceiling
     \/ Count(m) + (IF m.pc \in {"session", "admitting"} THEN LowWater ELSE 0)
          <= m.value.reserved

AccountOK(m) ==
  /\ m.pc \in {"loaded", "opened"} =>
       m.value.reserved = ResumeUsage(status) /\ m.decoded = ResumeUsage(status)
  /\ m.pc \in Published \cup {"released"} => m.value.reserved = status.reserved
  /\ m.pc \in {"loop", "reserving", "released"} => Covers(m.decoded)
  /\ m.pc \in {"closing", "joining"} /\ ~m.failing => Covers(m.decoded)
  /\ m.pc = "reserving" =>
       m.decoded < Ceiling /\ Ceiling - m.decoded - ControlMessages > 0
  /\ m.pc \in InSession => SessionOK(m)

Accounts ==
  /\ Covers(status.reserved)
  /\ MaxControls <= ControlMessages => received <= Ceiling
  /\ \A p \in Runs : AccountOK(main[p])

-------------------------------------------------------------------------------
(* Layer 3: a connection's number belongs to one run.                          *)

(* What a run with locals m knows of the number a in the file. *)
AttemptsAt(m, a) ==
  /\ m.pc \in {"loaded", "opened"} \cup Serving => m.attempts = a /\ m.value.attempts = a
  /\ m.pc \in {"closing", "joining", "exiting", "released"} =>
       m.attempts >= a /\ m.value.attempts = a

AttemptsOK(m) == AttemptsAt(m, status.attempts)

(* The frames that run p has admitted and that are not in the journal yet. *)
Held(p) == ToSet(pump[p].queue) \cup ToSet(pump[p].claim)

Names ==
  /\ \A p \in Runs : AttemptsOK(main[p])
  /\ \A p \in Runs : \A f \in Held(p) : f.by = p
  /\ \A f \in AllFrames : f.conn <= status.attempts
  /\ \A f, g \in AllFrames : f.conn = g.conn => f.by = g.by
  /\ \A f \in AllFrames : main[f.by].pc # "off"
  /\ \A p \in Runs : main[p].pc = "reserving" =>
       \A f \in AllFrames : f.conn # main[p].attempts
  /\ \A p \in Runs : main[p].pc \in InSession =>
       \A f \in AllFrames : f.conn = main[p].attempts => f.by = p

-------------------------------------------------------------------------------
(* Layer 4: the journal, the claim and the queue are one line of frames.       *)

Line(p) == raw \o (pump[p].claim \o pump[p].queue)

OfConn(s, c, n) == {j \in 1..n : s[j].conn = c}
ByRun(s, p) == {j \in 1..Len(s) : s[j].by = p}
Numbered(s) == \A i \in 1..Len(s) : s[i].number = Cardinality(OfConn(s, s[i].conn, i - 1))

LineOK(p, s) ==
  /\ Alive(p) => Numbered(s)
  /\ Alive(p) => Cardinality(ByRun(s, p)) = main[p].admitted
  /\ main[p].pc \in InSession =>
       Cardinality(OfConn(s, main[p].attempts, Len(s))) = main[p].accepted

(* A pump that has no rows to normalize has normalized every row of its run. *)
Busy == {"starting", "idle", "claimed", "done"}
Settles(p) ==
  pump[p].state \in Busy => \A i \in 1..Len(raw) : raw[i].by = p => i <= normalized

Lines ==
  /\ Numbered(raw)
  /\ \A p \in Runs : LineOK(p, Line(p))
  /\ \A p \in Runs : Settles(p)
  /\ \A p \in Runs : main[p].pc \in {"off", "loaded"} => main[p].admitted = 0
  /\ PumpAccepted
  /\ DrainedOnEnd

IInv == Shape /\ Phases /\ Accounts /\ Names /\ Lines

-------------------------------------------------------------------------------
(* Layer 1 is inductive.                                                       *)

(* Greatest and Least of two numbers. *)
LEMMA LeastGreatest ==
  ASSUME NEW a \in Nat, NEW b \in Nat
  PROVE  /\ Greatest(a, b) \in Nat /\ Greatest(a, b) >= a /\ Greatest(a, b) >= b
         /\ Least(a, b) \in Nat /\ Least(a, b) <= a /\ Least(a, b) <= b
         /\ Least(a, b) \in {a, b} /\ Greatest(a, b) \in {a, b}
BY DEF Greatest, Least

(* The last element of a sequence. *)
LEMMA LastElement ==
  ASSUME NEW S, NEW q \in Seq(S), q # <<>>
  PROVE  Len(q) \in 1..Len(q) /\ q[Len(q)] \in S
OBVIOUS

(* The lists of gaps stay lists of gaps. *)
LEMMA GapTypes ==
  ASSUME NEW s \in Statuses, NEW n \in Nat
  PROVE  /\ Gap(s, n) \in Seq([attempt : Nat, open : BOOLEAN])
         /\ ClosedGaps(s) \in Seq([attempt : Nat, open : BOOLEAN])
<1>1. Gap(s, n) \in Seq([attempt : Nat, open : BOOLEAN])
  BY DEF Gap, Statuses
<1>2. CASE s.gaps = <<>>
  BY <1>1, <1>2 DEF ClosedGaps, Statuses
<1>3. CASE s.gaps # <<>>
  <2>1. s.gaps \in Seq([attempt : Nat, open : BOOLEAN])
    BY DEF Statuses
  <2>2. Len(s.gaps) \in 1..Len(s.gaps) /\ s.gaps[Len(s.gaps)] \in [attempt : Nat, open : BOOLEAN]
    BY <1>3, <2>1, LastElement
  <2> DEFINE last == s.gaps[Len(s.gaps)]
  <2>0. last \in [attempt : Nat, open : BOOLEAN]
    BY ONLY <2>2
  <2> HIDE DEF last
  <2> DEFINE g == [last EXCEPT !.open = FALSE]
  <2>3. g \in [attempt : Nat, open : BOOLEAN]
    BY <2>0
  <2>4. ClosedGaps(s) = [s.gaps EXCEPT ![Len(s.gaps)] = g]
    BY <1>3 DEF ClosedGaps, last
  <2> HIDE DEF g
  <2>5. ClosedGaps(s) \in Seq([attempt : Nat, open : BOOLEAN])
    BY <2>1, <2>2, <2>3, <2>4
  <2> QED BY <1>1, <2>5
<1> QED BY <1>2, <1>3

(* What the assumption says of the constants, one by one. *)
LEMMA Limits ==
  /\ Ceiling \in Nat /\ Ceiling > 0 /\ AttemptCeiling \in Nat
  /\ ControlMessages \in Nat /\ ControlMessages > 0 /\ MaxControls \in Nat
  /\ Quantum \in Nat /\ LowWater \in Nat /\ LowWater > 0 /\ LowWater <= Quantum
  /\ BufferLimit \in Nat /\ BatchLimit \in Nat /\ BatchLimit > 0
  /\ None \notin Runs
BY AcquisitionAssumption

(* What the shape says of one run. *)
LEMMA RunShape ==
  ASSUME Shape, NEW p \in Runs
  PROVE  /\ main[p] \in Locals /\ main[p].value \in Statuses /\ pump[p] \in Pumps
         /\ main[p].attempts \in Nat /\ main[p].decoded \in Nat /\ main[p].received \in Nat
         /\ main[p].controls \in Nat /\ main[p].accepted \in Nat /\ main[p].admitted \in Nat
<1>1. main[p] \in Locals /\ pump[p] \in Pumps
  BY DEF Shape
<1> QED BY <1>1 DEF Locals

(* What the writers of the status file make of a status. *)
LEMMA ConnectingIs ==
  ASSUME NEW s \in Statuses, NEW n \in Nat, NEW d \in Nat
  PROVE  /\ Connecting(s, n, d) \in Statuses
         /\ Connecting(s, n, d).attempts = n /\ Connecting(s, n, d).reserved = s.reserved
BY DEF Connecting, Statuses, States

LEMMA SettledIs ==
  ASSUME NEW s \in Statuses, NEW state \in States, NEW d \in Nat
  PROVE  /\ Settled(s, state, d) \in Statuses
         /\ Settled(s, state, d).attempts = s.attempts
         /\ Settled(s, state, d).reserved = d /\ Settled(s, state, d).decoded = d
BY DEF Settled, Statuses, States

LEMMA ChargedIs ==
  ASSUME NEW s \in Statuses, NEW d \in Nat
  PROVE  /\ Charged(s, d) \in Statuses
         /\ Charged(s, d).attempts = s.attempts /\ Charged(s, d).decoded = d
         /\ RunsLow(d, s.reserved) => Charged(s, d).reserved = Least(Ceiling, d + Quantum)
         /\ ~RunsLow(d, s.reserved) => Charged(s, d).reserved = s.reserved
<1> DEFINE r == IF RunsLow(d, s.reserved) THEN Least(Ceiling, d + Quantum) ELSE s.reserved
<1>0. Ceiling \in Nat /\ d + Quantum \in Nat
  BY Limits
<1>1. s.reserved \in Nat /\ Least(Ceiling, d + Quantum) \in Nat
  BY <1>0, LeastGreatest DEF Statuses
<1>2. r \in Nat
  BY <1>1
<1>3. Charged(s, d) = [s EXCEPT !.decoded = d, !.reserved = r]
  BY DEF Charged, Statuses
<1>4. r = Least(Ceiling, d + Quantum) \/ ~RunsLow(d, s.reserved)
  OBVIOUS
<1>5. r = s.reserved \/ RunsLow(d, s.reserved)
  OBVIOUS
<1> HIDE DEF r
<1> QED BY <1>2, <1>3, <1>4, <1>5 DEF Statuses

(* A step of one run, with its locals and its pump, that changes neither the   *)
(* journal nor the lock of another run.                                        *)
LEMMA RunStep ==
  ASSUME Shape, Phases, NEW p \in Runs, NEW m \in Locals, NEW q \in Pumps,
         main' = [main EXCEPT ![p] = m], pump' = [pump EXCEPT ![p] = q],
         UNCHANGED <<raw, normalized>>, status' \in Statuses, over' \in BOOLEAN,
         received' \in Nat, sessions' \in Nat, None \notin Runs,
         PhaseOK(m, q), ProgressOK(q),
         m.pc \in {"off", "ended"} \/ Alive(p) \/ \A r \in Runs : ~Alive(r),
         \/ lease' = None
         \/ lease' = p /\ m.pc \in {"stuck"} \cup Published
         \/ lease' = lease /\ lease # p
  PROVE  Shape' /\ Phases'
<1>1. /\ main' \in [Runs -> Locals] /\ main'[p] = m
      /\ \A r \in Runs : r # p => main'[r] = main[r]
      /\ pump' \in [Runs -> Pumps] /\ pump'[p] = q
      /\ \A r \in Runs : r # p => pump'[r] = pump[r]
  BY DEF Shape
<1>2. Shape'
  BY <1>1 DEF Shape
<1>3. Alone'
  BY <1>1 DEF Phases, Alone, Alive
<1>4. (lease # None => main[lease].pc \in {"stuck"} \cup Published)'
  BY <1>1 DEF Phases, Shape
<1>5. \A r \in Runs : PhaseOK(main[r], pump[r])'
  BY <1>1 DEF Phases, PhaseOK
<1>6. \A r \in Runs : ProgressOK(pump[r])'
  BY <1>1 DEF Phases, ProgressOK
<1> QED BY <1>2, <1>3, <1>4, <1>5, <1>6 DEF Phases

(* A step of a main thread or its publisher, which leaves the pump alone. *)
LEMMA MainStep ==
  ASSUME Shape, Phases, NEW p \in Runs, NEW m \in Locals,
         main' = [main EXCEPT ![p] = m], UNCHANGED <<journal, pump>>,
         status' \in Statuses, over' \in BOOLEAN, received' \in Nat, sessions' \in Nat,
         PhaseOK(m, pump[p]),
         m.pc \in {"off", "ended"} \/ Alive(p) \/ \A r \in Runs : ~Alive(r),
         \/ lease' = None
         \/ lease' = p /\ m.pc \in {"stuck"} \cup Published
         \/ lease' = lease /\ lease # p
  PROVE  Shape' /\ Phases'
<1>1. pump[p] \in Pumps /\ pump' = [pump EXCEPT ![p] = pump[p]]
  BY DEF Shape
<1>2. ProgressOK(pump[p])
  BY DEF Phases
<1>3. UNCHANGED <<raw, normalized>> /\ None \notin Runs
  BY AcquisitionAssumption DEF journal
<1> QED BY <1>1, <1>2, <1>3, RunStep

(* Only a run that has taken the lock, or failed right after, holds it. *)
LEMMA NotHolder ==
  ASSUME Phases, NEW p \in Runs, main[p].pc \notin {"stuck"} \cup Published
  PROVE  lease # p
BY AcquisitionAssumption DEF Phases

LEMMA LoadPhases ==
  ASSUME Shape, Phases, Overlap = FALSE, NEW p \in Runs, Load(p)
  PROVE  Shape' /\ Phases'
<1> DEFINE used == ResumeUsage(status)
           v == [state |-> "CONNECTING", attempts |-> status.attempts,
                 decoded |-> used, reserved |-> used, gaps |-> status.gaps]
           m == [main[p] EXCEPT !.pc = "loaded", !.attempts = status.attempts,
                                !.decoded = used, !.value = v]
<1>1. used \in Nat
  BY LeastGreatest DEF ResumeUsage, Shape, Statuses
<1>2. v \in Statuses
  BY <1>1 DEF Shape, Statuses, States
<1>3. main' = [main EXCEPT ![p] = m]
  BY DEF Load
<1> HIDE DEF v, used
<1>4. m \in Locals /\ m.pc = "loaded"
  BY <1>1, <1>2 DEF Shape, Locals, PCs, Statuses
<1>5. main[p].pc = "off" /\ \A r \in Runs : ~Alive(r)
  BY DEF Load
<1>6. PhaseOK(main[p], pump[p])
  BY DEF Phases
<1> HIDE DEF m
<1>7. PhaseOK(m, pump[p])
  BY <1>4, <1>5, <1>6 DEF PhaseOK, NoPump
<1>8. lease' = lease /\ lease # p
  BY <1>5, NotHolder DEF Load, Published, Serving
<1> QED BY <1>3, <1>4, <1>5, <1>7, <1>8, MainStep DEF Load, journal, history, Shape

LEMMA AcquirePhases ==
  ASSUME Shape, Phases, NEW p \in Runs, Acquire(p)
  PROVE  Shape' /\ Phases'
<1> DEFINE v == main[p].value
           m == [main[p] EXCEPT !.pc = "loop", !.value = v]
<1>1. v \in Statuses /\ status' = v
  BY DEF Shape, Locals, Acquire, Persist
<1>2. main[p].pc = "opened" /\ main' = [main EXCEPT ![p] = m] /\ lease' = p
  BY DEF Acquire, Persist
<1>3. m \in Locals /\ m.pc = "loop" /\ m.failing = main[p].failing
  BY <1>1 DEF Shape, Locals, PCs, Published, Serving
<1>4. PhaseOK(main[p], pump[p]) /\ Alive(p)
  BY <1>2 DEF Phases, Alive
<1> HIDE DEF m, v
<1>5. PhaseOK(m, pump[p])
  BY <1>2, <1>3, <1>4 DEF PhaseOK, NoPump
<1> QED BY <1>1, <1>2, <1>3, <1>4, <1>5, MainStep DEF Acquire, journal, history, Shape, Published, Serving

LEMMA StartFailsPhases ==
  ASSUME Shape, Phases, NEW p \in Runs, StartFails(p)
  PROVE  Shape' /\ Phases'
<1> DEFINE m == [main[p] EXCEPT !.pc = "stuck"]
<1>1. main[p].pc = "opened" /\ main' = [main EXCEPT ![p] = m]
  BY DEF StartFails
<1>2. m \in Locals /\ m.pc = "stuck" /\ m.failing = main[p].failing
  BY DEF Shape, Locals, PCs
<1>3. PhaseOK(main[p], pump[p]) /\ Alive(p)
  BY <1>1 DEF Phases, Alive
<1> HIDE DEF m
<1>4. PhaseOK(m, pump[p])
  BY <1>1, <1>2, <1>3 DEF PhaseOK, NoPump
<1> QED BY <1>1, <1>2, <1>3, <1>4, MainStep DEF StartFails, journal, history, Shape

(* A step of the loop over connections that neither starts nor ends the loop's *)
(* process: nothing that layer 1 asks depends on where in the loop the run is.  *)
LEMMA ServingStep ==
  ASSUME Shape, Phases, NEW p \in Runs, NEW m \in Locals,
         main' = [main EXCEPT ![p] = m], UNCHANGED <<lease, journal, over, pump>>,
         main[p].pc \in Serving, m.pc \in Serving \cup {"closing"},
         status' \in Statuses, received' \in Nat, sessions' \in Nat
  PROVE  Shape' /\ Phases'
<1>1. PhaseOK(main[p], pump[p]) /\ Alive(p)
  BY DEF Phases, Alive, Serving
<1>2. PhaseOK(m, pump[p])
  BY <1>1 DEF PhaseOK, Serving
<1>3. over' \in BOOLEAN
  BY DEF Shape
<1>4. \/ lease' = p /\ m.pc \in {"stuck"} \cup Published
      \/ lease' = lease /\ lease # p
  BY DEF Published, Serving
<1> QED BY <1>1, <1>2, <1>3, <1>4, MainStep

LEMMA ConnectPhases ==
  ASSUME Shape, Phases, NEW p \in Runs, Connect(p)
  PROVE  Shape' /\ Phases'
<1> DEFINE n == main[p].attempts + 1
           v == Connecting(main[p].value, n, main[p].decoded)
           refused == [main[p] EXCEPT !.pc = "closing", !.attempts = n]
           tried == [main[p] EXCEPT !.pc = "reserving", !.attempts = n, !.value = v]
<1>1. main[p] \in Locals /\ main[p].value \in Statuses /\ n \in Nat /\ main[p].decoded \in Nat
  BY RunShape
<1>2. v \in Statuses
  <2> HIDE DEF n
  <2> QED BY <1>1, ConnectingIs
<1>3. \/ main' = [main EXCEPT ![p] = refused] /\ status' = status
      \/ main' = [main EXCEPT ![p] = tried] /\ status' = v
  <2>1. CASE Remaining(p) <= 0
    BY <2>1, <1>1 DEF Connect, Shape
  <2>2. CASE ~(Remaining(p) <= 0)
    BY <2>2, <1>1 DEF Connect, Persist
  <2> QED BY <2>1, <2>2
<1> HIDE DEF v, n
<1>4. /\ refused \in Locals /\ refused.pc = "closing"
      /\ tried \in Locals /\ tried.pc = "reserving"
  BY <1>1, <1>2 DEF Locals, PCs, Published, Serving
<1>5. PICK m \in {refused, tried} : main' = [main EXCEPT ![p] = m]
  BY <1>3
<1>6. status' \in Statuses
  BY <1>2, <1>3 DEF Shape
<1>7. m \in Locals /\ m.pc \in Serving \cup {"closing"} /\ main[p].pc \in Serving
  BY <1>4, <1>5 DEF Connect, Serving
<1> QED BY <1>5, <1>6, <1>7, ServingStep DEF Connect, history, Shape

LEMMA ReservePhases ==
  ASSUME Shape, Phases, NEW p \in Runs, Reserve(p)
  PROVE  Shape' /\ Phases'
<1> DEFINE r == Least(Ceiling, main[p].decoded + ControlMessages + Quantum)
           v == [main[p].value EXCEPT !.reserved = r]
           m == [main[p] EXCEPT !.pc = "session", !.received = 0, !.controls = 0,
                                !.accepted = 0, !.value = v]
<1>1. main[p] \in Locals /\ main[p].value \in Statuses /\ r \in Nat
  BY Limits, RunShape DEF Least
<1> HIDE DEF r
<1>2. v \in Statuses
  BY <1>1 DEF Statuses
<1>3. main[p].pc = "reserving" /\ main' = [main EXCEPT ![p] = m] /\ status' = v
  BY DEF Reserve, Persist, r
<1> HIDE DEF v
<1>4. m \in Locals /\ m.pc = "session"
  BY <1>1, <1>2 DEF Locals, PCs, Published, Serving
<1> HIDE DEF m
<1>5. sessions' = sessions + 1 /\ UNCHANGED <<lease, journal, over, pump, received>>
  BY DEF Reserve
<1>6. sessions' \in Nat /\ received' \in Nat
  BY <1>5 DEF Shape
<1>7. main[p].pc \in Serving /\ m.pc \in Serving
  BY <1>3, <1>4 DEF Serving
<1> QED BY <1>2, <1>3, <1>4, <1>5, <1>6, <1>7, ServingStep

LEMMA LeaveLoopPhases ==
  ASSUME Shape, Phases, NEW p \in Runs, LeaveLoop(p)
  PROVE  Shape' /\ Phases'
<1> DEFINE m == [main[p] EXCEPT !.pc = "closing"]
<1>1. main[p].pc \in Serving /\ main' = [main EXCEPT ![p] = m]
  BY DEF LeaveLoop, Serving
<1>2. m \in Locals /\ m.pc = "closing"
  BY RunShape DEF Locals, PCs, Published, Serving
<1> HIDE DEF m
<1> QED BY <1>1, <1>2, ServingStep DEF LeaveLoop, history, Shape

LEMMA ReadyPhases ==
  ASSUME Shape, Phases, NEW p \in Runs, Ready(p)
  PROVE  Shape' /\ Phases'
<1> DEFINE g == ClosedGaps(main[p].value)
           v == [main[p].value EXCEPT !.state = "CAPTURING", !.gaps = g]
           m == [main[p] EXCEPT !.value = v]
<1>1. main[p] \in Locals /\ main[p].value \in Statuses
  BY RunShape
<1>2. g \in Seq([attempt : Nat, open : BOOLEAN])
  BY <1>1, GapTypes
<1>3. main[p].pc = "session" /\ main' = [main EXCEPT ![p] = m] /\ status' = v
  BY DEF Ready, Persist
<1> HIDE DEF g
<1>4. v \in Statuses
  BY <1>1, <1>2 DEF Statuses, States
<1> HIDE DEF v
<1>5. m \in Locals /\ m.pc = main[p].pc
  BY <1>1, <1>4 DEF Locals
<1> HIDE DEF m
<1> QED BY <1>3, <1>4, <1>5, ServingStep DEF Ready, history, Shape, Serving

LEMMA ReceivePhases ==
  ASSUME Shape, Phases, NEW p \in Runs, NEW kind \in {"control", "market"}, Receive(p, kind)
  PROVE  Shape' /\ Phases'
<1> DEFINE n == main[p].received + 1
           m == [main[p] EXCEPT !.pc = kind, !.received = n]
<1>1. main[p] \in Locals /\ n \in Nat
  BY RunShape
<1>2. main[p].pc = "session" /\ main' = [main EXCEPT ![p] = m]
  BY DEF Receive
<1> HIDE DEF n
<1>3. m \in Locals /\ m.pc = kind
  BY <1>1 DEF Locals, PCs, Published, Serving
<1> HIDE DEF m
<1>4. received' \in Nat /\ sessions' \in Nat /\ status' \in Statuses
  BY DEF Receive, Shape
<1> QED BY <1>2, <1>3, <1>4, ServingStep DEF Receive, Serving

(* A charge writes the file or only the publisher's value. *)
LEMMA ChargeStep ==
  ASSUME Shape, Phases, NEW p \in Runs, NEW l \in Locals, Charge(p, l),
         main[p].pc \in Serving, l.pc \in Serving,
         UNCHANGED <<lease, journal, over, pump, history>>
  PROVE  Shape' /\ Phases'
<1> DEFINE v == Charged(main[p].value, Counted(p))
           m == [l EXCEPT !.value = v]
<1>1. main[p].value \in Statuses /\ Counted(p) \in Nat
  BY Limits, RunShape DEF Counted
<1>2. v \in Statuses
  BY <1>1, ChargedIs
<1>3. main' = [main EXCEPT ![p] = m] /\ status' \in {status, v}
  BY DEF Charge, Persist
<1> HIDE DEF v
<1>4. m \in Locals /\ m.pc = l.pc
  BY <1>2 DEF Locals
<1> HIDE DEF m
<1>5. received' \in Nat /\ sessions' \in Nat /\ status' \in Statuses
  BY <1>2, <1>3 DEF Shape, history
<1> QED BY <1>3, <1>4, <1>5, ServingStep

LEMMA TakeControlPhases ==
  ASSUME Shape, Phases, NEW p \in Runs, TakeControl(p)
  PROVE  Shape' /\ Phases'
<1> DEFINE n == main[p].controls + 1
           l == [main[p] EXCEPT !.pc = "session", !.controls = n]
<1>1. main[p] \in Locals /\ n \in Nat
  BY RunShape
<1>2. main[p].pc = "control" /\ Charge(p, l)
  BY DEF TakeControl
<1> HIDE DEF n
<1>3. l \in Locals /\ l.pc = "session"
  BY <1>1 DEF Locals, PCs, Published, Serving
<1> HIDE DEF l
<1> QED BY <1>2, <1>3, ChargeStep DEF TakeControl, Serving

LEMMA ChargeMarketPhases ==
  ASSUME Shape, Phases, NEW p \in Runs, ChargeMarket(p)
  PROVE  Shape' /\ Phases'
<1> DEFINE l == [main[p] EXCEPT !.pc = "admitting"]
<1>1. main[p].pc = "market" /\ Charge(p, l)
  BY DEF ChargeMarket
<1>2. l \in Locals /\ l.pc = "admitting"
  BY RunShape DEF Locals, PCs, Published, Serving
<1> HIDE DEF l
<1> QED BY <1>1, <1>2, ChargeStep DEF ChargeMarket, Serving

LEMMA AdmitPhases ==
  ASSUME Shape, Phases, NEW p \in Runs, Admit(p)
  PROVE  Shape' /\ Phases'
<1> DEFINE frame == [conn |-> main[p].attempts, number |-> main[p].accepted, by |-> p]
           longer == Append(pump[p].queue, frame)
           a == main[p].accepted + 1
           b == main[p].admitted + 1
           m == [main[p] EXCEPT !.pc = "session", !.accepted = a, !.admitted = b]
           q == [pump[p] EXCEPT !.queue = longer]
<1>1. main[p] \in Locals /\ a \in Nat /\ b \in Nat /\ frame \in Frames
  BY RunShape DEF Frames
<1>2. pump[p] \in Pumps /\ pump[p].queue \in Seq(Frames) /\ pump[p].claim \in Seq(Frames)
  BY RunShape DEF Pumps
<1>3. main[p].pc = "admitting" /\ main' = [main EXCEPT ![p] = m]
  BY DEF Admit
<1>4. pump' = [pump EXCEPT ![p] = q]
  BY DEF Admit, Put
<1> HIDE DEF frame
<1>5. longer \in Seq(Frames) /\ Len(longer) = Len(pump[p].queue) + 1
  BY <1>1, <1>2
<1> HIDE DEF a, b, longer
<1>6. m \in Locals /\ m.pc = "session"
  BY <1>1 DEF Locals, PCs, Published, Serving
<1>7. /\ q \in Pumps /\ q.queue = longer /\ q.claim = pump[p].claim /\ q.last = pump[p].last
      /\ q.state = pump[p].state /\ q.stop = pump[p].stop /\ q.commit = pump[p].commit
  BY <1>2, <1>5 DEF Pumps
<1>8. PhaseOK(main[p], pump[p]) /\ ProgressOK(pump[p]) /\ Alive(p)
  BY <1>3 DEF Phases, Alive
<1> HIDE DEF m, q
<1>9. PhaseOK(m, q)
  <2>1. Len(longer) + Len(q.claim) <= BufferLimit
    <3> DEFINE x == Len(pump[p].queue)
               y == Len(pump[p].claim)
    <3>1. x + y < BufferLimit
      BY DEF Admit, HasRoom, Waiting
    <3>2. x \in Nat /\ y \in Nat /\ BufferLimit \in Nat
      BY <1>2, Limits
    <3>3. Len(longer) = x + 1 /\ Len(q.claim) = y
      BY <1>5, <1>7
    <3> HIDE DEF x, y
    <3>4. (x + 1) + y <= BufferLimit
      BY <3>1, <3>2
    <3> QED BY <3>3, <3>4
  <2> QED BY <2>1, <1>3, <1>6, <1>7, <1>8 DEF PhaseOK
<1>10. ProgressOK(q)
  BY <1>7, <1>8 DEF ProgressOK
<1>11. \/ lease' = p /\ m.pc \in {"stuck"} \cup Published
       \/ lease' = lease /\ lease # p
  BY <1>6 DEF Admit, Published, Serving
<1>12. /\ UNCHANGED <<raw, normalized>> /\ status' \in Statuses /\ over' \in BOOLEAN
       /\ received' \in Nat /\ sessions' \in Nat
  BY DEF Admit, journal, history, Shape
<1> QED BY Limits, <1>3, <1>4, <1>6, <1>7, <1>8, <1>9, <1>10, <1>11, <1>12, RunStep

LEMMA FailPhases ==
  ASSUME Shape, Phases, NEW p \in Runs, Fail(p), main[p].pc \in Serving
  PROVE  Shape' /\ Phases'
<1> DEFINE v == [main[p].value EXCEPT !.state = "FAILED"]
           m == [main[p] EXCEPT !.pc = "closing", !.failing = TRUE, !.value = v]
<1>1. main[p] \in Locals /\ v \in Statuses
  BY RunShape DEF Statuses, States
<1>2. main' = [main EXCEPT ![p] = m] /\ status' = v
  BY DEF Fail, Persist
<1> HIDE DEF v
<1>3. m \in Locals /\ m.pc = "closing"
  BY <1>1 DEF Locals, PCs, Published, Serving
<1> HIDE DEF m
<1> QED BY <1>1, <1>2, <1>3, ServingStep DEF Fail, history, Shape

LEMMA DropPhases ==
  ASSUME Shape, Phases, NEW p \in Runs, Drop(p)
  PROVE  Shape' /\ Phases'
<1> DEFINE n == Counted(p)
           s == Settled(main[p].value, "RECONNECTING", n)
           g == Gap(main[p].value, main[p].attempts)
           v == [s EXCEPT !.gaps = g]
           m == [main[p] EXCEPT !.pc = "loop", !.decoded = n, !.value = v]
<1>1. main[p] \in Locals /\ main[p].value \in Statuses /\ n \in Nat
  BY Limits, RunShape DEF Counted
<1>2. g \in Seq([attempt : Nat, open : BOOLEAN])
  BY RunShape, GapTypes
<1>3. main[p].pc \in Serving /\ main' = [main EXCEPT ![p] = m] /\ status' = v
  BY DEF Drop, Persist, Serving
<1> HIDE DEF n
<1>4. s \in Statuses
  BY <1>1, SettledIs DEF States
<1> HIDE DEF s, g
<1>5. v \in Statuses
  BY <1>2, <1>4 DEF Statuses
<1> HIDE DEF v
<1>6. m \in Locals /\ m.pc = "loop"
  BY <1>1, <1>5 DEF Locals, PCs, Published, Serving
<1> HIDE DEF m
<1> QED BY <1>3, <1>5, <1>6, ServingStep DEF Drop, history, Shape, Serving

LEMMA EndSessionPhases ==
  ASSUME Shape, Phases, NEW p \in Runs, EndSession(p)
  PROVE  Shape' /\ Phases'
<1> DEFINE full == main[p].accepted = Remaining(p)
           n == Counted(p)
           v == Settled(main[p].value, "CAPTURING", n)
           pc == IF full THEN "loop" ELSE "closing"
           m == [main[p] EXCEPT !.pc = pc, !.decoded = n, !.value = v]
<1>1. main[p] \in Locals /\ main[p].value \in Statuses /\ n \in Nat
  BY Limits, RunShape DEF Counted
<1>2. main[p].pc \in Serving /\ main' = [main EXCEPT ![p] = m] /\ status' = v
  BY DEF EndSession, Persist, Serving
<1>3. pc \in {"loop", "closing"}
  OBVIOUS
<1> HIDE DEF n, pc
<1>4. v \in Statuses
  BY <1>1, SettledIs DEF States
<1> HIDE DEF v
<1>5. m \in Locals /\ m.pc = pc
  BY <1>1, <1>3, <1>4 DEF Locals, PCs, Published, Serving
<1> HIDE DEF m
<1> QED BY <1>2, <1>3, <1>4, <1>5, ServingStep DEF EndSession, history, Shape, Serving

LEMMA AbortPhases ==
  ASSUME Shape, Phases, NEW p \in Runs, Abort(p)
  PROVE  Shape' /\ Phases'
<1> DEFINE m == [main[p] EXCEPT !.pc = "closing", !.failing = TRUE]
<1>1. main[p].pc \in Serving /\ main' = [main EXCEPT ![p] = m]
  BY DEF Abort
<1>2. m \in Locals /\ m.pc = "closing"
  BY RunShape DEF Locals, PCs, Published, Serving
<1> HIDE DEF m
<1> QED BY <1>1, <1>2, ServingStep DEF Abort, history, Shape

LEMMA OpenPumpPhases ==
  ASSUME Shape, Phases, NEW p \in Runs, OpenPump(p)
  PROVE  Shape' /\ Phases'
<1> DEFINE m == [main[p] EXCEPT !.pc = "opened"]
           q == [pump[p] EXCEPT !.state = "starting"]
<1>1. main[p].pc = "loaded" /\ main' = [main EXCEPT ![p] = m] /\ pump' = [pump EXCEPT ![p] = q]
  BY DEF OpenPump
<1>2. m \in Locals /\ m.pc = "opened"
  BY RunShape DEF Locals, PCs
<1>3. pump[p] = NoPump /\ ProgressOK(pump[p]) /\ Alive(p)
  BY <1>1 DEF Phases, PhaseOK, Alive
<1>4. /\ q \in Pumps /\ q.state = "starting" /\ q.queue = <<>> /\ q.claim = <<>>
      /\ q.last = 0 /\ ~q.stop
  <2>1. /\ q \in Pumps /\ q.state = "starting" /\ q.queue = pump[p].queue
        /\ q.claim = pump[p].claim /\ q.last = pump[p].last /\ q.stop = pump[p].stop
    BY RunShape DEF Pumps, PumpStates
  <2>2. /\ pump[p].queue = <<>> /\ pump[p].claim = <<>> /\ pump[p].last = 0
        /\ pump[p].stop = FALSE
    BY <1>3 DEF NoPump
  <2> HIDE DEF q
  <2> QED BY <2>1, <2>2
<1> HIDE DEF m, q
<1>5. PhaseOK(m, q)
  BY <1>2, <1>4, Limits DEF PhaseOK
<1>6. ProgressOK(q)
  BY <1>4 DEF ProgressOK, Shape
<1>7. lease' = lease /\ lease # p
  BY <1>1, NotHolder DEF OpenPump, Published, Serving
<1>8. /\ UNCHANGED <<raw, normalized>> /\ status' \in Statuses /\ over' \in BOOLEAN
      /\ received' \in Nat /\ sessions' \in Nat
  BY DEF OpenPump, journal, history, Shape
<1> QED BY Limits, <1>1, <1>2, <1>3, <1>4, <1>5, <1>6, <1>7, <1>8, RunStep

LEMMA ClosePhases ==
  ASSUME Shape, Phases, NEW p \in Runs, Close(p)
  PROVE  Shape' /\ Phases'
<1> DEFINE paused == StopPauses(p)
           state == IF paused THEN "PAUSED" ELSE "DRAINING"
           v == [main[p].value EXCEPT !.state = state]
           failed == [main[p] EXCEPT !.pc = "joining", !.paused = paused, !.failing = TRUE]
           drained == [main[p] EXCEPT !.pc = "joining", !.paused = paused, !.value = v]
           q == [pump[p] EXCEPT !.stop = TRUE]
<1>1. main[p] \in Locals /\ main[p].value \in Statuses
  BY RunShape
<1>2. paused \in BOOLEAN
  BY <1>1 DEF StopPauses, Locals
<1>3. state \in States
  BY DEF States
<1>4. main[p].pc = "closing" /\ pump' = [pump EXCEPT ![p] = q]
  BY DEF Close
<1>5. \/ main' = [main EXCEPT ![p] = failed] /\ status' = status
      \/ main' = [main EXCEPT ![p] = drained] /\ status' = v
  <2>1. CASE main[p].value.state = "FAILED" \/ main[p].broken
    BY <2>1, <1>1 DEF Close
  <2>2. CASE ~(main[p].value.state = "FAILED" \/ main[p].broken)
    BY <2>2, <1>1 DEF Close, Persist
  <2> QED BY <2>1, <2>2
<1> HIDE DEF paused, state
<1>6. v \in Statuses
  BY <1>1, <1>3 DEF Statuses
<1> HIDE DEF v
<1>7. /\ failed \in Locals /\ failed.pc = "joining"
      /\ drained \in Locals /\ drained.pc = "joining"
  BY <1>1, <1>2, <1>6 DEF Locals, PCs, Published
<1> HIDE DEF failed, drained
<1>8. PICK m \in {failed, drained} : main' = [main EXCEPT ![p] = m]
  BY <1>5
<1>9. m \in Locals /\ m.pc = "joining" /\ status' \in Statuses
  BY <1>5, <1>6, <1>7, <1>8 DEF Shape
<1>10. PhaseOK(main[p], pump[p]) /\ ProgressOK(pump[p]) /\ Alive(p)
  BY <1>4 DEF Phases, Alive
<1>11. /\ q \in Pumps /\ q.queue = pump[p].queue /\ q.claim = pump[p].claim
       /\ q.last = pump[p].last /\ q.state = pump[p].state /\ q.commit = pump[p].commit /\ q.stop
  BY RunShape DEF Pumps
<1> HIDE DEF q
<1>12. PhaseOK(m, q)
  BY <1>4, <1>9, <1>10, <1>11 DEF PhaseOK
<1>13. ProgressOK(q)
  BY <1>10, <1>11 DEF ProgressOK
<1>14. \/ lease' = p /\ m.pc \in {"stuck"} \cup Published
       \/ lease' = lease /\ lease # p
  BY <1>9 DEF Close, Published
<1>15. /\ UNCHANGED <<raw, normalized>> /\ over' \in BOOLEAN
       /\ received' \in Nat /\ sessions' \in Nat
  BY DEF Close, journal, history, Shape
<1> QED BY Limits, <1>4, <1>8, <1>9, <1>10, <1>11, <1>12, <1>13, <1>14, <1>15, RunStep

(* The locals of a run that ends are those of a run that never started, but    *)
(* for what the properties still ask of it.                                    *)
LEMMA EndedIs ==
  ASSUME NEW l \in Locals
  PROVE  /\ Ended(l) \in Locals /\ Ended(l).pc = "ended"
         /\ Ended(l).failing = l.failing /\ Ended(l).admitted = l.admitted
<1>1. Unstarted \in Locals
  BY DEF Unstarted, Fresh, Locals, Statuses, States, PCs
<1> QED BY <1>1 DEF Ended, Locals, PCs

LEMMA ReleasePhases ==
  ASSUME Shape, Phases, NEW p \in Runs, Release(p)
  PROVE  Shape' /\ Phases'
<1> DEFINE failing == main[p].failing \/ main[p].broken
           l == [main[p] EXCEPT !.failing = TRUE]
           freed == [main[p] EXCEPT !.pc = "released"]
           m == IF failing THEN Ended(l) ELSE freed
<1>1. main[p] \in Locals /\ main[p].value \in Statuses
  BY RunShape
<1>2. main[p].pc = "joining" /\ pump[p].state = "done" /\ lease' = None
  BY DEF Release, Joined
<1>3. main' = [main EXCEPT ![p] = m]
  BY DEF Release
<1>4. l \in Locals
  BY <1>1 DEF Locals
<1>5. freed \in Locals /\ freed.pc = "released" /\ freed.failing = main[p].failing
  BY <1>1 DEF Locals, PCs
<1> HIDE DEF l, freed
<1>6. m \in Locals /\ (m.pc = "ended" \/ (m.pc = "released" /\ ~m.failing))
  BY <1>1, <1>4, <1>5, EndedIs DEF Locals
<1>7. PhaseOK(main[p], pump[p]) /\ Alive(p)
  BY <1>2 DEF Phases, Alive
<1> HIDE DEF m
<1>8. PhaseOK(m, pump[p])
  BY <1>2, <1>6, <1>7 DEF PhaseOK
<1>9. status' \in Statuses /\ UNCHANGED <<journal, over, pump, history>>
  BY <1>1 DEF Release, Shape
<1> QED BY <1>2, <1>3, <1>6, <1>7, <1>8, <1>9, MainStep DEF history, Shape

LEMMA JoinFailsPhases ==
  ASSUME Shape, Phases, NEW p \in Runs, JoinFails(p)
  PROVE  Shape' /\ Phases'
<1> DEFINE m == [main[p] EXCEPT !.pc = "exiting", !.failing = TRUE]
<1>1. main[p].pc = "joining" /\ main' = [main EXCEPT ![p] = m]
  BY DEF JoinFails
<1>2. m \in Locals /\ m.pc = "exiting" /\ m.failing
  BY RunShape DEF Locals, PCs, Published
<1>3. PhaseOK(main[p], pump[p]) /\ Alive(p)
  BY <1>1 DEF Phases, Alive
<1> HIDE DEF m
<1>4. PhaseOK(m, pump[p])
  BY <1>1, <1>2, <1>3 DEF PhaseOK
<1>5. \/ lease' = p /\ m.pc \in {"stuck"} \cup Published
      \/ lease' = lease /\ lease # p
  BY <1>2 DEF JoinFails, Published
<1> QED BY <1>1, <1>2, <1>3, <1>4, <1>5, MainStep DEF JoinFails, history, Shape

LEMMA ExitPhases ==
  ASSUME Shape, Phases, NEW p \in Runs, Exit(p)
  PROVE  Shape' /\ Phases'
<1> DEFINE m == Ended(main[p])
<1>1. main[p].pc = "exiting" /\ PumpEnded(p) /\ main' = [main EXCEPT ![p] = m] /\ lease' = None
  BY DEF Exit
<1>2. m \in Locals /\ m.pc = "ended"
  BY RunShape, EndedIs
<1>3. PhaseOK(main[p], pump[p]) /\ Alive(p)
  BY <1>1 DEF Phases, Alive
<1> HIDE DEF m
<1>4. PhaseOK(m, pump[p])
  BY <1>1, <1>2, <1>3 DEF PhaseOK, PumpEnded
<1> QED BY <1>1, <1>2, <1>3, <1>4, MainStep DEF Exit, history, Shape

LEMMA ReportedIs ==
  ASSUME Shape, NEW p \in Runs
  PROVE  /\ Reported(p) \in Statuses
         /\ \/ /\ Reported(p).attempts = main[p].value.attempts
               /\ Reported(p).reserved = main[p].value.reserved
            \/ /\ Reported(p).attempts = main[p].attempts
               /\ Reported(p).reserved = main[p].decoded
<1> DEFINE d == main[p].decoded
           s == Settled(main[p].value, "COMPLETE", d)
           n == main[p].attempts
           g == Gap(s, n)
<1>1. main[p] \in Locals /\ main[p].value \in Statuses /\ n \in Nat /\ d \in Nat
  BY RunShape
<1>2. s \in Statuses /\ s.reserved = d
  <2>1. "COMPLETE" \in States
    BY DEF States
  <2> HIDE DEF d
  <2> QED BY <1>1, <2>1, SettledIs
<1>3. g \in Seq([attempt : Nat, open : BOOLEAN])
  BY <1>1, <1>2, GapTypes
<1>4. CASE main[p].paused
  <2>1. Reported(p) = [s EXCEPT !.state = "PAUSED", !.attempts = n, !.gaps = g]
    BY <1>4 DEF Reported
  <2> HIDE DEF s, n, g
  <2>2. Reported(p) \in Statuses /\ Reported(p).attempts = n /\ Reported(p).reserved = s.reserved
    BY <2>1, <1>1, <1>2, <1>3 DEF Statuses, States
  <2> QED BY <2>2, <1>2 DEF n
<1>5. CASE ~main[p].paused /\ pump[p].last = 0
  <2>1. Reported(p) = [main[p].value EXCEPT !.state = "FAILED"]
    BY <1>5 DEF Reported
  <2> QED BY <2>1, <1>1 DEF Statuses, States
<1>6. CASE ~main[p].paused /\ pump[p].last # 0
  <2>1. Reported(p) = [s EXCEPT !.attempts = n]
    BY <1>6 DEF Reported
  <2> HIDE DEF s, n
  <2>2. Reported(p) \in Statuses /\ Reported(p).attempts = n /\ Reported(p).reserved = s.reserved
    BY <2>1, <1>1, <1>2 DEF Statuses
  <2> QED BY <2>2, <1>2 DEF n
<1> QED BY <1>4, <1>5, <1>6

LEMMA ReportPhases ==
  ASSUME Shape, Phases, NEW p \in Runs, Report(p)
  PROVE  Shape' /\ Phases'
<1>1. PICK written \in {TRUE} \cup {~CanFail} :
        /\ status' = IF written THEN Reported(p) ELSE status
        /\ main' = [main EXCEPT ![p] =
             Ended([main[p] EXCEPT !.failing = ~written \/ Reported(p).state = "FAILED"])]
  BY DEF Report
<1> DEFINE b == ~written \/ Reported(p).state = "FAILED"
           l == [main[p] EXCEPT !.failing = b]
           m == Ended(l)
<1>2. b \in BOOLEAN /\ status' \in Statuses
  BY <1>1, ReportedIs DEF Shape
<1>3. main[p].pc = "released" /\ main' = [main EXCEPT ![p] = m]
  BY <1>1 DEF Report
<1> HIDE DEF b
<1>4. l \in Locals
  BY <1>2, RunShape DEF Locals
<1> HIDE DEF l
<1>5. m \in Locals /\ m.pc = "ended"
  BY <1>4, EndedIs
<1>6. PhaseOK(main[p], pump[p]) /\ Alive(p)
  BY <1>3 DEF Phases, Alive
<1> HIDE DEF m
<1>7. PhaseOK(m, pump[p])
  BY <1>3, <1>5, <1>6 DEF PhaseOK
<1>8. lease' = lease /\ lease # p
  BY <1>3, NotHolder DEF Report, Published, Serving
<1> QED BY <1>2, <1>3, <1>5, <1>6, <1>7, <1>8, MainStep DEF Report, history, Shape

LEMMA HeartbeatPhases ==
  ASSUME Shape, Phases, NEW p \in Runs, Heartbeat(p)
  PROVE  Shape' /\ Phases'
<1>1. status' \in Statuses /\ UNCHANGED <<lease, raw, normalized, over, main, pump, received, sessions>>
  BY RunShape DEF Heartbeat, journal, history
<1>2. Shape'
  BY <1>1 DEF Shape
<1> QED BY <1>1, <1>2 DEF Phases, Alone, Alive, PhaseOK, ProgressOK

(* A flag of a run is set: its program counter stays where it is. *)
LEMMA FlagStep ==
  ASSUME Shape, Phases, NEW p \in Runs, NEW m \in Locals, main' = [main EXCEPT ![p] = m],
         UNCHANGED <<status, lease, journal, over, pump, history>>,
         m.pc = main[p].pc, m.failing = main[p].failing, Alive(p)
  PROVE  Shape' /\ Phases'
<1>1. PhaseOK(m, pump[p])
  BY DEF Phases, PhaseOK
<1>2. \/ lease' = p /\ m.pc \in {"stuck"} \cup Published
      \/ lease' = lease /\ lease # p
  BY Limits DEF Phases
<1> QED BY <1>1, <1>2, MainStep DEF history, Shape

LEMMA StatusFailsPhases ==
  ASSUME Shape, Phases, NEW p \in Runs, StatusFails(p)
  PROVE  Shape' /\ Phases'
<1> DEFINE m == [main[p] EXCEPT !.broken = TRUE]
<1>1. main' = [main EXCEPT ![p] = m] /\ Alive(p)
  BY DEF StatusFails, Alive, Published, Serving
<1>2. m \in Locals /\ m.pc = main[p].pc /\ m.failing = main[p].failing
  BY RunShape DEF Locals
<1> HIDE DEF m
<1> QED BY <1>1, <1>2, FlagStep DEF StatusFails

LEMMA RequestStopPhases ==
  ASSUME Shape, Phases, NEW p \in Runs, RequestStop(p)
  PROVE  Shape' /\ Phases'
<1> DEFINE m == [main[p] EXCEPT !.stop = TRUE]
<1>1. main' = [main EXCEPT ![p] = m] /\ Alive(p)
  BY DEF RequestStop
<1>2. m \in Locals /\ m.pc = main[p].pc /\ m.failing = main[p].failing
  BY RunShape DEF Locals
<1> HIDE DEF m
<1> QED BY <1>1, <1>2, FlagStep DEF RequestStop

LEMMA NoPumpIs ==
  /\ NoPump \in Pumps
  /\ NoPump.queue = <<>> /\ NoPump.claim = <<>> /\ NoPump.last = 0 /\ NoPump.stop = FALSE
<1>1. <<>> \in Seq(Frames)
  OBVIOUS
<1> QED BY <1>1 DEF NoPump, Pumps, PumpStates

LEMMA CrashPhases ==
  ASSUME Shape, Phases, NEW p \in Runs, Crash(p)
  PROVE  Shape' /\ Phases'
<1> DEFINE l == [main[p] EXCEPT !.failing = TRUE]
           m == Ended(l)
           q == [NoPump EXCEPT !.state = "killed"]
<1>1. Alive(p) /\ main' = [main EXCEPT ![p] = m] /\ pump' = [pump EXCEPT ![p] = q]
  BY DEF Crash
<1>2. l \in Locals
  BY RunShape DEF Locals
<1> HIDE DEF l
<1>3. m \in Locals /\ m.pc = "ended"
  BY <1>2, EndedIs
<1>4. /\ q \in Pumps /\ q.state = "killed" /\ q.queue = <<>> /\ q.claim = <<>>
      /\ q.last = 0 /\ ~q.stop
  BY NoPumpIs DEF Pumps, PumpStates
<1> HIDE DEF m, q
<1>5. PhaseOK(m, q)
  BY <1>3, <1>4, Limits DEF PhaseOK
<1>6. ProgressOK(q)
  BY <1>4 DEF ProgressOK, Shape
<1>7. lease' = None \/ (lease' = lease /\ lease # p)
  BY DEF Crash
<1>8. /\ UNCHANGED <<raw, normalized>> /\ status' \in Statuses /\ over' \in BOOLEAN
      /\ received' \in Nat /\ sessions' \in Nat
  BY DEF Crash, journal, history, Shape
<1> QED BY Limits, <1>1, <1>3, <1>4, <1>5, <1>6, <1>7, <1>8, RunStep

LEMMA SessionEndsPhases ==
  ASSUME Shape, Phases, SessionEnds
  PROVE  Shape' /\ Phases'
<1>1. over' = TRUE /\ UNCHANGED <<status, lease, raw, normalized, main, pump, received, sessions>>
  BY DEF SessionEnds, journal, history
<1> QED BY <1>1 DEF Shape, Phases, Alone, Alive, PhaseOK, ProgressOK

(* A pump thread that runs belongs to a live process. *)
LEMMA PumpAlive ==
  ASSUME Phases, NEW p \in Runs,
         pump[p].state \in {"starting", "idle", "claimed", "appended"}
  PROVE  Alive(p) /\ main[p].pc # "loaded"
<1>1. PhaseOK(main[p], pump[p])
  BY DEF Phases
<1>2. NoPump.state = "off"
  BY DEF NoPump
<1> QED BY <1>1, <1>2 DEF PhaseOK, Alive

(* A step of a pump thread: its run is the only one alive, so no other pump    *)
(* runs, and none is behind the journal it changes.                            *)
LEMMA PumpStep ==
  ASSUME Shape, Phases, NEW p \in Runs, NEW q \in Pumps,
         pump[p].state \in {"starting", "idle", "claimed", "appended"},
         pump' = [pump EXCEPT ![p] = q], UNCHANGED <<status, lease, over, main, history>>,
         raw' \in Seq(Frames), normalized' \in Nat,
         Len(raw) <= Len(raw'), normalized' <= Len(raw'),
         PhaseOK(main[p], q), q.last <= Len(raw'),
         q.state \in {"idle", "claimed", "appended"} => q.last = normalized',
         q.state = "appended" => q.commit = Len(raw')
  PROVE  Shape' /\ Phases'
<1>1. /\ pump' \in [Runs -> Pumps] /\ pump'[p] = q
      /\ \A r \in Runs : r # p => pump'[r] = pump[r]
  BY DEF Shape
<1>2. Shape'
  BY <1>1 DEF Shape, history
<1>3. Alive(p)
  BY PumpAlive
<1>4. \A r \in Runs : r # p => pump[r].state \notin {"starting", "idle", "claimed", "appended"}
  <2> SUFFICES ASSUME NEW r \in Runs, r # p
               PROVE  pump[r].state \notin {"starting", "idle", "claimed", "appended"}
    OBVIOUS
  <2>1. ~Alive(r)
    BY <1>3 DEF Phases, Alone
  <2> QED BY <2>1, PumpAlive
<1>5. \A r \in Runs : PhaseOK(main[r], pump[r])'
  BY <1>1 DEF Phases, PhaseOK
<1>6. \A r \in Runs : ProgressOK(pump[r])'
  <2> SUFFICES ASSUME NEW r \in Runs PROVE ProgressOK(pump[r])'
    OBVIOUS
  <2>1. CASE r = p
    BY <2>1, <1>1 DEF ProgressOK
  <2>2. CASE r # p
    <3>1. pump[r].last <= Len(raw) /\ pump[r].last \in Nat /\ Len(raw) \in Nat /\ Len(raw') \in Nat
      BY DEF Phases, ProgressOK, Shape, Pumps
    <3>2. pump[r].last <= Len(raw')
      BY <3>1
    <3> QED BY <2>2, <1>1, <1>4, <3>2 DEF ProgressOK
  <2> QED BY <2>1, <2>2
<1>7. Alone' /\ (lease # None => main[lease].pc \in {"stuck"} \cup Published)'
  BY DEF Phases, Alone, Alive
<1> QED BY <1>2, <1>5, <1>6, <1>7 DEF Phases

LEMMA PumpRecoverPhases ==
  ASSUME Shape, Phases, NEW p \in Runs, PumpRecover(p)
  PROVE  Shape' /\ Phases'
<1> DEFINE q == [pump[p] EXCEPT !.state = "idle", !.last = normalized]
<1>1. pump[p].state = "starting" /\ pump' = [pump EXCEPT ![p] = q]
  BY DEF PumpRecover, RecoveredOffset
<1>2. pump[p] \in Pumps /\ normalized \in Nat
  BY RunShape DEF Shape
<1>3. /\ q \in Pumps /\ q.state = "idle" /\ q.last = normalized /\ q.queue = pump[p].queue
      /\ q.claim = pump[p].claim /\ q.stop = pump[p].stop
  BY <1>2 DEF Pumps, PumpStates
<1> HIDE DEF q
<1>4. PhaseOK(main[p], q)
  <2>1. PhaseOK(main[p], pump[p]) /\ main[p].pc \notin {"off", "loaded"}
    BY <1>1, PumpAlive DEF Phases, Alive
  <2> QED BY <1>1, <1>3, <2>1 DEF PhaseOK
<1>5. UNCHANGED <<status, lease, raw, normalized, over, main, history>>
  BY DEF PumpRecover, journal
<1>6. /\ raw' \in Seq(Frames) /\ normalized' \in Nat
      /\ Len(raw) <= Len(raw') /\ normalized' <= Len(raw') /\ q.last <= Len(raw')
  BY <1>3, <1>5 DEF Shape, Phases
<1> QED BY <1>1, <1>3, <1>4, <1>5, <1>6, PumpStep

(* A sequence cut in two. *)
LEMMA Cut ==
  ASSUME NEW S, NEW s \in Seq(S), NEW n \in 0..Len(s)
  PROVE  /\ SubSeq(s, 1, n) \in Seq(S) /\ SubSeq(s, n + 1, Len(s)) \in Seq(S)
         /\ Len(SubSeq(s, 1, n)) = n /\ Len(SubSeq(s, n + 1, Len(s))) = Len(s) - n
         /\ SubSeq(s, 1, n) \o SubSeq(s, n + 1, Len(s)) = s
<1>1. SubSeq(s, 1, n) \in Seq(S) /\ Len(SubSeq(s, 1, n)) = n
  OBVIOUS
<1>2. SubSeq(s, n + 1, Len(s)) \in Seq(S) /\ Len(SubSeq(s, n + 1, Len(s))) = Len(s) - n
  OBVIOUS
<1>3. SubSeq(s, 1, n) \o SubSeq(s, n + 1, Len(s)) = SubSeq(s, 1, Len(s))
  <2>1. 1 \in 1..(Len(s) + 1) /\ n \in (1 - 1)..Len(s) /\ Len(s) \in n..Len(s)
    OBVIOUS
  <2> QED BY <2>1, ConcatAdjacentSubSeq, Zenon
<1>4. SubSeq(s, 1, Len(s)) = s
  BY SubSeqFull
<1> QED BY <1>1, <1>2, <1>3, <1>4

(* What a pump takes from the queue is in its hands. *)
LEMMA ClaimIs ==
  ASSUME Shape, Phases, NEW p \in Runs, PumpClaim(p)
  PROVE  \E head, tail \in Seq(Frames) :
           /\ pump' = [pump EXCEPT ![p] = [pump[p] EXCEPT !.state = "claimed", !.claim = head,
                                                          !.queue = tail]]
           /\ head \o tail = pump[p].queue
           /\ Len(head) + Len(tail) = Len(pump[p].queue)
<1> DEFINE queue == pump[p].queue
           n == Least(BatchLimit, Len(queue))
           head == SubSeq(queue, 1, n)
           tail == SubSeq(queue, n + 1, Len(queue))
<1>1. queue \in Seq(Frames)
  BY RunShape DEF Pumps
<1>2. n \in 0..Len(queue)
  BY <1>1, Limits DEF Least
<1>3. pump' = [pump EXCEPT ![p] = [pump[p] EXCEPT !.state = "claimed", !.claim = head,
                                                 !.queue = tail]]
  BY DEF PumpClaim
<1> HIDE DEF queue, n
<1>4. /\ head \in Seq(Frames) /\ tail \in Seq(Frames)
      /\ Len(head) = n /\ Len(tail) = Len(queue) - n /\ head \o tail = queue
  BY <1>1, <1>2, Cut
<1> HIDE DEF head, tail
<1>5. Len(head) + Len(tail) = Len(queue)
  BY <1>1, <1>2, <1>4
<1> QED BY <1>3, <1>4, <1>5 DEF queue

LEMMA PumpClaimPhases ==
  ASSUME Shape, Phases, NEW p \in Runs, PumpClaim(p)
  PROVE  Shape' /\ Phases'
<1>1. PICK head, tail \in Seq(Frames) :
        /\ pump' = [pump EXCEPT ![p] = [pump[p] EXCEPT !.state = "claimed", !.claim = head,
                                                       !.queue = tail]]
        /\ head \o tail = pump[p].queue
        /\ Len(head) + Len(tail) = Len(pump[p].queue)
  BY ClaimIs
<1> DEFINE q == [pump[p] EXCEPT !.state = "claimed", !.claim = head, !.queue = tail]
<1>2. pump[p].state = "idle" /\ pump' = [pump EXCEPT ![p] = q]
  BY <1>1 DEF PumpClaim
<1>3. /\ q \in Pumps /\ q.state = "claimed" /\ q.last = pump[p].last /\ q.queue = tail
      /\ q.claim = head /\ q.stop = pump[p].stop
  BY RunShape DEF Pumps, PumpStates
<1> HIDE DEF q
<1>4. PhaseOK(main[p], pump[p]) /\ main[p].pc \notin {"off", "loaded", "ended"}
  BY <1>2, PumpAlive DEF Phases, Alive
<1>5. Len(q.queue) + Len(q.claim) <= BufferLimit
  <2> DEFINE x == Len(pump[p].queue)
             a == Len(head)
             b == Len(tail)
  <2>1. x + Len(pump[p].claim) <= BufferLimit /\ pump[p].claim = <<>>
    BY <1>2, <1>4 DEF PhaseOK
  <2>2. Len(pump[p].claim) = 0
    BY <2>1
  <2>3. x \in Nat /\ a \in Nat /\ b \in Nat /\ a + b = x
    BY <1>1, RunShape DEF Pumps
  <2>4. Len(q.queue) = b /\ Len(q.claim) = a
    BY <1>3
  <2> HIDE DEF x, a, b
  <2>5. b + a <= BufferLimit
    BY <2>1, <2>2, <2>3, Limits
  <2> QED BY <2>4, <2>5
<1>6. PhaseOK(main[p], q)
  BY <1>2, <1>3, <1>4, <1>5 DEF PhaseOK
<1>7. UNCHANGED <<status, lease, raw, normalized, over, main, history>>
  BY DEF PumpClaim, journal
<1>8. ProgressOK(pump[p])
  BY DEF Phases
<1>9. /\ raw' \in Seq(Frames) /\ normalized' \in Nat
      /\ Len(raw) <= Len(raw') /\ normalized' <= Len(raw') /\ q.last <= Len(raw')
      /\ q.last = normalized'
  BY <1>2, <1>3, <1>7, <1>8 DEF Shape, Phases, ProgressOK
<1> QED BY <1>2, <1>3, <1>6, <1>7, <1>9, PumpStep

(* A claim that is given back is in front of the queue again. *)
LEMMA GivenBackIs ==
  ASSUME Shape, NEW p \in Runs, NEW s \in PumpStates
  PROVE  LET q == [GivenBack(pump[p]) EXCEPT !.state = s]
         IN /\ q \in Pumps /\ q.state = s /\ q.last = pump[p].last /\ q.stop = pump[p].stop
            /\ q.claim = <<>> /\ q.queue = pump[p].claim \o pump[p].queue
            /\ Len(q.queue) + Len(q.claim) = Len(pump[p].queue) + Len(pump[p].claim)
<1> DEFINE whole == pump[p].claim \o pump[p].queue
           g == [pump[p] EXCEPT !.claim = <<>>, !.queue = whole]
           q == [g EXCEPT !.state = s]
<1>1. pump[p] \in Pumps /\ pump[p].claim \in Seq(Frames) /\ pump[p].queue \in Seq(Frames)
  BY RunShape DEF Pumps
<1>2. GivenBack(pump[p]) = g
  BY <1>1 DEF GivenBack, Pumps
<1>3. /\ whole \in Seq(Frames) /\ <<>> \in Seq(Frames)
      /\ Len(whole) = Len(pump[p].claim) + Len(pump[p].queue)
      /\ Len(pump[p].claim) \in Nat /\ Len(pump[p].queue) \in Nat
  BY <1>1
<1> HIDE DEF whole
<1>4. g \in Pumps /\ g.claim = <<>> /\ g.queue = whole /\ g.last = pump[p].last /\ g.stop = pump[p].stop
  BY <1>1, <1>3 DEF Pumps
<1> HIDE DEF g
<1>5. /\ q \in Pumps /\ q.state = s /\ q.last = pump[p].last /\ q.stop = pump[p].stop
      /\ q.claim = <<>> /\ q.queue = whole
  BY <1>4 DEF Pumps
<1>6. Len(q.queue) + Len(q.claim) = Len(pump[p].queue) + Len(pump[p].claim)
  <2> DEFINE x == Len(pump[p].queue)
             y == Len(pump[p].claim)
             u == Len(q.queue)
             v == Len(q.claim)
  <2>1. u = y + x /\ x \in Nat /\ y \in Nat
    BY <1>3, <1>5
  <2>2. v = 0
    BY <1>5
  <2> HIDE DEF x, y, u, v
  <2>3. u + v = x + y
    BY <2>1, <2>2
  <2> QED BY <2>3 DEF x, y, u, v
<1> QED BY <1>2, <1>5, <1>6 DEF whole

(* The pump fails with a claim in its hands, or without. *)
LEMMA GiveUpStep ==
  ASSUME Shape, Phases, NEW p \in Runs, NEW s \in {"conflict", "broken"},
         pump[p].state \in {"starting", "claimed", "appended"},
         pump' = [pump EXCEPT ![p] = [GivenBack(pump[p]) EXCEPT !.state = s]],
         UNCHANGED <<status, lease, raw, normalized, over, main, history>>
  PROVE  Shape' /\ Phases'
<1> DEFINE q == [GivenBack(pump[p]) EXCEPT !.state = s]
<1>1. s \in PumpStates
  BY DEF PumpStates
<1>2. /\ q \in Pumps /\ q.state = s /\ q.last = pump[p].last /\ q.stop = pump[p].stop
      /\ q.claim = <<>> /\ q.queue = pump[p].claim \o pump[p].queue
      /\ Len(q.queue) + Len(q.claim) = Len(pump[p].queue) + Len(pump[p].claim)
  BY <1>1, GivenBackIs
<1>3. pump' = [pump EXCEPT ![p] = q]
  OBVIOUS
<1> HIDE DEF q
<1>4. PhaseOK(main[p], pump[p]) /\ main[p].pc \notin {"off", "loaded", "ended"}
  BY PumpAlive DEF Phases, Alive
<1>5. PhaseOK(main[p], q)
  BY <1>2, <1>4 DEF PhaseOK
<1>6. /\ raw' \in Seq(Frames) /\ normalized' \in Nat
      /\ Len(raw) <= Len(raw') /\ normalized' <= Len(raw') /\ q.last <= Len(raw')
  BY <1>2 DEF Shape, Phases, ProgressOK
<1> QED BY <1>2, <1>3, <1>5, <1>6, PumpStep

LEMMA PumpAppendPhases ==
  ASSUME Shape, Phases, NEW p \in Runs, PumpAppend(p)
  PROVE  Shape' /\ Phases'
<1> DEFINE claim == pump[p].claim
           n == Len(raw')
           q == [pump[p] EXCEPT !.state = "appended", !.claim = <<>>, !.commit = n]
<1>1. pump[p].state = "claimed" /\ UNCHANGED <<status, lease, normalized, over, main, history>>
  BY DEF PumpAppend
<1>2. CASE Conflicts(claim)
  BY <1>1, <1>2, GiveUpStep DEF PumpAppend
<1>3. CASE ~Conflicts(claim)
  <2>1. raw' = raw \o claim /\ pump' = [pump EXCEPT ![p] = q]
    BY <1>3 DEF PumpAppend
  <2>2. pump[p] \in Pumps /\ claim \in Seq(Frames) /\ raw \in Seq(Frames)
    BY RunShape DEF Pumps, Shape
  <2>3. /\ raw' \in Seq(Frames) /\ n = Len(raw) + Len(claim)
        /\ Len(raw) \in Nat /\ Len(claim) \in Nat
    BY <2>1, <2>2
  <2> HIDE DEF n
  <2>4. n \in Nat /\ Len(raw) <= n /\ <<>> \in Seq(Frames)
    BY <2>3
  <2>5. /\ q \in Pumps /\ q.state = "appended" /\ q.last = pump[p].last /\ q.stop = pump[p].stop
        /\ q.claim = <<>> /\ q.queue = pump[p].queue /\ q.commit = n
    BY <2>2, <2>4 DEF Pumps, PumpStates
  <2> HIDE DEF q
  <2>6. PhaseOK(main[p], pump[p]) /\ main[p].pc \notin {"off", "loaded", "ended"}
    BY <1>1, PumpAlive DEF Phases, Alive
  <2>7. Len(q.queue) + Len(q.claim) <= BufferLimit
    <3> DEFINE x == Len(pump[p].queue)
               y == Len(pump[p].claim)
    <3>1. x + y <= BufferLimit
      BY <2>6 DEF PhaseOK
    <3>2. x \in Nat /\ y \in Nat
      BY <2>2 DEF Pumps
    <3>3. Len(q.queue) = x /\ Len(q.claim) = 0
      BY <2>5
    <3> HIDE DEF x, y
    <3> QED BY <3>1, <3>2, <3>3, Limits
  <2>8. PhaseOK(main[p], q)
    BY <1>1, <2>5, <2>6, <2>7 DEF PhaseOK
  <2>9. q.last = normalized' /\ normalized <= Len(raw) /\ normalized \in Nat
    BY <1>1, <2>5 DEF Phases, ProgressOK, Shape
  <2>10. q.last <= Len(raw') /\ normalized' <= Len(raw') /\ q.commit = Len(raw')
    BY <1>1, <2>3, <2>4, <2>5, <2>9 DEF n
  <2> QED BY <1>1, <2>1, <2>3, <2>4, <2>5, <2>8, <2>9, <2>10, PumpStep DEF n
<1> QED BY <1>2, <1>3

LEMMA PumpNormalizePhases ==
  ASSUME Shape, Phases, NEW p \in Runs, PumpNormalize(p)
  PROVE  /\ Shape' /\ Phases'
         /\ normalized' \in {normalized, Len(raw)}
         /\ pump'[p].state \in {"idle", "unreadable"}
         /\ pump'[p].state = "idle" => normalized' = Len(raw)
<1> DEFINE read == ReadUpTo(pump[p].last)
           next == CASE read # pump[p].commit -> "unreadable"
                     [] read = pump[p].commit /\ ~NextRetained(p) -> "stale"
                     [] OTHER -> "idle"
           last == IF next = "idle" THEN read ELSE pump[p].last
           q == [pump[p] EXCEPT !.state = next, !.last = last]
<1>1. pump[p] \in Pumps /\ pump[p].last \in Nat /\ Len(raw) \in Nat
  BY RunShape DEF Pumps, Shape
<1>2. read \in Nat /\ read <= Len(raw)
  BY <1>1, Limits DEF ReadUpTo, Least
<1>3. /\ pump[p].state = "appended" /\ UNCHANGED <<status, lease, raw, over, main, history>>
      /\ normalized' = IF next = "idle" THEN read ELSE normalized
  BY DEF PumpNormalize
<1>4. pump' = [pump EXCEPT ![p] = q]
  BY <1>1 DEF PumpNormalize, Pumps
<1>5. pump[p].last = normalized /\ pump[p].commit = Len(raw)
  BY <1>3 DEF Phases, ProgressOK
<1>6. next \in {"idle", "unreadable"} /\ (next = "idle" => read = Len(raw))
  BY <1>5 DEF NextRetained
<1> HIDE DEF read, next
<1>7. last \in Nat /\ last <= Len(raw) /\ last = normalized'
  BY <1>1, <1>2, <1>3, <1>5, <1>6 DEF Phases
<1> HIDE DEF last
<1>8. /\ q \in Pumps /\ q.state = next /\ q.last = last /\ q.stop = pump[p].stop
      /\ q.claim = pump[p].claim /\ q.queue = pump[p].queue
  BY <1>1, <1>6, <1>7 DEF Pumps, PumpStates
<1> HIDE DEF q
<1>9. PhaseOK(main[p], pump[p]) /\ main[p].pc \notin {"off", "loaded", "ended"}
  BY <1>3, PumpAlive DEF Phases, Alive
<1>10. PhaseOK(main[p], q)
  BY <1>3, <1>6, <1>8, <1>9 DEF PhaseOK
<1>11. raw' \in Seq(Frames) /\ Len(raw) <= Len(raw') /\ normalized' <= Len(raw') /\ q.last <= Len(raw')
  BY <1>1, <1>3, <1>7, <1>8 DEF Shape
<1>12. Shape' /\ Phases'
  BY <1>3, <1>4, <1>6, <1>7, <1>8, <1>10, <1>11, PumpStep
<1>13. pump'[p] = q
  BY <1>4 DEF Shape
<1> QED BY <1>3, <1>6, <1>8, <1>12, <1>13

LEMMA PumpStopsPhases ==
  ASSUME Shape, Phases, NEW p \in Runs, PumpStops(p)
  PROVE  /\ Shape' /\ Phases'
         /\ pump[p].queue = <<>> /\ pump[p].claim = <<>>
<1> DEFINE q == [pump[p] EXCEPT !.state = "done"]
<1>1. /\ pump[p].state = "idle" /\ pump[p].stop /\ Waiting(p) = 0
      /\ pump' = [pump EXCEPT ![p] = q]
      /\ UNCHANGED <<status, lease, raw, normalized, over, main, history>>
  BY DEF PumpStops, MayStop, journal
<1>2. /\ q \in Pumps /\ q.state = "done" /\ q.last = pump[p].last /\ q.stop = pump[p].stop
      /\ q.claim = pump[p].claim /\ q.queue = pump[p].queue
  BY RunShape DEF Pumps, PumpStates
<1> HIDE DEF q
<1>3. PhaseOK(main[p], pump[p]) /\ main[p].pc \notin {"off", "loaded", "ended"}
  BY <1>1, PumpAlive DEF Phases, Alive
<1>4. pump[p].queue = <<>> /\ pump[p].claim = <<>>
  <2>1. pump[p].queue \in Seq(Frames) /\ pump[p].claim \in Seq(Frames)
    BY RunShape DEF Pumps
  <2> DEFINE x == Len(pump[p].queue)
             y == Len(pump[p].claim)
  <2>2. x \in Nat /\ y \in Nat
    BY <2>1
  <2>6. x + y = 0
    BY <1>1 DEF Waiting
  <2>3. x = 0 /\ y = 0
    <3> HIDE DEF x, y
    <3> QED BY <2>2, <2>6
  <2> QED BY <2>1, <2>3
<1>5. PhaseOK(main[p], q)
  BY <1>1, <1>2, <1>3, <1>4 DEF PhaseOK
<1>6. /\ raw' \in Seq(Frames) /\ normalized' \in Nat
      /\ Len(raw) <= Len(raw') /\ normalized' <= Len(raw') /\ q.last <= Len(raw')
  BY <1>1, <1>2 DEF Shape, Phases, ProgressOK
<1> QED BY <1>1, <1>2, <1>4, <1>5, <1>6, PumpStep

LEMMA PumpBreaksPhases ==
  ASSUME Shape, Phases, NEW p \in Runs, PumpBreaks(p)
  PROVE  Shape' /\ Phases'
BY GiveUpStep DEF PumpBreaks, journal

-------------------------------------------------------------------------------
(* What the steps of a run do to the numbers that layers 2 to 4 are about: m   *)
(* and n are its locals before and after.                                      *)

(* The counts are kept. *)
Kept(m, n) ==
  /\ n.attempts = m.attempts /\ n.decoded = m.decoded /\ n.received = m.received
  /\ n.controls = m.controls /\ n.accepted = m.accepted /\ n.admitted = m.admitted
  /\ n.value.attempts = m.value.attempts /\ n.value.reserved = m.value.reserved

(* The file takes the counts of the publisher's value. *)
Publishes(v) == status'.reserved = v.reserved /\ status'.attempts = v.attempts

(* The places in the program between which no count changes. *)
QuietMove(m, n) ==
  \/ n.pc = m.pc
  \/ m.pc = "loaded" /\ n.pc = "opened"
  \/ m.pc = "opened" /\ n.pc = "stuck"
  \/ m.pc = "loop" /\ n.pc = "closing"
  \/ m.pc \in Serving /\ n.pc = "closing" /\ n.failing
  \/ m.pc = "closing" /\ n.pc = "joining"
  \/ m.pc = "joining" /\ n.pc \in {"exiting", "released"}

Quiet(m, n) ==
  /\ Kept(m, n) /\ (m.failing => n.failing) /\ QuietMove(m, n)
  /\ UNCHANGED status \/ (m.pc \in Published /\ Publishes(m.value))

Acquires(m, n) ==
  /\ Kept(m, n) /\ (m.failing => n.failing)
  /\ m.pc = "opened" /\ n.pc = "loop" /\ Publishes(m.value)

Loads(n) ==
  /\ n.pc = "loaded" /\ UNCHANGED status
  /\ n.attempts = status.attempts /\ n.value.attempts = status.attempts
  /\ n.decoded = ResumeUsage(status) /\ n.value.reserved = ResumeUsage(status)

(* The loop is left with an attempt counted that has no allowance. *)
Refuses(m, n) ==
  /\ m.pc = "loop" /\ n.pc = "closing" /\ UNCHANGED status
  /\ n.decoded = m.decoded /\ n.attempts = m.attempts + 1 /\ n.admitted = m.admitted
  /\ n.value = m.value

Connects(m, n) ==
  /\ m.pc = "loop" /\ n.pc = "reserving" /\ m.decoded < Ceiling
  /\ Ceiling - m.decoded - ControlMessages > 0
  /\ n.decoded = m.decoded /\ n.attempts = m.attempts + 1 /\ n.admitted = m.admitted
  /\ n.value.reserved = m.value.reserved /\ n.value.attempts = n.attempts
  /\ Publishes(n.value)

Reserves(m, n) ==
  /\ m.pc = "reserving" /\ n.pc = "session"
  /\ n.decoded = m.decoded /\ n.attempts = m.attempts /\ n.admitted = m.admitted
  /\ n.received = 0 /\ n.controls = 0 /\ n.accepted = 0
  /\ n.value.attempts = m.value.attempts
  /\ n.value.reserved = Least(Ceiling, m.decoded + ControlMessages + Quantum)
  /\ Publishes(n.value)

Receives(m, n) ==
  /\ m.pc = "session" /\ n.pc \in {"control", "market"} /\ UNCHANGED status
  /\ m.accepted < Ceiling - m.decoded - ControlMessages
  /\ n.pc = "control" => m.controls < MaxControls
  /\ n.decoded = m.decoded /\ n.attempts = m.attempts /\ n.admitted = m.admitted
  /\ n.received = m.received + 1 /\ n.controls = m.controls /\ n.accepted = m.accepted
  /\ n.value = m.value

(* A charge, and what the frame counts as. *)
Charges(m, n) ==
  /\ \/ m.pc = "control" /\ n.pc = "session" /\ n.controls = m.controls + 1
     \/ m.pc = "market" /\ n.pc = "admitting" /\ n.controls = m.controls
  /\ n.decoded = m.decoded /\ n.attempts = m.attempts /\ n.admitted = m.admitted
  /\ n.received = m.received /\ n.accepted = m.accepted
  /\ n.value.attempts = m.value.attempts
  /\ RunsLow(Count(m), m.value.reserved) =>
       n.value.reserved = Least(Ceiling, Count(m) + Quantum)
  /\ ~RunsLow(Count(m), m.value.reserved) => n.value.reserved = m.value.reserved
  /\ \/ Publishes(n.value)
     \/ UNCHANGED status /\ n.value.reserved = m.value.reserved

Admits(m, n) ==
  /\ m.pc = "admitting" /\ n.pc = "session" /\ UNCHANGED status
  /\ n.decoded = m.decoded /\ n.attempts = m.attempts /\ n.received = m.received
  /\ n.controls = m.controls /\ n.value = m.value
  /\ n.accepted = m.accepted + 1 /\ n.admitted = m.admitted + 1

(* A session ends, and what it used is all that stays reserved. *)
SettlesUp(m, n) ==
  /\ m.pc = "session" /\ n.pc \in {"loop", "closing"}
  /\ n.attempts = m.attempts /\ n.admitted = m.admitted
  /\ n.decoded = Count(m) /\ n.value.reserved = Count(m)
  /\ n.value.attempts = m.value.attempts
  /\ Publishes(n.value)

Dies(m, n) ==
  /\ m.pc \notin {"off", "ended"} /\ n.pc = "ended" /\ n.admitted = m.admitted
  /\ m.pc \in {"joining", "released"} \/ n.failing
  /\ m.pc = "joining" => n.failing
  /\ \/ UNCHANGED status
     \/ m.pc \in {"joining", "released"} /\ Publishes(m.value)
     \/ m.pc = "released" /\ status'.reserved = m.decoded /\ status'.attempts = m.attempts

(* No other run does anything, or is alive. *)
Idle(p) ==
  \A r \in Runs : r # p => main'[r] = main[r] /\ main'[r].pc \in {"off", "ended"}

(* What a step of a main thread does to the frames and to the pump threads. *)
PumpsBut(p) == UNCHANGED journal /\ \A r \in Runs : r # p => pump'[r] = pump[r]

SamePump(p) ==
  /\ PumpsBut(p)
  /\ pump'[p].state = pump[p].state
  /\ pump'[p].queue = pump[p].queue /\ pump'[p].claim = pump[p].claim

Starts(p) ==
  /\ PumpsBut(p)
  /\ main[p].pc = "loaded" /\ pump'[p].state = "starting"
  /\ pump'[p].queue = pump[p].queue /\ pump'[p].claim = pump[p].claim

Puts(p) ==
  LET frame == [conn |-> main[p].attempts, number |-> main[p].accepted, by |-> p]
  IN /\ PumpsBut(p)
     /\ pump'[p].state = pump[p].state
     /\ pump'[p].queue = Append(pump[p].queue, frame) /\ pump'[p].claim = pump[p].claim

Killed(p) ==
  /\ PumpsBut(p)
  /\ pump'[p].state = "killed" /\ pump'[p].queue = <<>> /\ pump'[p].claim = <<>>

(* Every step of run p outside its pump thread is one of these. *)
Effect(p) ==
  LET m == main[p]
      n == main'[p]
  IN /\ Idle(p)
     /\ \/ /\ UNCHANGED history
           /\ \/ Quiet(m, n) /\ Alive(p) /\ (SamePump(p) \/ Starts(p))
              \/ Acquires(m, n) /\ SamePump(p)
              \/ /\ Loads(n) /\ SamePump(p) /\ m.pc = "off" /\ n.admitted = m.admitted
                 /\ \A r \in Runs : ~Alive(r)
              \/ Refuses(m, n) /\ SamePump(p)
              \/ Connects(m, n) /\ SamePump(p)
              \/ Charges(m, n) /\ SamePump(p)
              \/ Admits(m, n) /\ Puts(p)
              \/ SettlesUp(m, n) /\ SamePump(p)
              \/ Dies(m, n) /\ (SamePump(p) \/ (n.failing /\ Killed(p)))
        \/ Reserves(m, n) /\ SamePump(p) /\ received' = received /\ sessions' = sessions + 1
        \/ Receives(m, n) /\ SamePump(p) /\ received' = received + 1 /\ sessions' = sessions

(* A step of a pump thread or of the environment. *)
MainsIdle == UNCHANGED <<main, status, history>>

LEMMA OthersIdle ==
  ASSUME Shape, Phases, NEW p \in Runs, NEW m, main' = [main EXCEPT ![p] = m],
         Alive(p) \/ \A r \in Runs : ~Alive(r)
  PROVE  main'[p] = m /\ Idle(p)
<1>1. main'[p] = m /\ \A r \in Runs : r # p => main'[r] = main[r]
  BY DEF Shape
<1>2. \A r \in Runs : r # p => ~Alive(r)
  BY DEF Phases, Alone
<1> QED BY <1>1, <1>2 DEF Idle, Alive

LEMMA LoadEffect ==
  ASSUME Shape, Phases, Overlap = FALSE, NEW p \in Runs, Load(p)
  PROVE  Loads(main'[p]) /\ Idle(p) /\ UNCHANGED history /\ main[p].pc = "off"
         /\ main'[p].admitted = main[p].admitted /\ \A r \in Runs : ~Alive(r)
<1> DEFINE used == ResumeUsage(status)
           v == [state |-> "CONNECTING", attempts |-> status.attempts,
                 decoded |-> used, reserved |-> used, gaps |-> status.gaps]
           m == [main[p] EXCEPT !.pc = "loaded", !.attempts = status.attempts,
                                !.decoded = used, !.value = v]
<1>1. main' = [main EXCEPT ![p] = m] /\ UNCHANGED <<status, history>> /\ main[p].pc = "off"
      /\ \A r \in Runs : ~Alive(r)
  BY DEF Load
<1>2. main'[p] = m /\ Idle(p)
  <2> HIDE DEF m
  <2> QED BY <1>1, OthersIdle
<1>3. v.attempts = status.attempts /\ v.reserved = used
  OBVIOUS
<1> HIDE DEF v
<1>4. Loads(m) /\ m.admitted = main[p].admitted
  BY <1>1, <1>3, RunShape DEF Loads, Locals
<1> QED BY <1>1, <1>2, <1>4

(* The steps of a run that change no count. *)
LEMMA QuietEffect ==
  ASSUME Shape, Phases, NEW p \in Runs,
         \/ OpenPump(p) \/ StartFails(p) \/ LeaveLoop(p) \/ Ready(p) \/ Refuse(p)
         \/ Overload(p) \/ Abort(p) \/ Close(p) \/ JoinFails(p) \/ Heartbeat(p)
         \/ StatusFails(p) \/ RequestStop(p)
  PROVE  Quiet(main[p], main'[p]) /\ Idle(p) /\ UNCHANGED history /\ Alive(p)
<1>1. main[p] \in Locals /\ main[p].value \in Statuses
  BY RunShape
<1>2. Alive(p) /\ UNCHANGED history
  BY DEF OpenPump, StartFails, LeaveLoop, Ready, Refuse, Overload, Fail, Abort, Close, JoinFails,
         Heartbeat, StatusFails, RequestStop, Alive, Serving, Published
<1>3. ASSUME NEW m, main' = [main EXCEPT ![p] = m], Quiet(main[p], m)
      PROVE  Quiet(main[p], main'[p]) /\ Idle(p)
  BY <1>2, <1>3, OthersIdle
<1>4. CASE OpenPump(p)
  <2> DEFINE m == [main[p] EXCEPT !.pc = "opened"]
  <2>1. main' = [main EXCEPT ![p] = m] /\ Quiet(main[p], m)
    BY <1>1, <1>4 DEF OpenPump, Quiet, QuietMove, Kept, Locals
  <2> QED BY <2>1, <1>2, <1>3
<1>5. CASE StartFails(p)
  <2> DEFINE m == [main[p] EXCEPT !.pc = "stuck"]
  <2>1. main' = [main EXCEPT ![p] = m] /\ Quiet(main[p], m)
    BY <1>1, <1>5 DEF StartFails, Quiet, QuietMove, Kept, Locals
  <2> QED BY <2>1, <1>2, <1>3
<1>6. CASE LeaveLoop(p)
  <2> DEFINE m == [main[p] EXCEPT !.pc = "closing"]
  <2>1. main' = [main EXCEPT ![p] = m] /\ Quiet(main[p], m)
    BY <1>1, <1>6 DEF LeaveLoop, Quiet, QuietMove, Kept, Locals
  <2> QED BY <2>1, <1>2, <1>3
<1>7. CASE Ready(p)
  <2> DEFINE g == ClosedGaps(main[p].value)
             v == [main[p].value EXCEPT !.state = "CAPTURING", !.gaps = g]
             m == [main[p] EXCEPT !.value = v]
  <2>1. main' = [main EXCEPT ![p] = m] /\ status' = v /\ main[p].pc = "session"
    BY <1>7 DEF Ready, Persist
  <2> HIDE DEF g
  <2>2. v.attempts = main[p].value.attempts /\ v.reserved = main[p].value.reserved
    BY <1>1 DEF Statuses
  <2> HIDE DEF v
  <2>3. Quiet(main[p], m)
    BY <1>1, <2>1, <2>2 DEF Quiet, QuietMove, Kept, Locals, Publishes, Published, Serving
  <2> QED BY <2>1, <2>3, <1>2, <1>3
<1>8. CASE Refuse(p) \/ Overload(p)
  <2> DEFINE v == [main[p].value EXCEPT !.state = "FAILED"]
             m == [main[p] EXCEPT !.pc = "closing", !.failing = TRUE, !.value = v]
  <2>1. main' = [main EXCEPT ![p] = m] /\ status' = v /\ main[p].pc \in Serving
    BY <1>8 DEF Refuse, Overload, Fail, Persist, Serving
  <2>2. v.attempts = main[p].value.attempts /\ v.reserved = main[p].value.reserved
    BY <1>1 DEF Statuses
  <2> HIDE DEF v
  <2>3. Quiet(main[p], m)
    BY <1>1, <2>1, <2>2 DEF Quiet, QuietMove, Kept, Locals, Publishes, Published
  <2> QED BY <2>1, <2>3, <1>2, <1>3
<1>9. CASE Abort(p)
  <2> DEFINE m == [main[p] EXCEPT !.pc = "closing", !.failing = TRUE]
  <2>1. main' = [main EXCEPT ![p] = m] /\ Quiet(main[p], m)
    BY <1>1, <1>9 DEF Abort, Quiet, QuietMove, Kept, Locals
  <2> QED BY <2>1, <1>2, <1>3
<1>10. CASE Close(p)
  <2> DEFINE paused == StopPauses(p)
             state == IF paused THEN "PAUSED" ELSE "DRAINING"
             v == [main[p].value EXCEPT !.state = state]
             failed == [main[p] EXCEPT !.pc = "joining", !.paused = paused, !.failing = TRUE]
             drained == [main[p] EXCEPT !.pc = "joining", !.paused = paused, !.value = v]
  <2>1. \/ main' = [main EXCEPT ![p] = failed] /\ status' = status
        \/ main' = [main EXCEPT ![p] = drained] /\ status' = v
    <3>1. CASE main[p].value.state = "FAILED" \/ main[p].broken
      BY <3>1, <1>1, <1>10 DEF Close
    <3>2. CASE ~(main[p].value.state = "FAILED" \/ main[p].broken)
      BY <3>2, <1>1, <1>10 DEF Close, Persist
    <3> QED BY <3>1, <3>2
  <2>2. main[p].pc = "closing"
    BY <1>10 DEF Close
  <2> HIDE DEF paused, state
  <2>3. v.attempts = main[p].value.attempts /\ v.reserved = main[p].value.reserved
    BY <1>1 DEF Statuses
  <2> HIDE DEF v
  <2>4. status' = status => Quiet(main[p], failed)
    BY <1>1, <2>2 DEF Quiet, QuietMove, Kept, Locals
  <2>5. status' = v => Quiet(main[p], drained)
    BY <1>1, <2>2, <2>3 DEF Quiet, QuietMove, Kept, Locals, Publishes, Published
  <2> HIDE DEF failed, drained
  <2> QED BY <2>1, <2>4, <2>5, <1>2, <1>3
<1>11. CASE JoinFails(p)
  <2> DEFINE m == [main[p] EXCEPT !.pc = "exiting", !.failing = TRUE]
  <2>1. main' = [main EXCEPT ![p] = m] /\ Quiet(main[p], m)
    BY <1>1, <1>11 DEF JoinFails, Quiet, QuietMove, Kept, Locals
  <2> QED BY <2>1, <1>2, <1>3
<1>12. CASE Heartbeat(p)
  <2>1. main' = [main EXCEPT ![p] = main[p]] /\ Quiet(main[p], main[p])
    BY <1>12 DEF Heartbeat, Quiet, QuietMove, Kept, Publishes, Shape
  <2> QED BY <2>1, <1>2, <1>3
<1>13. CASE StatusFails(p)
  <2> DEFINE m == [main[p] EXCEPT !.broken = TRUE]
  <2>1. main' = [main EXCEPT ![p] = m] /\ Quiet(main[p], m)
    BY <1>1, <1>13 DEF StatusFails, Quiet, QuietMove, Kept, Locals
  <2> QED BY <2>1, <1>2, <1>3
<1>14. CASE RequestStop(p)
  <2> DEFINE m == [main[p] EXCEPT !.stop = TRUE]
  <2>1. main' = [main EXCEPT ![p] = m] /\ Quiet(main[p], m)
    BY <1>1, <1>14 DEF RequestStop, Quiet, QuietMove, Kept, Locals
  <2> QED BY <2>1, <1>2, <1>3
<1> QED BY <1>4, <1>5, <1>6, <1>7, <1>8, <1>9, <1>10, <1>11, <1>12, <1>13, <1>14

LEMMA AcquireEffect ==
  ASSUME Shape, Phases, NEW p \in Runs, Acquire(p)
  PROVE  Acquires(main[p], main'[p]) /\ Idle(p) /\ UNCHANGED history
<1> DEFINE v == main[p].value
           m == [main[p] EXCEPT !.pc = "loop", !.value = v]
<1>1. /\ main' = [main EXCEPT ![p] = m] /\ status' = v /\ main[p].pc = "opened" /\ Alive(p)
      /\ UNCHANGED history
  BY DEF Acquire, Persist, Alive
<1>2. main'[p] = m /\ Idle(p)
  <2> HIDE DEF m
  <2> QED BY <1>1, OthersIdle
<1>3. Acquires(main[p], m)
  BY <1>1, RunShape DEF Acquires, Kept, Publishes, Locals
<1> QED BY <1>1, <1>2, <1>3

LEMMA ConnectEffect ==
  ASSUME Shape, Phases, NEW p \in Runs, Connect(p)
  PROVE  /\ Refuses(main[p], main'[p]) \/ Connects(main[p], main'[p])
         /\ Idle(p) /\ UNCHANGED history
<1> DEFINE n == main[p].attempts + 1
           v == Connecting(main[p].value, n, main[p].decoded)
           refused == [main[p] EXCEPT !.pc = "closing", !.attempts = n]
           tried == [main[p] EXCEPT !.pc = "reserving", !.attempts = n, !.value = v]
<1>1. main[p] \in Locals /\ main[p].value \in Statuses /\ n \in Nat /\ main[p].decoded \in Nat
  BY RunShape
<1>2. v.attempts = n /\ v.reserved = main[p].value.reserved
  <2> HIDE DEF n
  <2> QED BY <1>1, ConnectingIs
<1>3. main[p].pc = "loop" /\ Alive(p) /\ UNCHANGED history /\ main[p].decoded < Ceiling
  BY DEF Connect, Alive, MayConnect
<1>4. CASE Remaining(p) <= 0
  <2>1. main' = [main EXCEPT ![p] = refused] /\ status' = status
    BY <1>4, <1>1 DEF Connect
  <2>2. Refuses(main[p], refused)
    BY <1>1, <1>3, <2>1 DEF Refuses, Locals
  <2> HIDE DEF refused
  <2> QED BY <1>3, <2>1, <2>2, OthersIdle
<1>5. CASE ~(Remaining(p) <= 0)
  <2>1. main' = [main EXCEPT ![p] = tried] /\ status' = v
    BY <1>5, <1>1 DEF Connect, Persist
  <2>2. Ceiling - main[p].decoded - ControlMessages > 0
    BY <1>1, <1>5, Limits DEF Remaining
  <2> HIDE DEF v, n
  <2>3. Connects(main[p], tried)
    BY <1>1, <1>2, <1>3, <2>1, <2>2 DEF Connects, Locals, Publishes, n
  <2> HIDE DEF tried
  <2> QED BY <1>3, <2>1, <2>3, OthersIdle
<1> QED BY <1>4, <1>5

LEMMA ReserveEffect ==
  ASSUME Shape, Phases, NEW p \in Runs, Reserve(p)
  PROVE  /\ Reserves(main[p], main'[p]) /\ Idle(p)
         /\ received' = received /\ sessions' = sessions + 1
<1> DEFINE r == Least(Ceiling, main[p].decoded + ControlMessages + Quantum)
           v == [main[p].value EXCEPT !.reserved = r]
           m == [main[p] EXCEPT !.pc = "session", !.received = 0, !.controls = 0,
                                !.accepted = 0, !.value = v]
<1>1. /\ main' = [main EXCEPT ![p] = m] /\ status' = v /\ main[p].pc = "reserving" /\ Alive(p)
      /\ received' = received /\ sessions' = sessions + 1
  BY DEF Reserve, Persist, Alive
<1>2. main'[p] = m /\ Idle(p)
  <2> HIDE DEF m
  <2> QED BY <1>1, OthersIdle
<1>3. main[p] \in Locals /\ main[p].value \in Statuses
  BY RunShape
<1> HIDE DEF r
<1>4. v.attempts = main[p].value.attempts /\ v.reserved = r
  BY <1>3 DEF Statuses
<1> HIDE DEF v
<1>5. Reserves(main[p], m)
  BY <1>1, <1>3, <1>4 DEF Reserves, Publishes, Locals, r
<1> QED BY <1>1, <1>2, <1>5

LEMMA ReceiveEffect ==
  ASSUME Shape, Phases, NEW p \in Runs, NEW kind \in {"control", "market"}, Receive(p, kind)
  PROVE  /\ Receives(main[p], main'[p]) /\ Idle(p)
         /\ received' = received + 1 /\ sessions' = sessions
<1> DEFINE n == main[p].received + 1
           m == [main[p] EXCEPT !.pc = kind, !.received = n]
<1>1. /\ main' = [main EXCEPT ![p] = m] /\ status' = status /\ main[p].pc = "session" /\ Alive(p)
      /\ received' = received + 1 /\ sessions' = sessions
      /\ main[p].accepted < Remaining(p)
      /\ kind = "control" => main[p].controls < MaxControls
  BY DEF Receive, Alive
<1>2. main'[p] = m /\ Idle(p)
  <2> HIDE DEF m
  <2> QED BY <1>1, OthersIdle
<1>3. Receives(main[p], m)
  BY <1>1, RunShape DEF Receives, Locals, Remaining
<1> QED BY <1>1, <1>2, <1>3

(* A charge, whatever it does to the program counter and the controls. *)
LEMMA ChargeEffect ==
  ASSUME Shape, Phases, NEW p \in Runs, NEW l \in Locals, Charge(p, l), Alive(p)
  PROVE  LET v == Charged(main[p].value, Counted(p))
             m == [l EXCEPT !.value = v]
         IN /\ main'[p] = m /\ Idle(p)
            /\ status' = v \/ (status' = status /\ v.reserved = main[p].value.reserved)
<1> DEFINE v == Charged(main[p].value, Counted(p))
           m == [l EXCEPT !.value = v]
<1>1. main' = [main EXCEPT ![p] = m]
  BY DEF Charge, Persist
<1>2. status' = v \/ (status' = status /\ v.reserved = main[p].value.reserved)
  BY DEF Charge, Persist
<1> HIDE DEF m
<1>3. main'[p] = m /\ Idle(p)
  BY <1>1, OthersIdle
<1> QED BY <1>2, <1>3 DEF m

LEMMA ChargesEffect ==
  ASSUME Shape, Phases, NEW p \in Runs, TakeControl(p) \/ ChargeMarket(p)
  PROVE  Charges(main[p], main'[p]) /\ Idle(p) /\ UNCHANGED history
<1> DEFINE v == Charged(main[p].value, Counted(p))
           r == main[p].value.reserved
           c == Counted(p)
<1>1. main[p] \in Locals /\ main[p].value \in Statuses /\ main[p].controls \in Nat
  BY RunShape
<1>2. c \in Nat /\ c = Count(main[p])
  BY Limits, RunShape DEF Counted, Count
<1>3. /\ v.attempts = main[p].value.attempts
      /\ RunsLow(c, r) => v.reserved = Least(Ceiling, c + Quantum)
      /\ ~RunsLow(c, r) => v.reserved = r
  <2> HIDE DEF c
  <2>1. v = Charged(main[p].value, c)
    BY DEF c
  <2> HIDE DEF v
  <2> QED BY <1>1, <1>2, <2>1, ChargedIs
<1>4. UNCHANGED history
  BY DEF TakeControl, ChargeMarket
<1>5. CASE TakeControl(p)
  <2> DEFINE n == main[p].controls + 1
             l == [main[p] EXCEPT !.pc = "session", !.controls = n]
             m == [l EXCEPT !.value = v]
  <2>1. main[p].pc = "control" /\ Charge(p, l) /\ Alive(p)
    BY <1>5 DEF TakeControl, Alive
  <2>2. n \in Nat
    BY <1>1
  <2> HIDE DEF n
  <2>3. l \in Locals
    BY <1>1, <2>2 DEF Locals, PCs, Published, Serving
  <2> HIDE DEF l
  <2>4. /\ main'[p] = m /\ Idle(p)
        /\ status' = v \/ (status' = status /\ v.reserved = r)
    BY <2>1, <2>3, ChargeEffect
  <2> HIDE DEF v, r, c
  <2>5. /\ m.pc = "session" /\ m.controls = main[p].controls + 1 /\ m.decoded = main[p].decoded
        /\ m.attempts = main[p].attempts /\ m.admitted = main[p].admitted
        /\ m.received = main[p].received /\ m.accepted = main[p].accepted /\ m.value = v
    BY <1>1, <2>2, <2>3 DEF Locals, l, n
  <2> HIDE DEF m
  <2>6. Charges(main[p], m)
    BY <1>2, <1>3, <2>1, <2>4, <2>5 DEF Charges, Publishes, r
  <2> QED BY <1>4, <2>4, <2>6
<1>6. CASE ChargeMarket(p)
  <2> DEFINE l == [main[p] EXCEPT !.pc = "admitting"]
             m == [l EXCEPT !.value = v]
  <2>1. main[p].pc = "market" /\ Charge(p, l) /\ Alive(p)
    BY <1>6 DEF ChargeMarket, Alive
  <2>2. l \in Locals
    BY <1>1 DEF Locals, PCs, Published, Serving
  <2> HIDE DEF l
  <2>3. /\ main'[p] = m /\ Idle(p)
        /\ status' = v \/ (status' = status /\ v.reserved = r)
    BY <2>1, <2>2, ChargeEffect
  <2> HIDE DEF v, r, c
  <2>4. /\ m.pc = "admitting" /\ m.controls = main[p].controls /\ m.decoded = main[p].decoded
        /\ m.attempts = main[p].attempts /\ m.admitted = main[p].admitted
        /\ m.received = main[p].received /\ m.accepted = main[p].accepted /\ m.value = v
    BY <1>1, <2>2 DEF Locals, l
  <2> HIDE DEF m
  <2>5. Charges(main[p], m)
    BY <1>2, <1>3, <2>1, <2>3, <2>4 DEF Charges, Publishes, r
  <2> QED BY <1>4, <2>3, <2>5
<1> QED BY <1>5, <1>6

LEMMA AdmitEffect ==
  ASSUME Shape, Phases, NEW p \in Runs, Admit(p)
  PROVE  Admits(main[p], main'[p]) /\ Idle(p) /\ UNCHANGED history
<1> DEFINE a == main[p].accepted + 1
           b == main[p].admitted + 1
           m == [main[p] EXCEPT !.pc = "session", !.accepted = a, !.admitted = b]
<1>1. /\ main' = [main EXCEPT ![p] = m] /\ status' = status /\ main[p].pc = "admitting"
      /\ Alive(p) /\ UNCHANGED history
  BY DEF Admit, Alive
<1>2. main'[p] = m /\ Idle(p)
  <2> HIDE DEF m
  <2> QED BY <1>1, OthersIdle
<1>3. Admits(main[p], m)
  BY <1>1, RunShape DEF Admits, Locals
<1> QED BY <1>1, <1>2, <1>3

LEMMA SettlesUpEffect ==
  ASSUME Shape, Phases, NEW p \in Runs, Drop(p) \/ EndSession(p)
  PROVE  SettlesUp(main[p], main'[p]) /\ Idle(p) /\ UNCHANGED history
<1> DEFINE n == Counted(p)
<1>1. main[p] \in Locals /\ main[p].value \in Statuses /\ n \in Nat
  BY Limits, RunShape DEF Counted
<1>2. n = Count(main[p])
  BY DEF Counted, Count
<1>3. main[p].pc = "session" /\ Alive(p) /\ UNCHANGED history
  BY DEF Drop, EndSession, Alive
<1>4. CASE Drop(p)
  <2> DEFINE s == Settled(main[p].value, "RECONNECTING", n)
             g == Gap(main[p].value, main[p].attempts)
             v == [s EXCEPT !.gaps = g]
             m == [main[p] EXCEPT !.pc = "loop", !.decoded = n, !.value = v]
  <2>1. main' = [main EXCEPT ![p] = m] /\ status' = v
    BY <1>4 DEF Drop, Persist
  <2> HIDE DEF n
  <2>2. s \in Statuses /\ s.attempts = main[p].value.attempts /\ s.reserved = n
    <3>1. "RECONNECTING" \in States
      BY DEF States
    <3> QED BY <1>1, <3>1, SettledIs
  <2> HIDE DEF s, g
  <2>3. v.attempts = main[p].value.attempts /\ v.reserved = n
    BY <2>2 DEF Statuses
  <2> HIDE DEF v
  <2>4. SettlesUp(main[p], m)
    BY <1>1, <1>2, <1>3, <2>1, <2>3 DEF SettlesUp, Publishes, Locals
  <2> HIDE DEF m
  <2> QED BY <1>3, <2>1, <2>4, OthersIdle
<1>5. CASE EndSession(p)
  <2> DEFINE full == main[p].accepted = Remaining(p)
             v == Settled(main[p].value, "CAPTURING", n)
             pc == IF full THEN "loop" ELSE "closing"
             m == [main[p] EXCEPT !.pc = pc, !.decoded = n, !.value = v]
  <2>1. main' = [main EXCEPT ![p] = m] /\ status' = v
    BY <1>5 DEF EndSession, Persist
  <2>2. pc \in {"loop", "closing"}
    OBVIOUS
  <2> HIDE DEF n, pc
  <2>3. v.attempts = main[p].value.attempts /\ v.reserved = n
    <3>1. "CAPTURING" \in States
      BY DEF States
    <3> QED BY <1>1, <3>1, SettledIs
  <2> HIDE DEF v
  <2>4. SettlesUp(main[p], m)
    BY <1>1, <1>2, <1>3, <2>1, <2>2, <2>3 DEF SettlesUp, Publishes, Locals
  <2> HIDE DEF m
  <2> QED BY <1>3, <2>1, <2>4, OthersIdle
<1> QED BY <1>4, <1>5

LEMMA ReleaseEffect ==
  ASSUME Shape, Phases, NEW p \in Runs, Release(p)
  PROVE  /\ Quiet(main[p], main'[p]) \/ Dies(main[p], main'[p])
         /\ Idle(p) /\ UNCHANGED history /\ UNCHANGED pump /\ Joined(p)
<1> DEFINE failing == main[p].failing \/ main[p].broken
           l == [main[p] EXCEPT !.failing = TRUE]
           freed == [main[p] EXCEPT !.pc = "released"]
           m == IF failing THEN Ended(l) ELSE freed
<1>1. main[p] \in Locals /\ main[p].value \in Statuses
  BY RunShape
<1>2. /\ main[p].pc = "joining" /\ Alive(p) /\ UNCHANGED history /\ UNCHANGED pump
      /\ main' = [main EXCEPT ![p] = m] /\ Joined(p)
      /\ status' = IF main[p].broken THEN status ELSE main[p].value
  BY DEF Release, Alive
<1>3. main'[p] = m /\ Idle(p)
  <2> HIDE DEF m
  <2> QED BY <1>2, OthersIdle
<1>4. CASE failing
  <2>1. l \in Locals /\ l.failing = TRUE /\ l.admitted = main[p].admitted
    BY <1>1 DEF Locals
  <2>2. m.pc = "ended" /\ m.failing = TRUE /\ m.admitted = main[p].admitted
    <3> HIDE DEF l
    <3>1. m = Ended(l)
      BY <1>4
    <3> HIDE DEF m
    <3> QED BY <2>1, <3>1, EndedIs
  <2> HIDE DEF m
  <2>3. status' = status \/ Publishes(main[p].value)
    BY <1>2 DEF Publishes
  <2>4. Dies(main[p], m)
    BY <1>2, <2>2, <2>3 DEF Dies
  <2> QED BY <1>2, <1>3, <2>4
<1>5. CASE ~failing
  <2>1. m = freed /\ Publishes(main[p].value)
    BY <1>2, <1>5 DEF Publishes
  <2>2. Quiet(main[p], freed)
    BY <1>1, <1>2, <2>1 DEF Quiet, QuietMove, Kept, Locals, Published
  <2> HIDE DEF m, freed
  <2> QED BY <1>2, <1>3, <2>1, <2>2
<1> QED BY <1>4, <1>5

LEMMA ExitEffect ==
  ASSUME Shape, Phases, NEW p \in Runs, Exit(p)
  PROVE  Dies(main[p], main'[p]) /\ Idle(p) /\ UNCHANGED history /\ UNCHANGED pump
<1> DEFINE m == Ended(main[p])
<1>1. /\ main[p].pc = "exiting" /\ Alive(p) /\ UNCHANGED history /\ UNCHANGED pump
      /\ main' = [main EXCEPT ![p] = m] /\ status' = status
  BY DEF Exit, Alive
<1>2. main'[p] = m /\ Idle(p)
  <2> HIDE DEF m
  <2> QED BY <1>1, OthersIdle
<1>3. m.pc = "ended" /\ m.failing = main[p].failing /\ m.admitted = main[p].admitted
  BY RunShape, EndedIs
<1>4. main[p].failing
  BY <1>1 DEF Phases, PhaseOK
<1> HIDE DEF m
<1> QED BY <1>1, <1>2, <1>3, <1>4 DEF Dies

LEMMA ReportEffect ==
  ASSUME Shape, Phases, NEW p \in Runs, Report(p)
  PROVE  /\ Dies(main[p], main'[p]) /\ Idle(p) /\ UNCHANGED history /\ UNCHANGED pump
         /\ main[p].pc = "released"
<1>1. PICK written \in {TRUE} \cup {~CanFail} :
        /\ status' = IF written THEN Reported(p) ELSE status
        /\ main' = [main EXCEPT ![p] =
             Ended([main[p] EXCEPT !.failing = ~written \/ Reported(p).state = "FAILED"])]
  BY DEF Report
<1> DEFINE b == ~written \/ Reported(p).state = "FAILED"
           l == [main[p] EXCEPT !.failing = b]
           m == Ended(l)
<1>2. /\ main[p].pc = "released" /\ Alive(p) /\ UNCHANGED history /\ UNCHANGED pump
      /\ main' = [main EXCEPT ![p] = m]
  BY <1>1 DEF Report, Alive
<1>3. main'[p] = m /\ Idle(p)
  <2> HIDE DEF m
  <2> QED BY <1>2, OthersIdle
<1>4. b \in BOOLEAN
  OBVIOUS
<1> HIDE DEF b
<1>5. l \in Locals /\ l.admitted = main[p].admitted
  BY <1>4, RunShape DEF Locals
<1> HIDE DEF l
<1>6. m.pc = "ended" /\ m.admitted = main[p].admitted
  BY <1>5, EndedIs
<1> HIDE DEF m
<1>7. \/ UNCHANGED status
      \/ Publishes(main[p].value)
      \/ status'.reserved = main[p].decoded /\ status'.attempts = main[p].attempts
  BY <1>1, ReportedIs DEF Publishes
<1> QED BY <1>2, <1>3, <1>6, <1>7 DEF Dies

LEMMA CrashEffect ==
  ASSUME Shape, Phases, NEW p \in Runs, Crash(p)
  PROVE  Dies(main[p], main'[p]) /\ Idle(p) /\ UNCHANGED history /\ main'[p].failing
<1> DEFINE l == [main[p] EXCEPT !.failing = TRUE]
           m == Ended(l)
<1>1. /\ Alive(p) /\ UNCHANGED history /\ UNCHANGED status
      /\ main' = [main EXCEPT ![p] = m]
  BY DEF Crash
<1>2. main'[p] = m /\ Idle(p)
  <2> HIDE DEF m
  <2> QED BY <1>1, OthersIdle
<1>3. l \in Locals /\ l.admitted = main[p].admitted /\ l.failing
  BY RunShape DEF Locals
<1> HIDE DEF l
<1>4. m.pc = "ended" /\ m.failing /\ m.admitted = main[p].admitted
  BY <1>3, EndedIs
<1> HIDE DEF m
<1> QED BY <1>1, <1>2, <1>4 DEF Dies, Alive

-------------------------------------------------------------------------------
(* Layer 2 is inductive.                                                       *)

LEMMA Products ==
  ASSUME NEW a \in Nat, NEW b \in Nat
  PROVE  a * b \in Nat /\ a * (b + 1) = a * b + a
OBVIOUS

LEMMA UsedIs ==
  ASSUME Shape
  PROVE  /\ Used \in Nat /\ received \in Nat /\ received <= Used
         /\ status.reserved \in Nat /\ status.attempts \in Nat /\ ResumeUsage(status) \in Nat
         /\ ResumeUsage(status) >= status.reserved
<1>1. received \in Nat /\ sessions \in Nat /\ ControlMessages \in Nat
  BY Limits DEF Shape
<1>2. ControlMessages * sessions \in Nat
  BY <1>1, Products
<1>3. Used \in Nat /\ received <= Used
  <2> DEFINE x == ControlMessages * sessions
  <2>1. Used = received + x /\ x \in Nat
    BY <1>2 DEF Used
  <2> HIDE DEF x
  <2> QED BY <1>1, <2>1
<1>4. status.reserved \in Nat /\ status.attempts \in Nat /\ status.decoded \in Nat
  BY DEF Shape, Statuses
<1>5. ResumeUsage(status) \in Nat /\ ResumeUsage(status) >= status.reserved
  BY <1>4, LeastGreatest DEF ResumeUsage
<1> QED BY <1>1, <1>3, <1>4, <1>5

(* The counts of the run that steps are numbers, before and after. *)
LEMMA Numbers ==
  ASSUME Shape, NEW p \in Runs
  PROVE  /\ main[p].attempts \in Nat /\ main[p].decoded \in Nat /\ main[p].received \in Nat
         /\ main[p].controls \in Nat /\ main[p].accepted \in Nat /\ main[p].admitted \in Nat
         /\ main[p].value.reserved \in Nat /\ main[p].value.attempts \in Nat
         /\ main[p].failing \in BOOLEAN /\ main[p].pc \in PCs
BY RunShape DEF Locals, Statuses

(* What is said of a run that is not alive does not depend on anything. *)
LEMMA IdleAccounts ==
  ASSUME NEW p \in Runs, Idle(p), AccountOK(main[p])'
  PROVE  \A r \in Runs : AccountOK(main[r])'
BY DEF Idle, AccountOK, SessionOK, InSession, Published, Serving

LEMMA QuietAccounts ==
  ASSUME Shape, Shape', Phases', Accounts, NEW p \in Runs, Quiet(main[p], main'[p]), Idle(p),
         UNCHANGED history
  PROVE  Accounts'
<1>1. Used' = Used /\ received' = received
  BY DEF Used, history
<1>2. AccountOK(main[p])
  BY DEF Accounts
<1>3. main'[p].pc = "released" => ~main'[p].failing
  BY DEF Phases, PhaseOK
<1>4. status'.reserved = status.reserved
  BY <1>2 DEF Quiet, Publishes, AccountOK
<1>5. AccountOK(main[p])'
  <2>1. (main[p].pc \in {"loaded", "opened"} =>
          main[p].value.reserved = ResumeUsage(status) /\ main[p].decoded = ResumeUsage(status))'
    BY <1>2 DEF AccountOK, Quiet, Kept, QuietMove, Published, Serving, ResumeUsage
  <2>2. (main[p].pc \in Published \cup {"released"} => main[p].value.reserved = status.reserved)'
    BY <1>2, <1>4 DEF AccountOK, Quiet, Kept, QuietMove, Published, Serving
  <2>3. (main[p].pc \in {"loop", "reserving", "released"} => Covers(main[p].decoded))'
    BY <1>1, <1>2, <1>3 DEF AccountOK, Quiet, Kept, QuietMove, Covers, Serving
  <2>4. (main[p].pc \in {"closing", "joining"} /\ ~main[p].failing => Covers(main[p].decoded))'
    BY <1>1, <1>2, <1>3 DEF AccountOK, Quiet, Kept, QuietMove, Covers, Serving
  <2>5. (main[p].pc = "reserving" =>
          main[p].decoded < Ceiling /\ Ceiling - main[p].decoded - ControlMessages > 0)'
    BY <1>2 DEF AccountOK, Quiet, Kept, QuietMove
  <2>6. (main[p].pc \in InSession => SessionOK(main[p]))'
    BY <1>1, <1>2 DEF AccountOK, Quiet, Kept, QuietMove, SessionOK, InSession, Count
  <2> QED BY <2>1, <2>2, <2>3, <2>4, <2>5, <2>6 DEF AccountOK
<1>6. \A r \in Runs : AccountOK(main[r])'
  BY <1>5, IdleAccounts
<1> QED BY <1>1, <1>4, <1>6 DEF Accounts, Covers

LEMMA LoadsAccounts ==
  ASSUME Shape, Shape', Accounts, NEW p \in Runs, Loads(main'[p]), Idle(p), UNCHANGED history
  PROVE  Accounts'
<1>1. Used' = Used /\ received' = received /\ status' = status
  BY DEF Used, history, Loads
<1>2. AccountOK(main[p])'
  BY <1>1 DEF AccountOK, Loads, InSession, Published, Serving
<1>3. \A r \in Runs : AccountOK(main[r])'
  BY <1>2, IdleAccounts
<1> QED BY <1>1, <1>3 DEF Accounts, Covers

LEMMA AcquiresAccounts ==
  ASSUME Shape, Shape', Accounts, NEW p \in Runs, Acquires(main[p], main'[p]), Idle(p),
         UNCHANGED history
  PROVE  Accounts'
<1>1. Used' = Used /\ received' = received
  BY DEF Used, history
<1>2. /\ main[p].value.reserved = ResumeUsage(status) /\ main[p].decoded = ResumeUsage(status)
      /\ Covers(status.reserved)
  BY DEF Accounts, AccountOK, Acquires
<1>3. Covers(ResumeUsage(status))
  BY <1>2, UsedIs, Limits DEF Covers
<1>4. /\ main'[p].pc = "loop" /\ main'[p].decoded = main[p].decoded
      /\ main'[p].value.reserved = main[p].value.reserved
      /\ status'.reserved = main[p].value.reserved
  BY DEF Acquires, Kept, Publishes
<1>5. AccountOK(main[p])'
  BY <1>1, <1>2, <1>3, <1>4 DEF AccountOK, Covers, InSession, Published, Serving
<1>6. \A r \in Runs : AccountOK(main[r])'
  BY <1>5, IdleAccounts
<1> QED BY <1>1, <1>2, <1>3, <1>4, <1>6 DEF Accounts, Covers

LEMMA RefusesAccounts ==
  ASSUME Shape, Shape', Accounts, NEW p \in Runs, Refuses(main[p], main'[p]), Idle(p),
         UNCHANGED history
  PROVE  Accounts'
<1>1. Used' = Used /\ received' = received /\ status' = status
  BY DEF Used, history, Refuses
<1>2. AccountOK(main[p])
  BY DEF Accounts
<1>3. AccountOK(main[p])'
  BY <1>1, <1>2 DEF AccountOK, Refuses, Covers, InSession, Published, Serving
<1>4. \A r \in Runs : AccountOK(main[r])'
  BY <1>3, IdleAccounts
<1> QED BY <1>1, <1>4 DEF Accounts, Covers

LEMMA ConnectsAccounts ==
  ASSUME Shape, Shape', Accounts, NEW p \in Runs, Connects(main[p], main'[p]), Idle(p),
         UNCHANGED history
  PROVE  Accounts'
<1>1. Used' = Used /\ received' = received
  BY DEF Used, history
<1>2. AccountOK(main[p])
  BY DEF Accounts
<1>3. status'.reserved = status.reserved
  BY <1>2 DEF AccountOK, Connects, Publishes, Published, Serving
<1>4. AccountOK(main[p])'
  BY <1>1, <1>2, <1>3 DEF AccountOK, Connects, Publishes, Covers, InSession, Published, Serving
<1>5. \A r \in Runs : AccountOK(main[r])'
  BY <1>4, IdleAccounts
<1> QED BY <1>1, <1>3, <1>5 DEF Accounts, Covers

LEMMA ReservesAccounts ==
  ASSUME Shape, Shape', Accounts, NEW p \in Runs, Reserves(main[p], main'[p]), Idle(p),
         received' = received, sessions' = sessions + 1
  PROVE  Accounts'
<1>1. Used' = Used + ControlMessages
  <2>1. received \in Nat /\ sessions \in Nat /\ ControlMessages \in Nat
    BY Limits DEF Shape
  <2> DEFINE x == ControlMessages * sessions
  <2>2. x \in Nat /\ ControlMessages * (sessions + 1) = x + ControlMessages
    BY <2>1, Products
  <2>3. Used = received + x /\ Used' = received + (x + ControlMessages)
    BY <2>2 DEF Used
  <2> HIDE DEF x
  <2> QED BY <2>1, <2>2, <2>3
<1> DEFINE d == main[p].decoded
           r == main'[p].value.reserved
<1>2. d \in Nat /\ Used \in Nat /\ received \in Nat /\ received <= Used /\ ControlMessages \in Nat
  BY Numbers, UsedIs, Limits
<1>3. /\ d < Ceiling /\ Ceiling - d - ControlMessages > 0 /\ Covers(d)
      /\ MaxControls <= ControlMessages => received <= Ceiling
  BY DEF Accounts, AccountOK, Reserves
<1>4. Used <= d
  BY <1>2, <1>3, Limits DEF Covers
<1>5. r = Least(Ceiling, d + ControlMessages + Quantum) /\ status'.reserved = r
  BY DEF Reserves, Publishes
<1>6. r >= Ceiling \/ d + ControlMessages + LowWater <= r
  BY <1>2, <1>5, Limits DEF Least
<1>7. /\ main'[p].decoded = d /\ main'[p].received = 0 /\ main'[p].controls = 0
      /\ main'[p].accepted = 0 /\ main'[p].pc = "session"
  BY DEF Reserves
<1> HIDE DEF d, r
<1>8. Used' <= d + ControlMessages + 0
  BY <1>1, <1>2, <1>4
<1>9. SessionOK(main[p])'
  <2>1. (main[p].decoded < Ceiling /\ Used <= Count(main[p]))'
    BY <1>3, <1>7, <1>8 DEF Count
  <2>2. (received <= main[p].decoded + main[p].received)'
    BY <1>2, <1>4, <1>7
  <2>3. (main[p].received = main[p].controls + main[p].accepted
          + (IF main[p].pc = "session" THEN 0 ELSE 1))'
    BY <1>7
  <2>4. (main[p].controls + (IF main[p].pc = "control" THEN 1 ELSE 0) <= MaxControls)'
    BY <1>7, Limits
  <2>5. (main[p].accepted + (IF main[p].pc \in {"market", "admitting"} THEN 1 ELSE 0)
          <= Ceiling - main[p].decoded - ControlMessages)'
    BY <1>2, <1>3, <1>7, Limits
  <2>6. (\/ main[p].value.reserved >= Ceiling
         \/ Count(main[p]) + (IF main[p].pc \in {"session", "admitting"} THEN LowWater ELSE 0)
              <= main[p].value.reserved)'
    BY <1>2, <1>6, <1>7, Limits DEF Count, r
  <2> QED BY <2>1, <2>2, <2>3, <2>4, <2>5, <2>6 DEF SessionOK
<1>10. Covers(status.reserved)'
  <2>1. r \in Nat
    BY Numbers DEF r, Shape, Locals, Statuses
  <2> QED BY <1>1, <1>2, <1>4, <1>5, <1>6, <2>1, Limits DEF Covers
<1>11. AccountOK(main[p])'
  BY <1>5, <1>7, <1>9 DEF AccountOK, r, InSession, Published, Serving
<1>12. \A q \in Runs : AccountOK(main[q])'
  BY <1>11, IdleAccounts
<1> QED BY <1>3, <1>10, <1>12 DEF Accounts

LEMMA ReceivesAccounts ==
  ASSUME Shape, Shape', Accounts, NEW p \in Runs, Receives(main[p], main'[p]), Idle(p),
         received' = received + 1, sessions' = sessions
  PROVE  Accounts'
<1>1. Used' = Used + 1
  <2>1. received \in Nat /\ sessions \in Nat /\ ControlMessages \in Nat
    BY Limits DEF Shape
  <2> DEFINE x == ControlMessages * sessions
  <2>2. x \in Nat
    BY <2>1, Products
  <2>3. Used = received + x /\ Used' = (received + 1) + x
    BY DEF Used
  <2> HIDE DEF x
  <2> QED BY <2>1, <2>2, <2>3
<1> DEFINE m == main[p]
           n == main'[p]
<1>2. /\ m.decoded \in Nat /\ m.received \in Nat /\ m.controls \in Nat /\ m.accepted \in Nat
      /\ m.value.reserved \in Nat /\ Used \in Nat /\ received \in Nat
  BY Numbers, UsedIs
<1>3. SessionOK(m) /\ m.value.reserved = status.reserved
  BY DEF Accounts, AccountOK, Receives, InSession, Published, Serving
<1>4. /\ m.pc = "session" /\ n.pc \in {"control", "market"} /\ status' = status
      /\ m.accepted < Ceiling - m.decoded - ControlMessages
      /\ n.pc = "control" => m.controls < MaxControls
      /\ n.decoded = m.decoded /\ n.received = m.received + 1
      /\ n.controls = m.controls /\ n.accepted = m.accepted /\ n.value = m.value
  BY DEF Receives
<1> HIDE DEF m, n
<1>5. /\ m.decoded < Ceiling /\ Used <= m.decoded + ControlMessages + m.received
      /\ received <= m.decoded + m.received
      /\ m.received = m.controls + m.accepted
      /\ m.controls <= MaxControls
      /\ \/ m.value.reserved >= Ceiling
         \/ m.decoded + ControlMessages + m.received + LowWater <= m.value.reserved
  BY <1>2, <1>3, <1>4, Limits DEF SessionOK, Count
<1>6. main'[p] = n /\ main[p] = m
  BY DEF m, n
<1>7. SessionOK(main[p])'
  <2>1. (main[p].decoded < Ceiling /\ Used <= Count(main[p]))'
    BY <1>1, <1>2, <1>4, <1>5, <1>6, Limits DEF Count
  <2>2. (received <= main[p].decoded + main[p].received)'
    BY <1>2, <1>4, <1>5, <1>6
  <2>3. (main[p].received = main[p].controls + main[p].accepted
          + (IF main[p].pc = "session" THEN 0 ELSE 1))'
    BY <1>2, <1>4, <1>5, <1>6
  <2>4. (main[p].controls + (IF main[p].pc = "control" THEN 1 ELSE 0) <= MaxControls)'
    BY <1>2, <1>4, <1>5, <1>6, Limits
  <2>5. (main[p].accepted + (IF main[p].pc \in {"market", "admitting"} THEN 1 ELSE 0)
          <= Ceiling - main[p].decoded - ControlMessages)'
    BY <1>2, <1>4, <1>6, Limits
  <2>6. (\/ main[p].value.reserved >= Ceiling
         \/ Count(main[p]) + (IF main[p].pc \in {"session", "admitting"} THEN LowWater ELSE 0)
              <= main[p].value.reserved)'
    BY <1>2, <1>4, <1>5, <1>6, Limits DEF Count
  <2> QED BY <2>1, <2>2, <2>3, <2>4, <2>5, <2>6 DEF SessionOK
<1>8. Covers(status.reserved)'
  BY <1>1, <1>2, <1>3, <1>4, <1>5, Limits DEF Covers
<1>9. MaxControls <= ControlMessages => received' <= Ceiling
  BY <1>2, <1>4, <1>5, Limits
<1>10. AccountOK(main[p])'
  BY <1>3, <1>4, <1>6, <1>7 DEF AccountOK, InSession, Published, Serving
<1>11. \A q \in Runs : AccountOK(main[q])'
  BY <1>10, IdleAccounts
<1> QED BY <1>8, <1>9, <1>11 DEF Accounts

(* The frame of a charge was counted when it was received: what is reserved     *)
(* reaches past the next one, or the ceiling.                                  *)
LEMMA ChargesAccounts ==
  ASSUME Shape, Shape', Accounts, NEW p \in Runs, Charges(main[p], main'[p]), Idle(p),
         UNCHANGED history
  PROVE  Accounts'
<1>1. Used' = Used /\ received' = received
  BY DEF Used, history
<1> DEFINE m == main[p]
           n == main'[p]
           c == Count(m)
<1>2. /\ m.decoded \in Nat /\ m.received \in Nat /\ m.controls \in Nat /\ m.accepted \in Nat
      /\ m.value.reserved \in Nat /\ n.value.reserved \in Nat
      /\ Used \in Nat /\ received \in Nat
  <2>1. (main[p].value.reserved \in Nat)'
    BY Numbers DEF Shape, Locals, Statuses
  <2> QED BY <2>1, Numbers, UsedIs
<1>3. SessionOK(m) /\ m.value.reserved = status.reserved
  BY DEF Accounts, AccountOK, Charges, InSession, Published, Serving
<1>4. /\ \/ m.pc = "control" /\ n.pc = "session" /\ n.controls = m.controls + 1
         \/ m.pc = "market" /\ n.pc = "admitting" /\ n.controls = m.controls
      /\ n.decoded = m.decoded /\ n.received = m.received /\ n.accepted = m.accepted
      /\ RunsLow(c, m.value.reserved) => n.value.reserved = Least(Ceiling, c + Quantum)
      /\ ~RunsLow(c, m.value.reserved) => n.value.reserved = m.value.reserved
      /\ \/ status'.reserved = n.value.reserved
         \/ status' = status /\ n.value.reserved = m.value.reserved
  BY DEF Charges, Publishes
<1>5. c \in Nat /\ c = m.decoded + ControlMessages + m.received
  BY <1>2, Limits DEF Count
<1>6. main'[p] = n /\ main[p] = m
  OBVIOUS
<1> HIDE DEF m, n, c
<1>7. status'.reserved = n.value.reserved
  BY <1>3, <1>4
<1>8. m.decoded < Ceiling /\ Used <= c /\ received <= m.decoded + m.received
      /\ m.received = m.controls + m.accepted + 1
      /\ m.controls + (IF m.pc = "control" THEN 1 ELSE 0) <= MaxControls
      /\ m.accepted + (IF m.pc = "market" THEN 1 ELSE 0) <= Ceiling - m.decoded - ControlMessages
  BY <1>2, <1>3, <1>4, Limits DEF SessionOK, c
<1>9. n.value.reserved >= Ceiling \/ c + LowWater <= n.value.reserved
  BY <1>2, <1>4, <1>5, Limits DEF RunsLow, Least
<1>10. SessionOK(main[p])'
  <2>1. (main[p].decoded < Ceiling /\ Used <= Count(main[p]))'
    BY <1>1, <1>4, <1>5, <1>6, <1>8 DEF Count
  <2>2. (received <= main[p].decoded + main[p].received)'
    BY <1>1, <1>4, <1>6, <1>8
  <2>3. (main[p].received = main[p].controls + main[p].accepted
          + (IF main[p].pc = "session" THEN 0 ELSE 1))'
    BY <1>2, <1>4, <1>6, <1>8
  <2>4. (main[p].controls + (IF main[p].pc = "control" THEN 1 ELSE 0) <= MaxControls)'
    BY <1>2, <1>4, <1>6, <1>8, Limits
  <2>5. (main[p].accepted + (IF main[p].pc \in {"market", "admitting"} THEN 1 ELSE 0)
          <= Ceiling - main[p].decoded - ControlMessages)'
    BY <1>2, <1>4, <1>6, <1>8, Limits
  <2>6. (\/ main[p].value.reserved >= Ceiling
         \/ Count(main[p]) + (IF main[p].pc \in {"session", "admitting"} THEN LowWater ELSE 0)
              <= main[p].value.reserved)'
    BY <1>2, <1>4, <1>5, <1>6, <1>9 DEF Count
  <2> QED BY <2>1, <2>2, <2>3, <2>4, <2>5, <2>6 DEF SessionOK
<1>11. Covers(status.reserved)'
  BY <1>1, <1>2, <1>5, <1>7, <1>8, <1>9, Limits DEF Covers
<1>12. AccountOK(main[p])'
  BY <1>4, <1>6, <1>7, <1>10 DEF AccountOK, InSession, Published, Serving
<1>13. \A q \in Runs : AccountOK(main[q])'
  BY <1>12, IdleAccounts
<1> QED BY <1>1, <1>11, <1>13 DEF Accounts

LEMMA AdmitsAccounts ==
  ASSUME Shape, Shape', Accounts, NEW p \in Runs, Admits(main[p], main'[p]), Idle(p),
         UNCHANGED history
  PROVE  Accounts'
<1>1. Used' = Used /\ received' = received
  BY DEF Used, history
<1> DEFINE m == main[p]
           n == main'[p]
<1>2. /\ m.decoded \in Nat /\ m.received \in Nat /\ m.controls \in Nat /\ m.accepted \in Nat
      /\ m.value.reserved \in Nat /\ Used \in Nat /\ received \in Nat
  BY Numbers, UsedIs
<1>3. SessionOK(m) /\ m.value.reserved = status.reserved
  BY DEF Accounts, AccountOK, Admits, InSession, Published, Serving
<1>4. /\ m.pc = "admitting" /\ n.pc = "session" /\ status' = status
      /\ n.decoded = m.decoded /\ n.received = m.received /\ n.controls = m.controls
      /\ n.value = m.value /\ n.accepted = m.accepted + 1
  BY DEF Admits
<1>5. main'[p] = n /\ main[p] = m
  OBVIOUS
<1> HIDE DEF m, n
<1>6. Count(m) \in Nat /\ Count(n) = Count(m)
  BY <1>2, <1>4, Limits DEF Count
<1>7. SessionOK(main[p])'
  <2>1. (main[p].decoded < Ceiling /\ Used <= Count(main[p]))'
    BY <1>1, <1>3, <1>4, <1>5 DEF Count, SessionOK
  <2>2. (received <= main[p].decoded + main[p].received)'
    BY <1>1, <1>3, <1>4, <1>5 DEF SessionOK
  <2>3. (main[p].received = main[p].controls + main[p].accepted
          + (IF main[p].pc = "session" THEN 0 ELSE 1))'
    BY <1>2, <1>3, <1>4, <1>5 DEF SessionOK
  <2>4. (main[p].controls + (IF main[p].pc = "control" THEN 1 ELSE 0) <= MaxControls)'
    BY <1>2, <1>3, <1>4, <1>5, Limits DEF SessionOK
  <2>5. (main[p].accepted + (IF main[p].pc \in {"market", "admitting"} THEN 1 ELSE 0)
          <= Ceiling - main[p].decoded - ControlMessages)'
    BY <1>2, <1>3, <1>4, <1>5, Limits DEF SessionOK
  <2>6. (\/ main[p].value.reserved >= Ceiling
         \/ Count(main[p]) + (IF main[p].pc \in {"session", "admitting"} THEN LowWater ELSE 0)
              <= main[p].value.reserved)'
    BY <1>3, <1>4, <1>5 DEF Count, SessionOK
  <2> QED BY <2>1, <2>2, <2>3, <2>4, <2>5, <2>6 DEF SessionOK
<1>8. AccountOK(main[p])'
  BY <1>3, <1>4, <1>5, <1>7 DEF AccountOK, InSession, Published, Serving
<1>9. \A q \in Runs : AccountOK(main[q])'
  BY <1>8, IdleAccounts
<1> QED BY <1>1, <1>4, <1>9 DEF Accounts, Covers

LEMMA SettlesUpAccounts ==
  ASSUME Shape, Shape', Accounts, NEW p \in Runs, SettlesUp(main[p], main'[p]), Idle(p),
         UNCHANGED history
  PROVE  Accounts'
<1>1. Used' = Used /\ received' = received
  BY DEF Used, history
<1>2. SessionOK(main[p])
  BY DEF Accounts, AccountOK, SettlesUp, InSession
<1>3. Used <= Count(main[p])
  BY <1>2 DEF SessionOK
<1>4. /\ main'[p].decoded = Count(main[p]) /\ status'.reserved = Count(main[p])
      /\ main'[p].value.reserved = Count(main[p]) /\ main'[p].pc \in {"loop", "closing"}
  BY DEF SettlesUp, Publishes
<1>5. Count(main[p]) \in Nat /\ Used \in Nat
  BY Numbers, UsedIs, Limits DEF Count
<1> DEFINE c == Count(main[p])
<1> HIDE DEF c
<1>6. c >= Used /\ main'[p].decoded = c /\ status'.reserved = c /\ main'[p].value.reserved = c
  BY <1>3, <1>4, <1>5 DEF c
<1>7. AccountOK(main[p])'
  BY <1>1, <1>4, <1>6 DEF AccountOK, Covers, InSession, Published, Serving
<1>8. \A q \in Runs : AccountOK(main[q])'
  BY <1>7, IdleAccounts
<1> QED BY <1>1, <1>6, <1>8 DEF Accounts, Covers

LEMMA DiesAccounts ==
  ASSUME Shape, Shape', Accounts, NEW p \in Runs, Dies(main[p], main'[p]), Idle(p),
         UNCHANGED history
  PROVE  Accounts'
<1>1. Used' = Used /\ received' = received
  BY DEF Used, history
<1>2. AccountOK(main[p]) /\ Covers(status.reserved)
  BY DEF Accounts
<1>3. Covers(status'.reserved)
  <2>1. main[p].pc \in {"joining", "released"} => main[p].value.reserved = status.reserved
    BY <1>2 DEF AccountOK, Published
  <2>2. main[p].pc = "released" => Covers(main[p].decoded)
    BY <1>2 DEF AccountOK
  <2> QED BY <1>2, <2>1, <2>2 DEF Dies, Publishes
<1>4. AccountOK(main[p])'
  BY DEF AccountOK, Dies, InSession, Published, Serving
<1>5. \A q \in Runs : AccountOK(main[q])'
  BY <1>4, IdleAccounts
<1> QED BY <1>1, <1>3, <1>5 DEF Accounts, Covers


-------------------------------------------------------------------------------
(* The steps together.                                                         *)

LEMMA PumpSame ==
  ASSUME Shape, NEW p \in Runs, UNCHANGED journal,
         pump' = pump \/ pump' = [pump EXCEPT ![p].stop = TRUE]
  PROVE  SamePump(p)
<1>1. CASE pump' = pump
  BY <1>1 DEF SamePump, PumpsBut
<1>2. CASE pump' = [pump EXCEPT ![p].stop = TRUE]
  <2>1. pump[p] \in Pumps
    BY RunShape
  <2> DEFINE q == [pump[p] EXCEPT !.stop = TRUE]
  <2>2. q.state = pump[p].state /\ q.queue = pump[p].queue /\ q.claim = pump[p].claim
    BY <2>1 DEF Pumps
  <2>3. pump' = [pump EXCEPT ![p] = q]
    BY <1>2
  <2> HIDE DEF q
  <2>4. pump'[p] = q /\ \A r \in Runs : r # p => pump'[r] = pump[r]
    BY <2>3 DEF Shape
  <2> QED BY <2>2, <2>4 DEF SamePump, PumpsBut
<1> QED BY <1>1, <1>2

LEMMA OpenPumpStarts ==
  ASSUME Shape, NEW p \in Runs, OpenPump(p)
  PROVE  Starts(p)
<1> DEFINE q == [pump[p] EXCEPT !.state = "starting"]
<1>1. pump' = [pump EXCEPT ![p] = q] /\ main[p].pc = "loaded" /\ UNCHANGED journal
  BY DEF OpenPump
<1>2. q.state = "starting" /\ q.queue = pump[p].queue /\ q.claim = pump[p].claim
  BY RunShape DEF Pumps
<1> HIDE DEF q
<1>3. pump'[p] = q /\ \A r \in Runs : r # p => pump'[r] = pump[r]
  BY <1>1 DEF Shape
<1> QED BY <1>1, <1>2, <1>3 DEF Starts, PumpsBut

LEMMA AdmitPuts ==
  ASSUME Shape, NEW p \in Runs, Admit(p)
  PROVE  Puts(p)
<1> DEFINE frame == [conn |-> main[p].attempts, number |-> main[p].accepted, by |-> p]
           line == Append(pump[p].queue, frame)
           q == [pump[p] EXCEPT !.queue = line]
<1>1. pump' = [pump EXCEPT ![p] = q] /\ UNCHANGED journal
  BY DEF Admit, Put
<1> HIDE DEF line
<1>2. q.state = pump[p].state /\ q.queue = line /\ q.claim = pump[p].claim
  BY RunShape DEF Pumps
<1> HIDE DEF q
<1>3. pump'[p] = q /\ \A r \in Runs : r # p => pump'[r] = pump[r]
  BY <1>1 DEF Shape
<1> QED BY <1>1, <1>2, <1>3 DEF Puts, PumpsBut, line

LEMMA CrashKills ==
  ASSUME Shape, NEW p \in Runs, Crash(p)
  PROVE  Killed(p)
<1> DEFINE q == [NoPump EXCEPT !.state = "killed"]
<1>1. pump' = [pump EXCEPT ![p] = q] /\ UNCHANGED journal
  BY DEF Crash
<1>2. q.state = "killed" /\ q.queue = <<>> /\ q.claim = <<>>
  BY NoPumpIs DEF Pumps
<1> HIDE DEF q
<1>3. pump'[p] = q /\ \A r \in Runs : r # p => pump'[r] = pump[r]
  BY <1>1 DEF Shape
<1> QED BY <1>1, <1>2, <1>3 DEF Killed, PumpsBut

(* Every step keeps layer 1 and has one of the effects. *)
LEMMA StepEffect ==
  ASSUME Shape, Phases, Overlap = FALSE, Next
  PROVE  /\ Shape' /\ Phases'
         /\ \/ SessionEnds
            \/ \E p \in Runs : Effect(p)
            \/ \E p \in Runs : PumpSteps(p) \/ PumpBreaks(p)
<1>1. CASE SessionEnds
  BY <1>1, SessionEndsPhases
<1>2. ASSUME NEW p \in Runs,
             \/ StartFails(p) \/ LeaveLoop(p) \/ Ready(p) \/ Refuse(p) \/ Overload(p)
             \/ Abort(p) \/ Close(p) \/ JoinFails(p) \/ Heartbeat(p) \/ StatusFails(p)
             \/ RequestStop(p)
      PROVE  Shape' /\ Phases' /\ Effect(p)
  <2>1. Shape' /\ Phases'
    <3>1. Refuse(p) \/ Overload(p) => main[p].pc \in Serving /\ Fail(p)
      BY DEF Refuse, Overload, Serving
    <3> QED BY <1>2, <3>1, StartFailsPhases, LeaveLoopPhases, ReadyPhases, FailPhases, AbortPhases,
               ClosePhases, JoinFailsPhases, HeartbeatPhases, StatusFailsPhases, RequestStopPhases
  <2>2. Quiet(main[p], main'[p]) /\ Idle(p) /\ UNCHANGED history /\ Alive(p)
    BY <1>2, QuietEffect
  <2>3. UNCHANGED journal /\ (pump' = pump \/ pump' = [pump EXCEPT ![p].stop = TRUE])
    BY <1>2 DEF StartFails, LeaveLoop, Ready, Refuse, Overload, Fail, Abort, Close, JoinFails,
                Heartbeat, StatusFails, RequestStop
  <2> QED BY <2>1, <2>2, <2>3, PumpSame DEF Effect
<1>3. ASSUME NEW p \in Runs, OpenPump(p)
      PROVE  Shape' /\ Phases' /\ Effect(p)
  BY <1>3, OpenPumpPhases, QuietEffect, OpenPumpStarts DEF Effect
<1>4. ASSUME NEW p \in Runs, Load(p)
      PROVE  Shape' /\ Phases' /\ Effect(p)
  <2>1. UNCHANGED <<journal, pump>>
    BY <1>4 DEF Load
  <2> QED BY <1>4, <2>1, LoadPhases, LoadEffect, PumpSame DEF Effect
<1>5. ASSUME NEW p \in Runs, Acquire(p)
      PROVE  Shape' /\ Phases' /\ Effect(p)
  <2>1. UNCHANGED <<journal, pump>>
    BY <1>5 DEF Acquire
  <2> QED BY <1>5, <2>1, AcquirePhases, AcquireEffect, PumpSame DEF Effect
<1>6. ASSUME NEW p \in Runs, Connect(p)
      PROVE  Shape' /\ Phases' /\ Effect(p)
  <2>1. UNCHANGED <<journal, pump>>
    BY <1>6 DEF Connect
  <2> QED BY <1>6, <2>1, ConnectPhases, ConnectEffect, PumpSame DEF Effect
<1>7. ASSUME NEW p \in Runs, Reserve(p)
      PROVE  Shape' /\ Phases' /\ Effect(p)
  <2>1. UNCHANGED <<journal, pump>>
    BY <1>7 DEF Reserve
  <2> QED BY <1>7, <2>1, ReservePhases, ReserveEffect, PumpSame DEF Effect
<1>8. ASSUME NEW p \in Runs, NEW kind \in {"control", "market"}, Receive(p, kind)
      PROVE  Shape' /\ Phases' /\ Effect(p)
  <2>1. UNCHANGED <<journal, pump>>
    BY <1>8 DEF Receive
  <2> QED BY <1>8, <2>1, ReceivePhases, ReceiveEffect, PumpSame DEF Effect
<1>9. ASSUME NEW p \in Runs, TakeControl(p) \/ ChargeMarket(p)
      PROVE  Shape' /\ Phases' /\ Effect(p)
  <2>1. UNCHANGED <<journal, pump>>
    BY <1>9 DEF TakeControl, ChargeMarket
  <2> QED BY <1>9, <2>1, TakeControlPhases, ChargeMarketPhases, ChargesEffect, PumpSame DEF Effect
<1>10. ASSUME NEW p \in Runs, Admit(p)
      PROVE  Shape' /\ Phases' /\ Effect(p)
  BY <1>10, AdmitPhases, AdmitEffect, AdmitPuts DEF Effect
<1>11. ASSUME NEW p \in Runs, Drop(p) \/ EndSession(p)
      PROVE  Shape' /\ Phases' /\ Effect(p)
  <2>1. UNCHANGED <<journal, pump>>
    BY <1>11 DEF Drop, EndSession
  <2> QED BY <1>11, <2>1, DropPhases, EndSessionPhases, SettlesUpEffect, PumpSame DEF Effect
<1>12. ASSUME NEW p \in Runs, Release(p)
      PROVE  Shape' /\ Phases' /\ Effect(p)
  <2>1. UNCHANGED <<journal, pump>> /\ Alive(p)
    BY <1>12 DEF Release, Alive
  <2> QED BY <1>12, <2>1, ReleasePhases, ReleaseEffect, PumpSame DEF Effect
<1>13. ASSUME NEW p \in Runs, Exit(p) \/ Report(p)
      PROVE  Shape' /\ Phases' /\ Effect(p)
  <2>1. UNCHANGED <<journal, pump>>
    BY <1>13 DEF Exit, Report
  <2> QED BY <1>13, <2>1, ExitPhases, ReportPhases, ExitEffect, ReportEffect, PumpSame DEF Effect
<1>14. ASSUME NEW p \in Runs, Crash(p)
      PROVE  Shape' /\ Phases' /\ Effect(p)
  BY <1>14, CrashPhases, CrashEffect, CrashKills DEF Effect
<1>15. ASSUME NEW p \in Runs, PumpSteps(p) \/ PumpBreaks(p)
      PROVE  Shape' /\ Phases'
  BY <1>15, PumpRecoverPhases, PumpClaimPhases, PumpAppendPhases, PumpNormalizePhases,
     PumpStopsPhases, PumpBreaksPhases DEF PumpSteps
<1> QED BY <1>1, <1>2, <1>3, <1>4, <1>5, <1>6, <1>7, <1>8, <1>9, <1>10, <1>11, <1>12, <1>13, <1>14,
           <1>15 DEF Next, MainSteps, Provider

(* A pump thread changes nothing that layer 2 counts. *)
LEMMA PumpStepIs ==
  ASSUME NEW p \in Runs, PumpSteps(p) \/ PumpBreaks(p)
  PROVE  MainsIdle /\ pump[p].state \in {"starting", "idle", "claimed", "appended"}
BY DEF PumpSteps, PumpRecover, PumpClaim, PumpAppend, PumpNormalize, PumpStops, PumpBreaks, MainsIdle

LEMMA SessionEndIs ==
  ASSUME SessionEnds
  PROVE  MainsIdle /\ UNCHANGED <<journal, pump>>
BY DEF SessionEnds, MainsIdle

LEMMA StepAccounts ==
  ASSUME Shape, Phases, Accounts, Overlap = FALSE, Next
  PROVE  Accounts'
<1>1. Shape' /\ Phases'
  BY StepEffect
<1>2. CASE MainsIdle
  BY <1>2 DEF MainsIdle, Accounts, Covers, Used, AccountOK, SessionOK, ResumeUsage, history
<1>3. ASSUME NEW p \in Runs, Effect(p)
      PROVE  Accounts'
  BY <1>1, <1>3, QuietAccounts, AcquiresAccounts, LoadsAccounts, RefusesAccounts, ConnectsAccounts,
     ReservesAccounts, ReceivesAccounts, ChargesAccounts, AdmitsAccounts, SettlesUpAccounts,
     DiesAccounts DEF Effect
<1> QED BY <1>2, <1>3, StepEffect, PumpStepIs, SessionEndIs


-------------------------------------------------------------------------------
(* Layer 3 is inductive.                                                       *)

(* The elements of sequences that are put together. *)
LEMMA ElementsConcat ==
  ASSUME NEW S, NEW s \in Seq(S), NEW t \in Seq(S)
  PROVE  ToSet(s \o t) = ToSet(s) \cup ToSet(t)
<1>1. ASSUME NEW f \in ToSet(s \o t) PROVE f \in ToSet(s) \cup ToSet(t)
  <2>1. PICK i \in 1..(Len(s) + Len(t)) : f = (s \o t)[i]
    BY DEF ToSet
  <2>2. CASE i <= Len(s)
    BY <2>1, <2>2 DEF ToSet
  <2>3. CASE i > Len(s)
    <3>1. i - Len(s) \in 1..Len(t) /\ f = t[i - Len(s)]
      BY <2>1, <2>3
    <3> QED BY <3>1 DEF ToSet
  <2> QED BY <2>1, <2>2, <2>3
<1>2. ASSUME NEW f \in ToSet(s) PROVE f \in ToSet(s \o t)
  <2>1. PICK i \in 1..Len(s) : f = s[i]
    BY DEF ToSet
  <2>2. i \in 1..Len(s \o t) /\ (s \o t)[i] = f
    BY <2>1
  <2> QED BY <2>2 DEF ToSet
<1>3. ASSUME NEW f \in ToSet(t) PROVE f \in ToSet(s \o t)
  <2>1. PICK i \in 1..Len(t) : f = t[i]
    BY DEF ToSet
  <2>2. Len(s) + i \in 1..Len(s \o t) /\ (s \o t)[Len(s) + i] = f
    BY <2>1
  <2> QED BY <2>2 DEF ToSet
<1> QED BY <1>1, <1>2, <1>3

LEMMA ElementsAppend ==
  ASSUME NEW S, NEW s \in Seq(S), NEW e \in S
  PROVE  ToSet(Append(s, e)) = ToSet(s) \cup {e}
<1>1. ASSUME NEW f \in ToSet(Append(s, e)) PROVE f \in ToSet(s) \cup {e}
  <2>1. PICK i \in 1..(Len(s) + 1) : f = Append(s, e)[i]
    BY DEF ToSet
  <2> QED BY <2>1 DEF ToSet
<1>2. ASSUME NEW f \in ToSet(s) PROVE f \in ToSet(Append(s, e))
  <2>1. PICK i \in 1..Len(s) : f = s[i]
    BY DEF ToSet
  <2>2. i \in 1..Len(Append(s, e)) /\ Append(s, e)[i] = f
    BY <2>1
  <2> QED BY <2>2 DEF ToSet
<1>3. e \in ToSet(Append(s, e))
  <2>1. Len(s) + 1 \in 1..Len(Append(s, e)) /\ Append(s, e)[Len(s) + 1] = e
    OBVIOUS
  <2> QED BY <2>1 DEF ToSet
<1> QED BY <1>1, <1>2, <1>3

LEMMA NoElements == ToSet(<<>>) = {}
BY DEF ToSet

(* Where a frame is. *)
LEMMA FramesAre ==
  ASSUME Shape
  PROVE  /\ \A f : f \in AllFrames <=> f \in ToSet(raw) \/ \E r \in Runs : f \in Held(r)
         /\ AllFrames \subseteq Frames
<1>1. \A f : f \in AllFrames <=> f \in ToSet(raw) \/ \E r \in Runs : f \in Held(r)
  BY DEF AllFrames, Held
<1>2. ToSet(raw) \subseteq Frames
  BY DEF Shape, ToSet
<1>3. ASSUME NEW r \in Runs PROVE Held(r) \subseteq Frames
  <2>1. pump[r].queue \in Seq(Frames) /\ pump[r].claim \in Seq(Frames)
    BY RunShape DEF Pumps
  <2> QED BY <2>1 DEF Held, ToSet
<1> QED BY <1>1, <1>2, <1>3

(* What a step of a main thread does to the frames. *)
LEMMA EffectFrames ==
  ASSUME Shape, NEW p \in Runs, Effect(p)
  PROVE  /\ raw' = raw /\ normalized' = normalized
         /\ \A r \in Runs : r # p => pump'[r] = pump[r]
         /\ \/ Held(p)' \subseteq Held(p) /\ ~Admits(main[p], main'[p])
            \/ /\ Admits(main[p], main'[p]) /\ Puts(p)
               /\ Held(p)' = Held(p) \cup {[conn |-> main[p].attempts,
                                            number |-> main[p].accepted, by |-> p]}
<1>1. SamePump(p) \/ Starts(p) \/ Killed(p) \/ Puts(p)
  BY DEF Effect
<1>2. raw' = raw /\ normalized' = normalized /\ \A r \in Runs : r # p => pump'[r] = pump[r]
  BY <1>1 DEF SamePump, Starts, Killed, Puts, PumpsBut, journal
<1>3. SamePump(p) \/ Starts(p) \/ Killed(p) => Held(p)' \subseteq Held(p)
  BY NoElements DEF SamePump, Starts, Killed, Held
<1>4. ASSUME Puts(p)
      PROVE  Held(p)' = Held(p) \cup {[conn |-> main[p].attempts,
                                       number |-> main[p].accepted, by |-> p]}
  <2> DEFINE frame == [conn |-> main[p].attempts, number |-> main[p].accepted, by |-> p]
  <2>1. frame \in Frames /\ pump[p].queue \in Seq(Frames)
    BY RunShape DEF Frames, Pumps
  <2>2. pump'[p].queue = Append(pump[p].queue, frame) /\ pump'[p].claim = pump[p].claim
    BY <1>4 DEF Puts
  <2> HIDE DEF frame
  <2>3. ToSet(Append(pump[p].queue, frame)) = ToSet(pump[p].queue) \cup {frame}
    BY <2>1, ElementsAppend
  <2>4. Held(p)' = Held(p) \cup {frame}
    BY <2>2, <2>3 DEF Held
  <2> QED BY <2>4 DEF frame
<1>5. \/ Admits(main[p], main'[p]) /\ Puts(p)
      \/ ~Admits(main[p], main'[p]) /\ (SamePump(p) \/ Starts(p) \/ Killed(p))
  <2> DEFINE m == main[p]
             n == main'[p]
  <2>1. Admits(m, n) => m.pc = "admitting" /\ n.pc = "session"
    BY DEF Admits
  <2>2. /\ Quiet(m, n) => ~(m.pc = "admitting" /\ n.pc = "session")
        /\ Acquires(m, n) => n.pc = "loop"
        /\ Loads(n) => n.pc = "loaded"
        /\ Refuses(m, n) => n.pc = "closing"
        /\ Connects(m, n) => n.pc = "reserving"
        /\ Charges(m, n) => m.pc # "admitting"
        /\ SettlesUp(m, n) => m.pc # "admitting"
        /\ Dies(m, n) => n.pc = "ended"
        /\ Reserves(m, n) => m.pc # "admitting"
        /\ Receives(m, n) => m.pc # "admitting"
    BY DEF Quiet, QuietMove, Acquires, Loads, Refuses, Connects, Charges, SettlesUp, Dies, Reserves,
           Receives
  <2> HIDE DEF m, n
  <2> QED BY <2>1, <2>2 DEF Effect, m, n
<1> QED BY <1>2, <1>3, <1>4, <1>5


(* The number of the connection, in the file and in the locals of the run that *)
(* steps: a and b are the file's, before and after.                            *)
AttemptsMove(m, n, a, b) ==
  /\ b >= a /\ n.pc # "off"
  /\ n.pc = "reserving" =>
       \/ m.pc = "reserving" /\ n.attempts = m.attempts
       \/ n.attempts = a + 1
  /\ n.pc \in InSession =>
       n.attempts = m.attempts /\ m.pc \in InSession \cup {"reserving"}

LEMMA EffectAttempts ==
  ASSUME Shape, Shape', Names, NEW p \in Runs, Effect(p)
  PROVE  /\ AttemptsOK(main[p])'
         /\ AttemptsMove(main[p], main'[p], status.attempts, status'.attempts)
<1> DEFINE m == main[p]
           n == main'[p]
           a == status.attempts
           b == status'.attempts
<1>1. /\ m.attempts \in Nat /\ a \in Nat /\ b \in Nat /\ n.attempts \in Nat
      /\ m.value.attempts \in Nat
  <2>1. (main[p].attempts \in Nat /\ status.attempts \in Nat)'
    BY DEF Shape, Locals, Statuses
  <2> QED BY <2>1, Numbers, UsedIs
<1>2. AttemptsAt(m, a)
  BY DEF Names, AttemptsOK
<1>3. UNCHANGED status => b = a
  OBVIOUS
<1>4. \A v : Publishes(v) => b = v.attempts
  BY DEF Publishes
<1>5. \/ Quiet(m, n) /\ Alive(p)
      \/ Acquires(m, n) \/ Loads(n) \/ Refuses(m, n) \/ Connects(m, n) \/ Charges(m, n)
      \/ Admits(m, n) \/ SettlesUp(m, n) \/ Dies(m, n) \/ Reserves(m, n) \/ Receives(m, n)
  BY DEF Effect
<1>6. Alive(p) => m.pc # "off"
  BY DEF Alive
<1>7. n = main'[p] /\ b = status'.attempts
  OBVIOUS
<1> HIDE DEF m, n, a, b
<1>8. AttemptsAt(n, b) /\ AttemptsMove(m, n, a, b)
  <2>1. CASE Quiet(m, n) /\ Alive(p)
    <3>1. n.attempts = m.attempts /\ n.value.attempts = m.value.attempts /\ QuietMove(m, n)
          /\ (b = a \/ (m.pc \in Published /\ b = m.value.attempts))
      BY <2>1, <1>3, <1>4 DEF Quiet, Kept
    <3>2. b = a
      BY <3>1, <1>2 DEF AttemptsAt, Published
    <3>3. AttemptsAt(n, a)
      BY <1>1, <1>2, <3>1 DEF AttemptsAt, QuietMove, Serving
    <3>4. AttemptsMove(m, n, a, b)
      BY <1>1, <2>1, <1>6, <3>1, <3>2 DEF AttemptsMove, QuietMove, InSession
    <3> QED BY <3>2, <3>3, <3>4
  <2>2. CASE Acquires(m, n)
    BY <1>1, <1>2, <1>4, <2>2 DEF Acquires, Kept, AttemptsAt, AttemptsMove, InSession, Serving
  <2>3. CASE Loads(n)
    BY <1>1, <1>3, <2>3 DEF Loads, AttemptsAt, AttemptsMove, InSession, Serving, a
  <2>4. CASE Refuses(m, n)
    BY <1>1, <1>2, <1>3, <2>4 DEF Refuses, AttemptsAt, AttemptsMove, InSession, Serving
  <2>5. CASE Connects(m, n)
    BY <1>1, <1>2, <1>4, <2>5 DEF Connects, AttemptsAt, AttemptsMove, InSession, Serving
  <2>6. CASE Charges(m, n)
    BY <1>1, <1>2, <1>3, <1>4, <2>6 DEF Charges, AttemptsAt, AttemptsMove, InSession, Serving
  <2>7. CASE Admits(m, n)
    BY <1>1, <1>2, <1>3, <2>7 DEF Admits, AttemptsAt, AttemptsMove, InSession, Serving
  <2>8. CASE SettlesUp(m, n)
    BY <1>1, <1>2, <1>4, <2>8 DEF SettlesUp, AttemptsAt, AttemptsMove, InSession, Serving
  <2>9. CASE Dies(m, n)
    BY <1>1, <1>2, <1>3, <1>4, <1>7, <2>9 DEF Dies, AttemptsAt, AttemptsMove, InSession, Serving
  <2>10. CASE Reserves(m, n)
    BY <1>1, <1>2, <1>4, <2>10 DEF Reserves, AttemptsAt, AttemptsMove, InSession, Serving
  <2>11. CASE Receives(m, n)
    BY <1>1, <1>2, <1>3, <2>11 DEF Receives, AttemptsAt, AttemptsMove, InSession, Serving
  <2> QED BY <1>5, <2>1, <2>2, <2>3, <2>4, <2>5, <2>6, <2>7, <2>8, <2>9, <2>10, <2>11
<1> QED BY <1>7, <1>8 DEF AttemptsOK, m, a

LEMMA EffectNames ==
  ASSUME Shape, Shape', Names, NEW p \in Runs, Effect(p)
  PROVE  Names'
<1> DEFINE frame == [conn |-> main[p].attempts, number |-> main[p].accepted, by |-> p]
<1>1. /\ AttemptsOK(main[p])'
      /\ AttemptsMove(main[p], main'[p], status.attempts, status'.attempts)
  BY EffectAttempts
<1>2. /\ raw' = raw /\ normalized' = normalized
      /\ \A r \in Runs : r # p => pump'[r] = pump[r]
      /\ \/ Held(p)' \subseteq Held(p) /\ ~Admits(main[p], main'[p])
         \/ Admits(main[p], main'[p]) /\ Held(p)' = Held(p) \cup {frame}
  BY EffectFrames
<1>3. \A r \in Runs : r # p => Held(r)' = Held(r)
  BY <1>2 DEF Held
<1>4. Idle(p)
  BY DEF Effect
<1>5. /\ status.attempts \in Nat /\ status'.attempts \in Nat /\ main[p].attempts \in Nat
      /\ main'[p].attempts \in Nat
  <2>1. (main[p].attempts \in Nat /\ status.attempts \in Nat)'
    BY DEF Shape, Locals, Statuses
  <2> QED BY <2>1, Numbers, UsedIs
<1>6. ASSUME NEW f \in AllFrames'
      PROVE  f \in AllFrames \/ (f = frame /\ Admits(main[p], main'[p]))
  <2>1. f \in ToSet(raw') \/ \E r \in Runs : f \in Held(r)'
    BY <1>6 DEF AllFrames, Held
  <2>2. CASE f \in ToSet(raw')
    BY <1>2, <2>2, FramesAre
  <2>3. ASSUME NEW r \in Runs, f \in Held(r)'
        PROVE  f \in AllFrames \/ (f = frame /\ Admits(main[p], main'[p]))
    BY <1>2, <1>3, <2>3, FramesAre
  <2> QED BY <2>1, <2>2, <2>3
<1>7. AllFrames \subseteq Frames /\ frame.by = p /\ frame.conn = main[p].attempts
  BY FramesAre
<1>8. Admits(main[p], main'[p]) =>
        /\ main[p].attempts = status.attempts /\ main[p].pc \in InSession
        /\ main'[p].attempts = main[p].attempts /\ main'[p].pc = "session"
  BY DEF Admits, Names, AttemptsOK, AttemptsAt, Serving, InSession
<1> HIDE DEF frame
<1>9. \A r \in Runs : AttemptsOK(main[r])'
  BY <1>1, <1>4 DEF Idle, AttemptsOK, AttemptsAt, Serving
<1>10. \A r \in Runs : \A f \in Held(r)' : f.by = r
  BY <1>2, <1>3, <1>7 DEF Names
<1>11. \A f \in AllFrames' : f.conn <= status'.attempts
  BY <1>1, <1>5, <1>6, <1>7, <1>8 DEF Names, AttemptsMove, Frames
<1>12. \A f, g \in AllFrames' : f.conn = g.conn => f.by = g.by
  BY <1>6, <1>7, <1>8 DEF Names
<1>13. \A f \in AllFrames' : main'[f.by].pc # "off"
  BY <1>1, <1>4, <1>6, <1>7 DEF Names, AttemptsMove, Idle, Frames
<1>14. main'[p].pc = "reserving" => \A f \in AllFrames' : f.conn # main'[p].attempts
  BY <1>1, <1>5, <1>6, <1>7, <1>8 DEF Names, AttemptsMove, Frames
<1>15. main'[p].pc \in InSession => \A f \in AllFrames' : f.conn = main'[p].attempts => f.by = p
  BY <1>1, <1>6, <1>7, <1>8 DEF Names, AttemptsMove
<1>16. \A r \in Runs : /\ main'[r].pc = "reserving" => \A f \in AllFrames' : f.conn # main'[r].attempts
                       /\ main'[r].pc \in InSession =>
                            \A f \in AllFrames' : f.conn = main'[r].attempts => f.by = r
  BY <1>4, <1>14, <1>15 DEF Idle, InSession
<1> QED BY <1>9, <1>10, <1>11, <1>12, <1>13, <1>16 DEF Names


-------------------------------------------------------------------------------
(* What a step of a pump thread does to the frames: they move along the line.  *)

FrameMove(p) ==
  /\ Line(p)' = Line(p)
  /\ \A r \in Runs : r # p => pump'[r] = pump[r]
  /\ Held(p)' \subseteq Held(p)
  /\ \E t \in Seq(Frames) :
       /\ raw' = raw \o t
       /\ ToSet(t) \subseteq Held(p)
       /\ raw' = raw \/ pump'[p].state = "appended"
  /\ pump'[p].state # "stale"
  /\ pump'[p].state = "conflict" => Conflicts(pump[p].claim)
  /\ normalized' \in {normalized, Len(raw)}
  /\ pump'[p].state \in Busy =>
       normalized' = Len(raw) \/ (pump[p].state \in Busy /\ normalized' = normalized)

(* The pieces of a line. *)
LEMMA LineIs ==
  ASSUME Shape, NEW p \in Runs
  PROVE  /\ raw \in Seq(Frames) /\ pump[p].claim \in Seq(Frames) /\ pump[p].queue \in Seq(Frames)
         /\ Line(p) \in Seq(Frames)
         /\ ToSet(Line(p)) = ToSet(raw) \cup Held(p)
         /\ ToSet(Line(p)) \subseteq AllFrames
<1>1. raw \in Seq(Frames) /\ pump[p].claim \in Seq(Frames) /\ pump[p].queue \in Seq(Frames)
  BY RunShape DEF Shape, Pumps
<1>2. pump[p].claim \o pump[p].queue \in Seq(Frames)
  BY <1>1, ConcatProperties
<1>3. Line(p) \in Seq(Frames)
  BY <1>1, <1>2, ConcatProperties DEF Line
<1>4. ToSet(Line(p)) = ToSet(raw) \cup Held(p)
  <2> DEFINE held == pump[p].claim \o pump[p].queue
  <2>1. Line(p) = raw \o held /\ raw \in Seq(Frames) /\ held \in Seq(Frames)
    BY <1>1, <1>2 DEF Line
  <2> HIDE DEF held
  <2>4. ToSet(raw \o held) = ToSet(raw) \cup ToSet(held)
    BY <2>1, ElementsConcat, Zenon
  <2>2. ToSet(Line(p)) = ToSet(raw) \cup ToSet(pump[p].claim \o pump[p].queue)
    BY <2>1, <2>4 DEF held
  <2>3. ToSet(pump[p].claim \o pump[p].queue) = ToSet(pump[p].claim) \cup ToSet(pump[p].queue)
    BY <1>1, ElementsConcat
  <2> QED BY <2>2, <2>3 DEF Held
<1> QED BY <1>1, <1>3, <1>4, FramesAre

(* A step that changes neither the journal nor what the pump holds. *)
LEMMA StillMove ==
  ASSUME Shape, NEW p \in Runs, raw' = raw,
         \A r \in Runs : r # p => pump'[r] = pump[r],
         pump'[p].claim \o pump'[p].queue = pump[p].claim \o pump[p].queue,
         Held(p)' \subseteq Held(p)
  PROVE  /\ Line(p)' = Line(p)
         /\ \E t \in Seq(Frames) :
              /\ raw' = raw \o t
              /\ ToSet(t) \subseteq Held(p)
              /\ raw' = raw \/ pump'[p].state = "appended"
<1>1. Line(p)' = Line(p)
  BY DEF Line
<1>2. <<>> \in Seq(Frames) /\ raw' = raw \o <<>> /\ ToSet(<<>>) \subseteq Held(p)
  BY NoElements, ConcatEmptySeq DEF Shape
<1> QED BY <1>1, <1>2

LEMMA PumpRecoverMove ==
  ASSUME Shape, Phases, NEW p \in Runs, PumpRecover(p)
  PROVE  FrameMove(p)
<1> DEFINE q == [pump[p] EXCEPT !.state = "idle", !.last = RecoveredOffset]
<1>1. /\ pump' = [pump EXCEPT ![p] = q] /\ pump[p].state = "starting"
      /\ raw' = raw /\ normalized' = normalized
  BY DEF PumpRecover, journal
<1>2. q.state = "idle" /\ q.claim = pump[p].claim /\ q.queue = pump[p].queue
  BY RunShape DEF Pumps
<1> HIDE DEF q
<1>3. pump'[p] = q /\ \A r \in Runs : r # p => pump'[r] = pump[r]
  BY <1>1 DEF Shape
<1>4. Held(p)' = Held(p)
  BY <1>2, <1>3 DEF Held
<1> QED BY <1>1, <1>2, <1>3, <1>4, StillMove DEF FrameMove, Busy

LEMMA PumpStopsMove ==
  ASSUME Shape, Phases, NEW p \in Runs, PumpStops(p)
  PROVE  FrameMove(p)
<1> DEFINE q == [pump[p] EXCEPT !.state = "done"]
<1>1. /\ pump' = [pump EXCEPT ![p] = q] /\ pump[p].state = "idle"
      /\ raw' = raw /\ normalized' = normalized
  BY DEF PumpStops, journal
<1>2. q.state = "done" /\ q.claim = pump[p].claim /\ q.queue = pump[p].queue
  BY RunShape DEF Pumps
<1> HIDE DEF q
<1>3. pump'[p] = q /\ \A r \in Runs : r # p => pump'[r] = pump[r]
  BY <1>1 DEF Shape
<1>4. Held(p)' = Held(p)
  BY <1>2, <1>3 DEF Held
<1> QED BY <1>1, <1>2, <1>3, <1>4, StillMove DEF FrameMove, Busy

LEMMA PumpNormalizeMove ==
  ASSUME Shape, Phases, NEW p \in Runs, PumpNormalize(p)
  PROVE  FrameMove(p)
<1> DEFINE read == ReadUpTo(pump[p].last)
           next == CASE read # pump[p].commit -> "unreadable"
                     [] read = pump[p].commit /\ ~NextRetained(p) -> "stale"
                     [] OTHER -> "idle"
           last == IF next = "idle" THEN read ELSE pump[p].last
           q == [pump[p] EXCEPT !.state = next, !.last = last]
<1>1. pump' = [pump EXCEPT ![p] = q] /\ raw' = raw
  BY RunShape DEF PumpNormalize, Pumps
<1> HIDE DEF read, next, last
<1>2. q.claim = pump[p].claim /\ q.queue = pump[p].queue
  BY RunShape DEF Pumps
<1> HIDE DEF q
<1>3. pump'[p] = q /\ \A r \in Runs : r # p => pump'[r] = pump[r]
  BY <1>1 DEF Shape
<1>4. Held(p)' = Held(p)
  BY <1>2, <1>3 DEF Held
<1>5. /\ normalized' \in {normalized, Len(raw)}
      /\ pump'[p].state \in {"idle", "unreadable"}
      /\ pump'[p].state = "idle" => normalized' = Len(raw)
  BY PumpNormalizePhases
<1> QED BY <1>1, <1>2, <1>3, <1>4, <1>5, StillMove DEF FrameMove, Busy

LEMMA PumpClaimMove ==
  ASSUME Shape, Phases, NEW p \in Runs, PumpClaim(p)
  PROVE  FrameMove(p)
<1>1. PICK head, tail \in Seq(Frames) :
        /\ pump' = [pump EXCEPT ![p] = [pump[p] EXCEPT !.state = "claimed", !.claim = head,
                                                       !.queue = tail]]
        /\ head \o tail = pump[p].queue
  BY ClaimIs
<1> DEFINE q == [pump[p] EXCEPT !.state = "claimed", !.claim = head, !.queue = tail]
<1>2. pump' = [pump EXCEPT ![p] = q] /\ pump[p].state = "idle" /\ raw' = raw /\ normalized' = normalized
  BY <1>1 DEF PumpClaim, journal
<1>3. q.state = "claimed" /\ q.claim = head /\ q.queue = tail
  BY RunShape DEF Pumps
<1> HIDE DEF q
<1>4. pump'[p] = q /\ \A r \in Runs : r # p => pump'[r] = pump[r]
  BY <1>2 DEF Shape
<1>5. pump[p].claim = <<>> /\ pump[p].queue \in Seq(Frames)
  BY <1>2, LineIs DEF Phases, PhaseOK
<1>6. pump[p].claim \o pump[p].queue = head \o tail
  BY <1>1, <1>5, ConcatEmptySeq
<1>7. Held(p)' = Held(p)
  <2>1. ToSet(pump[p].queue) = ToSet(head) \cup ToSet(tail)
    BY <1>1, ElementsConcat
  <2> QED BY <1>3, <1>4, <1>5, <2>1, NoElements DEF Held
<1> QED BY <1>2, <1>3, <1>4, <1>6, <1>7, StillMove DEF FrameMove, Busy

(* A claim that is given back stays where it was in the line. *)
LEMMA GiveUpMove ==
  ASSUME Shape, Phases, NEW p \in Runs, NEW s \in {"conflict", "broken"},
         pump' = [pump EXCEPT ![p] = [GivenBack(pump[p]) EXCEPT !.state = s]],
         raw' = raw, normalized' = normalized,
         s = "conflict" => Conflicts(pump[p].claim)
  PROVE  FrameMove(p)
<1> DEFINE q == [GivenBack(pump[p]) EXCEPT !.state = s]
<1>1. s \in PumpStates
  BY DEF PumpStates
<1>2. q.state = s /\ q.claim = <<>> /\ q.queue = pump[p].claim \o pump[p].queue
  BY <1>1, GivenBackIs
<1>3. pump' = [pump EXCEPT ![p] = q]
  OBVIOUS
<1> HIDE DEF q
<1>4. pump'[p] = q /\ \A r \in Runs : r # p => pump'[r] = pump[r]
  BY <1>3 DEF Shape
<1>5. pump[p].claim \in Seq(Frames) /\ pump[p].queue \in Seq(Frames)
  BY LineIs
<1>6. pump[p].claim \o pump[p].queue \in Seq(Frames)
  BY <1>5, ConcatProperties
<1>7. pump'[p].claim \o pump'[p].queue = pump[p].claim \o pump[p].queue
  BY <1>2, <1>4, <1>6, ConcatEmptySeq
<1>8. Held(p)' = Held(p)
  <2>1. ToSet(pump[p].claim \o pump[p].queue) = ToSet(pump[p].claim) \cup ToSet(pump[p].queue)
    BY <1>5, ElementsConcat
  <2> QED BY <1>2, <1>4, <2>1, NoElements DEF Held
<1> QED BY <1>2, <1>4, <1>7, <1>8, StillMove DEF FrameMove, Busy

LEMMA PumpAppendMove ==
  ASSUME Shape, Phases, NEW p \in Runs, PumpAppend(p)
  PROVE  FrameMove(p)
<1> DEFINE claim == pump[p].claim
           queue == pump[p].queue
           n == Len(raw')
           q == [pump[p] EXCEPT !.state = "appended", !.claim = <<>>, !.commit = n]
<1>1. CASE Conflicts(claim)
  BY <1>1, GiveUpMove DEF PumpAppend
<1>2. CASE ~Conflicts(claim)
  <2>1. raw' = raw \o claim /\ pump' = [pump EXCEPT ![p] = q] /\ normalized' = normalized
    BY <1>2 DEF PumpAppend
  <2>2. raw \in Seq(Frames) /\ claim \in Seq(Frames) /\ queue \in Seq(Frames)
    BY LineIs
  <2> HIDE DEF n
  <2>3. q.state = "appended" /\ q.claim = <<>> /\ q.queue = queue
    BY RunShape DEF Pumps
  <2> HIDE DEF q
  <2>4. pump'[p] = q /\ \A r \in Runs : r # p => pump'[r] = pump[r]
    BY <2>1 DEF Shape
  <2>5. <<>> \o queue = queue
    BY <2>2, ConcatEmptySeq
  <2>6. (raw \o claim) \o queue = raw \o (claim \o queue)
    <3> HIDE DEF claim, queue
    <3> QED BY <2>2, ConcatAssociative
  <2>7. Line(p)' = Line(p)
    BY <2>1, <2>3, <2>4, <2>5, <2>6 DEF Line
  <2>8. Held(p)' \subseteq Held(p) /\ ToSet(claim) \subseteq Held(p)
    BY <2>3, <2>4, NoElements DEF Held
  <2> QED BY <2>1, <2>2, <2>3, <2>4, <2>7, <2>8 DEF FrameMove, Busy
<1> QED BY <1>1, <1>2

LEMMA PumpMove ==
  ASSUME Shape, Phases, NEW p \in Runs, PumpSteps(p) \/ PumpBreaks(p)
  PROVE  FrameMove(p)
<1>1. PumpBreaks(p) => FrameMove(p)
  BY GiveUpMove DEF PumpBreaks, journal
<1> QED BY <1>1, PumpRecoverMove, PumpClaimMove, PumpAppendMove, PumpNormalizeMove, PumpStopsMove
        DEF PumpSteps

LEMMA PumpNames ==
  ASSUME Shape, Phases, Names, NEW p \in Runs, FrameMove(p), MainsIdle
  PROVE  Names'
<1>1. \A r \in Runs : Held(r)' \subseteq Held(r)
  BY DEF FrameMove, Held
<1>2. ToSet(raw') \subseteq ToSet(raw) \cup Held(p)
  <2>1. PICK t \in Seq(Frames) : raw' = raw \o t /\ ToSet(t) \subseteq Held(p)
    BY DEF FrameMove
  <2> QED BY <2>1, LineIs, ElementsConcat
<1>3. ASSUME NEW f \in AllFrames' PROVE f \in AllFrames
  <2>1. f \in ToSet(raw') \/ \E r \in Runs : f \in Held(r)'
    BY <1>3 DEF AllFrames, Held
  <2> QED BY <1>1, <1>2, <2>1, FramesAre
<1>4. main' = main /\ status' = status
  BY DEF MainsIdle
<1>5. /\ \A r \in Runs : AttemptsOK(main[r])'
      /\ \A r \in Runs : \A f \in Held(r)' : f.by = r
  BY <1>1, <1>4 DEF Names, AttemptsOK
<1>6. /\ \A f \in AllFrames' : f.conn <= status'.attempts
      /\ \A f, g \in AllFrames' : f.conn = g.conn => f.by = g.by
      /\ \A f \in AllFrames' : main'[f.by].pc # "off"
      /\ \A r \in Runs : main'[r].pc = "reserving" =>
           \A f \in AllFrames' : f.conn # main'[r].attempts
      /\ \A r \in Runs : main'[r].pc \in InSession =>
           \A f \in AllFrames' : f.conn = main'[r].attempts => f.by = r
  BY <1>3, <1>4 DEF Names
<1> QED BY <1>5, <1>6 DEF Names

LEMMA StepNames ==
  ASSUME Shape, Phases, Names, Overlap = FALSE, Next
  PROVE  Names'
<1>1. Shape' /\ Phases'
  BY StepEffect
<1>2. CASE SessionEnds
  <2>1. UNCHANGED <<status, main, raw, normalized, pump>>
    BY <1>2, SessionEndIs DEF MainsIdle, journal
  <2> QED BY <2>1 DEF Names, AttemptsOK, AllFrames, Held
<1> QED BY <1>1, <1>2, StepEffect, EffectNames, PumpMove, PumpNames, PumpStepIs

(* Two frames with one identity are one frame. *)
LEMMA NamesIdentify ==
  ASSUME Shape, Names
  PROVE  FramesIdentified
<1> SUFFICES ASSUME NEW f \in AllFrames, NEW g \in AllFrames, SameIdentity(f, g)
             PROVE  f = g
  BY DEF FramesIdentified
<1>1. f \in Frames /\ g \in Frames
  BY FramesAre
<1>2. f.conn = g.conn /\ f.number = g.number /\ f.by = g.by
  BY DEF SameIdentity, Names
<1> QED BY <1>1, <1>2 DEF Frames


-------------------------------------------------------------------------------
(* Layer 4 is inductive.  First, what numbering says of sequences.             *)

LEMMA Positions ==
  ASSUME NEW s \in Seq(Frames), NEW c, NEW n \in 0..Len(s), NEW p
  PROVE  /\ IsFiniteSet(OfConn(s, c, n)) /\ Cardinality(OfConn(s, c, n)) \in Nat
         /\ IsFiniteSet(ByRun(s, p)) /\ Cardinality(ByRun(s, p)) \in Nat
<1>1. IsFiniteSet(1..n) /\ IsFiniteSet(1..Len(s))
  BY FS_Interval
<1>2. OfConn(s, c, n) \in SUBSET (1..n) /\ ByRun(s, p) \in SUBSET (1..Len(s))
  BY DEF OfConn, ByRun
<1>3. IsFiniteSet(OfConn(s, c, n)) /\ IsFiniteSet(ByRun(s, p))
  BY <1>1, <1>2, FS_Subset
<1> QED BY <1>3, FS_CardinalityType

(* The beginning of a numbered line is numbered. *)
LEMMA NumberedPrefix ==
  ASSUME NEW s \in Seq(Frames), NEW t \in Seq(Frames), Numbered(s \o t)
  PROVE  Numbered(s)
<1> SUFFICES ASSUME NEW i \in 1..Len(s)
             PROVE  s[i].number = Cardinality(OfConn(s, s[i].conn, i - 1))
  BY DEF Numbered
<1> DEFINE w == s \o t
<1>1. Len(w) = Len(s) + Len(t) /\ \A j \in 1..Len(s) : w[j] = s[j]
  OBVIOUS
<1>2. i \in 1..Len(w) /\ Len(s) \in Nat
  BY <1>1
<1>3. w[i].number = Cardinality(OfConn(w, w[i].conn, i - 1))
  BY <1>2 DEF Numbered
<1> HIDE DEF w
<1>4. OfConn(w, w[i].conn, i - 1) = OfConn(s, s[i].conn, i - 1)
  BY <1>1, <1>2 DEF OfConn
<1> QED BY <1>1, <1>3, <1>4

(* The frames of a connection and of a run, when one more is put in line. *)
LEMMA OfConnAppend ==
  ASSUME NEW s \in Seq(Frames), NEW e \in Frames, NEW c
  PROVE  /\ \A n \in 0..Len(s) : OfConn(Append(s, e), c, n) = OfConn(s, c, n)
         /\ e.conn = c => Cardinality(OfConn(Append(s, e), c, Len(Append(s, e))))
                            = Cardinality(OfConn(s, c, Len(s))) + 1
<1> DEFINE w == Append(s, e)
           l == Len(s)
<1>1. Len(w) = l + 1 /\ w[l + 1] = e /\ l \in Nat /\ \A j \in 1..l : w[j] = s[j]
  OBVIOUS
<1>4. IsFiniteSet(OfConn(s, c, l))
  BY <1>1, Positions
<1> HIDE DEF w, l
<1>2. \A n \in 0..l : OfConn(w, c, n) = OfConn(s, c, n)
  BY <1>1 DEF OfConn
<1>3. ASSUME e.conn = c
      PROVE  Cardinality(OfConn(w, c, Len(w))) = Cardinality(OfConn(s, c, l)) + 1
  <2>1. OfConn(w, c, l + 1) = OfConn(s, c, l) \cup {l + 1}
    BY <1>1, <1>3 DEF OfConn
  <2>2. l + 1 \notin OfConn(s, c, l)
    BY <1>1 DEF OfConn
  <2> QED BY <1>1, <1>4, <2>1, <2>2, FS_AddElement
<1> QED BY <1>2, <1>3 DEF w, l

LEMMA ByRunAppend ==
  ASSUME NEW s \in Seq(Frames), NEW e \in Frames
  PROVE  Cardinality(ByRun(Append(s, e), e.by)) = Cardinality(ByRun(s, e.by)) + 1
<1> DEFINE w == Append(s, e)
           l == Len(s)
<1>1. Len(w) = l + 1 /\ w[l + 1] = e /\ l \in Nat /\ \A j \in 1..l : w[j] = s[j]
  OBVIOUS
<1>2. IsFiniteSet(ByRun(s, e.by))
  BY Positions
<1>3. l = Len(s)
  OBVIOUS
<1> HIDE DEF w, l
<1>4. ByRun(w, e.by) = ByRun(s, e.by) \cup {l + 1}
  BY <1>1, <1>3 DEF ByRun
<1>5. l + 1 \notin ByRun(s, e.by)
  BY <1>1, <1>3 DEF ByRun
<1> QED BY <1>2, <1>4, <1>5, FS_AddElement DEF w

LEMMA NumberedAppend ==
  ASSUME NEW s \in Seq(Frames), NEW e \in Frames, Numbered(s),
         e.number = Cardinality(OfConn(s, e.conn, Len(s)))
  PROVE  Numbered(Append(s, e))
<1> DEFINE w == Append(s, e)
           l == Len(s)
<1>1. Len(w) = l + 1 /\ w[l + 1] = e /\ l \in Nat /\ \A j \in 1..l : w[j] = s[j]
  OBVIOUS
<1>2. \A c : \A n \in 0..l : OfConn(w, c, n) = OfConn(s, c, n)
  BY OfConnAppend
<1>3. l = Len(s)
  OBVIOUS
<1> HIDE DEF w, l
<1> SUFFICES ASSUME NEW i \in 1..(l + 1)
             PROVE  w[i].number = Cardinality(OfConn(w, w[i].conn, i - 1))
  BY <1>1 DEF Numbered, w
<1>4. CASE i = l + 1
  BY <1>1, <1>2, <1>3, <1>4
<1>5. CASE i # l + 1
  <2>1. i \in 1..l /\ i - 1 \in 0..l
    BY <1>1, <1>5
  <2>2. s[i].number = Cardinality(OfConn(s, s[i].conn, i - 1))
    BY <1>3, <2>1 DEF Numbered
  <2> QED BY <1>1, <1>2, <2>1, <2>2
<1> QED BY <1>4, <1>5

(* No two frames of a numbered line have the same identity. *)
LEMMA NumberedDistinct ==
  ASSUME NEW s \in Seq(Frames), Numbered(s), NEW i \in 1..Len(s), NEW j \in 1..Len(s), i < j
  PROVE  ~SameIdentity(s[i], s[j])
<1> SUFFICES ASSUME s[i].conn = s[j].conn, s[i].number = s[j].number
             PROVE  FALSE
  BY DEF SameIdentity
<1> DEFINE c == s[i].conn
           before == OfConn(s, c, i - 1)
           then == OfConn(s, c, j - 1)
<1>1. Cardinality(before) = Cardinality(then)
  BY DEF Numbered
<1>2. i - 1 \in 0..Len(s) /\ j - 1 \in 0..Len(s)
  OBVIOUS
<1>3. /\ IsFiniteSet(before) /\ IsFiniteSet(then)
      /\ Cardinality(before) \in Nat /\ Cardinality(then) \in Nat
  BY <1>2, Positions
<1>4. before \cup {i} \in SUBSET then /\ i \notin before
  BY DEF OfConn
<1> HIDE DEF before, then
<1>5. Cardinality(before \cup {i}) = Cardinality(before) + 1
  BY <1>3, <1>4, FS_AddElement
<1>6. Cardinality(before \cup {i}) <= Cardinality(then)
  BY <1>3, <1>4, FS_Subset
<1> QED BY <1>1, <1>3, <1>5, <1>6

(* A pump is never refused by the journal. *)
LEMMA NoConflict ==
  ASSUME Shape, Names, NEW p \in Runs, Numbered(Line(p))
  PROVE  ~Conflicts(pump[p].claim)
<1> DEFINE claim == pump[p].claim
           queue == pump[p].queue
<1>1. raw \in Seq(Frames) /\ claim \in Seq(Frames) /\ queue \in Seq(Frames) /\ Line(p) \in Seq(Frames)
  BY LineIs
<1>2. Line(p) = raw \o (claim \o queue)
  BY DEF Line
<1>3. ASSUME NEW i \in 1..Len(claim), NEW j \in 1..Len(claim), i < j
      PROVE  ~SameIdentity(claim[i], claim[j])
  <2> DEFINE s == Line(p)
             held == claim \o queue
             l == Len(raw)
  <2> HIDE DEF claim, queue
  <2>1. /\ held \in Seq(Frames) /\ Len(held) = Len(claim) + Len(queue)
        /\ held[i] = claim[i] /\ held[j] = claim[j]
        /\ Len(claim) \in Nat /\ Len(queue) \in Nat /\ l \in Nat
    BY <1>1
  <2> HIDE DEF held
  <2>2. i \in 1..Len(held) /\ j \in 1..Len(held)
    BY <2>1
  <2>3. s = raw \o held
    BY <1>2 DEF held
  <2>4. /\ l + i \in 1..Len(s) /\ l + j \in 1..Len(s) /\ l + i < l + j
        /\ s[l + i] = held[i] /\ s[l + j] = held[j]
    <3> HIDE DEF s
    <3> QED BY <1>1, <2>1, <2>2, <2>3, <1>3
  <2> HIDE DEF l
  <2>5. ~SameIdentity(s[l + i], s[l + j])
    BY <1>1, <2>4, NumberedDistinct
  <2> QED BY <2>1, <2>4, <2>5
<1>4. ASSUME NEW f \in ToSet(claim), NEW g \in ToSet(raw), SameIdentity(f, g)
      PROVE  f = g
  <2>1. f \in Held(p)
    BY DEF Held
  <2> QED BY <1>4, <2>1, FramesAre, NamesIdentify DEF FramesIdentified
<1> QED BY <1>3, <1>4 DEF Conflicts


(* What is put in the queue is last in line. *)
LEMMA AppendLine ==
  ASSUME NEW r \in Seq(Frames), NEW c \in Seq(Frames), NEW q \in Seq(Frames), NEW e \in Frames
  PROVE  r \o (c \o Append(q, e)) = Append(r \o (c \o q), e)
<1> DEFINE one == <<e>>
<1>1. one \in Seq(Frames)
  OBVIOUS
<1>2. c \o q \in Seq(Frames) /\ r \o (c \o q) \in Seq(Frames)
  OBVIOUS
<1>3. Append(q, e) = q \o one /\ Append(r \o (c \o q), e) = (r \o (c \o q)) \o one
  BY <1>2, AppendIsConcat
<1> HIDE DEF one
<1>4. c \o (q \o one) = (c \o q) \o one
  BY <1>1
<1> DEFINE held == c \o q
<1>5. held \in Seq(Frames)
  BY <1>2
<1> HIDE DEF held
<1>6. r \o (held \o one) = (r \o held) \o one
  BY <1>1, <1>5
<1> QED BY <1>3, <1>4, <1>6 DEF held

(* A step of the main thread that puts nothing in line. *)
LEMMA StillLine ==
  ASSUME Shape, NEW p \in Runs, SamePump(p) \/ Starts(p)
  PROVE  Line(p)' = Line(p)
BY DEF Line, SamePump, Starts, PumpsBut, journal

(* The line of a run, and what its locals say of it, before and after. *)
LineAt(m, s, c) ==
  /\ Numbered(s)
  /\ Cardinality(ByRun(s, c)) = m.admitted
  /\ m.pc \in InSession => Cardinality(OfConn(s, m.attempts, Len(s))) = m.accepted

LEMMA LineAlive ==
  ASSUME NEW p \in Runs, LineOK(p, Line(p)), Alive(p)
  PROVE  LineAt(main[p], Line(p), p)
BY DEF LineOK, LineAt

LEMMA LineAfter ==
  ASSUME NEW p \in Runs, NEW s, Line(p)' = s,
         Alive(p)' => LineAt(main'[p], s, p)
  PROVE  LineOK(p, Line(p))'
BY DEF LineOK, LineAt, Alive, InSession

LEMMA EffectLine ==
  ASSUME Shape, Phases, Names, Lines, NEW p \in Runs, Effect(p)
  PROVE  LineOK(p, Line(p))'
<1> DEFINE m == main[p]
           n == main'[p]
           s == Line(p)
<1>1. LineOK(p, s)
  BY DEF Lines
<1>2. ASSUME Line(p)' = s, Alive(p), n.admitted = m.admitted,
             n.pc \in InSession =>
               m.pc \in InSession /\ n.attempts = m.attempts /\ n.accepted = m.accepted
      PROVE  LineOK(p, Line(p))'
  <2>1. LineAt(m, s, p)
    BY <1>1, <1>2, LineAlive
  <2>2. LineAt(n, s, p)
    BY <1>2, <2>1 DEF LineAt
  <2> QED BY <1>2, <2>2, LineAfter
<1>3. CASE Quiet(m, n) /\ Alive(p) /\ (SamePump(p) \/ Starts(p))
  <2>1. /\ n.admitted = m.admitted /\ n.attempts = m.attempts /\ n.accepted = m.accepted
        /\ n.pc \in InSession => m.pc \in InSession
    BY <1>3 DEF Quiet, QuietMove, Kept, InSession
  <2> QED BY <1>2, <1>3, <2>1, StillLine
<1>4. CASE (Acquires(m, n) \/ Refuses(m, n) \/ Connects(m, n) \/ SettlesUp(m, n)) /\ SamePump(p)
  <2>1. n.admitted = m.admitted /\ n.pc \notin InSession /\ Alive(p)
    BY <1>4 DEF Acquires, Refuses, Connects, SettlesUp, Kept, InSession, Alive
  <2> QED BY <1>2, <1>4, <2>1, StillLine
<1>5. CASE (Charges(m, n) \/ Receives(m, n)) /\ SamePump(p)
  <2>1. /\ n.admitted = m.admitted /\ n.attempts = m.attempts /\ n.accepted = m.accepted
        /\ m.pc \in InSession /\ Alive(p)
    BY <1>5 DEF Charges, Receives, InSession, Alive
  <2> QED BY <1>2, <1>5, <2>1, StillLine
<1>6. CASE Loads(n) /\ SamePump(p) /\ m.pc = "off" /\ n.admitted = m.admitted
  <2>1. pump[p] = NoPump
    BY <1>6 DEF Phases, PhaseOK
  <2>2. s = raw
    BY <2>1, NoPumpIs, LineIs DEF Line
  <2>3. ByRun(raw, p) = {}
    <3> SUFFICES ASSUME NEW j \in 1..Len(raw), raw[j].by = p PROVE FALSE
      BY DEF ByRun
    <3>1. raw[j] \in AllFrames
      BY FramesAre DEF ToSet, Shape
    <3> QED BY <1>6, <3>1 DEF Names
  <2>4. m.admitted = 0 /\ Numbered(raw)
    BY <1>6 DEF Lines
  <2>5. LineAt(n, s, p)
    BY <1>6, <2>2, <2>3, <2>4, FS_EmptySet DEF LineAt, Loads, InSession
  <2> QED BY <1>6, <2>5, StillLine, LineAfter
<1>7. CASE Reserves(m, n) /\ SamePump(p)
  <2>1. n.pc = "session" /\ n.accepted = 0 /\ n.admitted = m.admitted /\ n.attempts = m.attempts
        /\ m.pc = "reserving" /\ Alive(p)
    BY <1>7 DEF Reserves, Alive
  <2>2. OfConn(s, m.attempts, Len(s)) = {}
    <3> SUFFICES ASSUME NEW j \in 1..Len(s), s[j].conn = m.attempts PROVE FALSE
      BY DEF OfConn
    <3>1. s[j] \in ToSet(s)
      <4>1. s \in Seq(Frames)
        BY LineIs
      <4> QED BY <4>1 DEF ToSet
    <3>2. s[j] \in AllFrames
      BY <3>1, LineIs
    <3> QED BY <2>1, <3>2 DEF Names
  <2>3. LineAt(m, s, p)
    BY <1>1, <2>1, LineAlive
  <2>4. LineAt(n, s, p)
    BY <2>1, <2>2, <2>3, FS_EmptySet DEF LineAt
  <2> QED BY <1>7, <2>4, StillLine, LineAfter
<1>8. CASE Admits(m, n) /\ Puts(p)
  <2> DEFINE frame == [conn |-> m.attempts, number |-> m.accepted, by |-> p]
  <2>1. frame \in Frames /\ frame.conn = m.attempts /\ frame.number = m.accepted /\ frame.by = p
    BY RunShape DEF Frames
  <2>2. /\ pump'[p].queue = Append(pump[p].queue, frame) /\ pump'[p].claim = pump[p].claim
        /\ raw' = raw
    BY <1>8 DEF Puts, PumpsBut, journal
  <2>3. /\ n.attempts = m.attempts /\ n.accepted = m.accepted + 1 /\ n.admitted = m.admitted + 1
        /\ m.pc \in InSession /\ Alive(p)
    BY <1>8 DEF Admits, InSession, Alive
  <2>4. LineAt(m, s, p)
    BY <1>1, <2>3, LineAlive
  <2> HIDE DEF frame
  <2>5. raw \o (pump[p].claim \o Append(pump[p].queue, frame)) = Append(s, frame)
    <3> DEFINE c == pump[p].claim
               q == pump[p].queue
    <3>1. c \in Seq(Frames) /\ q \in Seq(Frames) /\ raw \in Seq(Frames)
      BY LineIs
    <3>2. s = raw \o (c \o q)
      BY DEF Line
    <3> HIDE DEF c, q, s
    <3>3. raw \o (c \o Append(q, frame)) = Append(raw \o (c \o q), frame)
      BY <2>1, <3>1, AppendLine, Zenon
    <3> QED BY <3>2, <3>3 DEF c, q
  <2>6. Line(p)' = Append(s, frame) /\ s \in Seq(Frames)
    BY <2>2, <2>5, LineIs DEF Line
  <2> HIDE DEF s, m, n
  <2>7. /\ Numbered(s) /\ Cardinality(ByRun(s, p)) = m.admitted
        /\ Cardinality(OfConn(s, m.attempts, Len(s))) = m.accepted
    BY <2>3, <2>4 DEF LineAt
  <2>8. Numbered(Append(s, frame))
    BY <2>1, <2>6, <2>7, NumberedAppend
  <2>9. Cardinality(ByRun(Append(s, frame), p)) = n.admitted
    BY <2>1, <2>3, <2>6, <2>7, ByRunAppend
  <2>10. Cardinality(OfConn(Append(s, frame), n.attempts, Len(Append(s, frame)))) = n.accepted
    BY <2>1, <2>3, <2>6, <2>7, OfConnAppend
  <2>11. LineAt(n, Append(s, frame), p)
    BY <2>8, <2>9, <2>10 DEF LineAt
  <2> QED BY <2>6, <2>11, LineAfter DEF n
<1>9. CASE Dies(m, n)
  <2>1. n.pc = "ended"
    BY <1>9 DEF Dies
  <2> QED BY <2>1 DEF LineOK, Alive, InSession
<1> QED BY <1>3, <1>4, <1>5, <1>6, <1>7, <1>8, <1>9 DEF Effect


LEMMA LineShape ==
  ASSUME Shape, NEW p \in Runs
  PROVE  raw \in Seq(Frames) /\ pump[p].claim \o pump[p].queue \in Seq(Frames)
BY LineIs, ConcatProperties

(* A run that ends without an error has found its pump done and its line in    *)
(* the journal.                                                                *)
LEMMA EffectLines ==
  ASSUME Shape, Shape', Phases, Names, Lines, NEW p \in Runs, Effect(p)
  PROVE  Lines'
<1> DEFINE m == main[p]
           n == main'[p]
<1>1. /\ raw' = raw /\ normalized' = normalized /\ Idle(p)
      /\ \A r \in Runs : r # p => pump'[r] = pump[r]
  BY EffectFrames DEF Effect
<1>2. n.pc # "off" /\ (n.pc \in InSession => m.pc \in InSession \cup {"reserving"})
  BY EffectAttempts DEF AttemptsMove
<1>3. Numbered(raw)'
  BY <1>1 DEF Lines
<1>4. \A r \in Runs : LineOK(r, Line(r))'
  <2>1. LineOK(p, Line(p))'
    BY EffectLine
  <2>2. ASSUME NEW r \in Runs, r # p PROVE LineOK(r, Line(r))'
    BY <1>1, <2>2 DEF Idle, LineOK, Alive, InSession
  <2> QED BY <2>1, <2>2
<1>5. \A r \in Runs : Settles(r)'
  <2>1. ASSUME NEW r \in Runs, r # p PROVE Settles(r)'
    BY <1>1, <2>1 DEF Lines, Settles
  <2>2. CASE SamePump(p) \/ Puts(p)
    <3>1. pump'[p].state = pump[p].state
      BY <2>2 DEF SamePump, Puts
    <3>2. Settles(p)'
      BY <1>1, <3>1 DEF Lines, Settles
    <3> QED BY <2>1, <3>2
  <2>3. CASE Killed(p)
    <3>1. Settles(p)'
      BY <2>3 DEF Killed, Settles, Busy
    <3> QED BY <2>1, <3>1
  <2>4. CASE Starts(p)
    <3>1. m.pc = "loaded" /\ Alive(p)
      BY <2>4 DEF Starts, Alive
    <3>2. pump[p] = NoPump /\ m.admitted = 0
      BY <3>1 DEF Phases, PhaseOK, Lines
    <3>3. Line(p) = raw
      BY <3>2, NoPumpIs, LineIs DEF Line
    <3>4. Cardinality(ByRun(raw, p)) = 0
      BY <3>1, <3>2, <3>3 DEF Lines, LineOK
    <3>5. IsFiniteSet(ByRun(raw, p))
      <4>1. raw \in Seq(Frames) /\ 0 \in 0..Len(raw)
        BY DEF Shape
      <4> QED BY <4>1, Positions
    <3>6. ByRun(raw, p) = {}
      BY <3>4, <3>5, FS_EmptySet
    <3>7. Settles(p)'
      BY <1>1, <3>6 DEF Settles, ByRun
    <3> QED BY <2>1, <3>7
  <2> QED BY <2>2, <2>3, <2>4 DEF Effect
<1>6. \A r \in Runs : main'[r].pc \in {"off", "loaded"} => main'[r].admitted = 0
  <2>1. ASSUME NEW r \in Runs, r # p PROVE main'[r] = main[r]
    BY <1>1, <2>1 DEF Idle
  <2>2. n.pc = "loaded" => m.pc \in {"off", "loaded"} /\ n.admitted = m.admitted
    BY DEF Effect, Quiet, QuietMove, Kept, Acquires, Refuses, Connects, Charges, Admits, SettlesUp,
           Dies, Reserves, Receives
  <2> QED BY <1>2, <2>1, <2>2 DEF Lines
<1>7. PumpAccepted'
  <2>1. pump'[p].state \in {pump[p].state, "starting", "killed"}
    BY DEF Effect, SamePump, Starts, Puts, Killed
  <2>2. ASSUME NEW r \in Runs PROVE pump'[r].state \notin {"conflict", "stale"}
    BY <1>1, <2>1 DEF Lines, PumpAccepted
  <2> QED BY <2>2 DEF PumpAccepted
<1>8. DrainedOnEnd'
  <2> SUFFICES ASSUME NEW r \in Runs, main'[r].pc = "ended", ~main'[r].failing
               PROVE  LET own == {i \in 1..Len(raw') : raw'[i].by = r}
                      IN Cardinality(own) = main'[r].admitted /\ \A i \in own : i <= normalized'
    BY DEF DrainedOnEnd
  <2>1. CASE r # p
    <3>1. main'[r] = main[r]
      BY <1>1, <2>1 DEF Idle
    <3> QED BY <1>1, <3>1 DEF Lines, DrainedOnEnd
  <2>2. CASE r = p
    <3>1. Dies(m, n)
      BY <2>2 DEF Effect, Quiet, QuietMove, Acquires, Loads, Refuses, Connects, Charges, Admits,
                  SettlesUp, Reserves, Receives, Alive
    <3>2. m.pc = "released" /\ n.admitted = m.admitted /\ Alive(p)
      BY <2>2, <3>1 DEF Dies, Alive
    <3>3. pump[p].state = "done" /\ pump[p].queue = <<>> /\ pump[p].claim = <<>>
      BY <3>2 DEF Phases, PhaseOK
    <3>4. Line(p) = raw
      BY <3>3, LineIs DEF Line
    <3>5. Cardinality(ByRun(raw, p)) = m.admitted
      BY <3>2, <3>4 DEF Lines, LineOK
    <3>6. \A i \in 1..Len(raw) : raw[i].by = p => i <= normalized
      BY <3>3 DEF Lines, Settles, Busy
    <3> QED BY <1>1, <2>2, <3>2, <3>5, <3>6 DEF ByRun
  <2> QED BY <2>1, <2>2
<1> QED BY <1>3, <1>4, <1>5, <1>6, <1>7, <1>8 DEF Lines

LEMMA PumpLines ==
  ASSUME Shape, Shape', Phases, Names, Lines, NEW p \in Runs, FrameMove(p), MainsIdle, Alive(p)
  PROVE  Lines'
<1>1. main' = main
  BY DEF MainsIdle
<1>2. /\ Line(p)' = Line(p)
      /\ \A r \in Runs : r # p => pump'[r] = pump[r]
      /\ pump'[p].state # "stale"
      /\ pump'[p].state = "conflict" => Conflicts(pump[p].claim)
      /\ normalized' \in {normalized, Len(raw)}
      /\ pump'[p].state \in Busy =>
           normalized' = Len(raw) \/ (pump[p].state \in Busy /\ normalized' = normalized)
  BY DEF FrameMove
<1>3. PICK t \in Seq(Frames) :
        raw' = raw \o t /\ ToSet(t) \subseteq Held(p) /\ (raw' = raw \/ pump'[p].state = "appended")
  BY DEF FrameMove
<1>4. Numbered(Line(p)) /\ Line(p) \in Seq(Frames)
  BY LineIs DEF Lines, LineOK
<1>5. raw \in Seq(Frames) /\ normalized <= Len(raw) /\ normalized \in Nat /\ normalized' \in Nat
  BY DEF Shape, Phases
<1>6. \A r \in Runs : r # p => ~Alive(r)
  BY DEF Phases, Alone
<1>7. Numbered(raw)'
  <2>1. (raw \in Seq(Frames) /\ pump[p].claim \o pump[p].queue \in Seq(Frames))'
    BY LineShape, PTL
  <2>2. Line(p)' = raw' \o (pump'[p].claim \o pump'[p].queue)
    BY DEF Line
  <2> QED BY <1>2, <1>4, <2>1, <2>2, NumberedPrefix
<1>8. \A r \in Runs : LineOK(r, Line(r))'
  <2>1. LineOK(p, Line(p))'
    BY <1>1, <1>2 DEF Lines, LineOK, Alive
  <2>2. ASSUME NEW r \in Runs, r # p PROVE LineOK(r, Line(r))'
    BY <1>1, <1>6, <2>2 DEF LineOK, Alive, InSession
  <2> QED BY <2>1, <2>2
<1>9. ASSUME NEW i \in 1..Len(raw')
      PROVE  (i \in 1..Len(raw) /\ raw'[i] = raw[i]) \/ raw'[i].by = p
  <2>1. Len(raw') = Len(raw) + Len(t) /\ Len(raw) \in Nat /\ Len(t) \in Nat
    BY <1>3, <1>5
  <2>2. CASE i <= Len(raw)
    BY <1>3, <1>5, <2>1, <2>2
  <2>3. CASE i > Len(raw)
    <3>1. i - Len(raw) \in 1..Len(t) /\ raw'[i] = t[i - Len(raw)]
      BY <1>3, <1>5, <2>1, <2>3
    <3>2. raw'[i] \in ToSet(t)
      BY <3>1 DEF ToSet
    <3> QED BY <1>3, <3>2 DEF Names
  <2> QED BY <2>1, <2>2, <2>3
<1>10. \A i \in 1..Len(raw) : i \in 1..Len(raw') /\ raw'[i] = raw[i]
  BY <1>3, <1>5
<1>11. normalized <= normalized' /\ \A i \in Nat : i <= normalized => i <= normalized'
  BY <1>2, <1>5
<1>12. \A r \in Runs : Settles(r)'
  <2>1. ASSUME NEW r \in Runs, r # p PROVE Settles(r)'
    BY <1>2, <1>9, <1>11, <2>1 DEF Lines, Settles
  <2>2. Settles(p)'
    <3> SUFFICES ASSUME pump'[p].state \in Busy, NEW i \in 1..Len(raw'), raw'[i].by = p
                 PROVE  i <= normalized'
      BY DEF Settles
    <3>1. raw' = raw
      BY <1>3 DEF Busy
    <3> QED BY <1>2, <1>5, <3>1 DEF Lines, Settles
  <2> QED BY <2>1, <2>2
<1>13. PumpAccepted'
  <2>1. pump'[p].state \notin {"conflict", "stale"}
    BY <1>2, <1>4, NoConflict
  <2> QED BY <1>2, <2>1 DEF Lines, PumpAccepted
<1>14. DrainedOnEnd'
  <2> SUFFICES ASSUME NEW r \in Runs, main[r].pc = "ended", ~main[r].failing
               PROVE  LET own == {i \in 1..Len(raw') : raw'[i].by = r}
                      IN Cardinality(own) = main[r].admitted /\ \A i \in own : i <= normalized'
    BY <1>1 DEF DrainedOnEnd
  <2>1. r # p
    BY DEF Alive
  <2>2. {i \in 1..Len(raw') : raw'[i].by = r} = {i \in 1..Len(raw) : raw[i].by = r}
    BY <1>9, <1>10, <2>1
  <2> DEFINE own == {i \in 1..Len(raw) : raw[i].by = r}
  <2>3. Cardinality(own) = main[r].admitted /\ \A i \in own : i <= normalized
    BY DEF Lines, DrainedOnEnd
  <2>4. \A i \in own : i <= normalized'
    BY <1>11, <2>3
  <2> QED BY <2>2, <2>3, <2>4
<1>15. \A r \in Runs : main'[r].pc \in {"off", "loaded"} => main'[r].admitted = 0
  BY <1>1 DEF Lines
<1> QED BY <1>7, <1>8, <1>12, <1>13, <1>14, <1>15 DEF Lines

LEMMA StepLines ==
  ASSUME Shape, Phases, Names, Lines, Overlap = FALSE, Next
  PROVE  Lines'
<1>1. Shape' /\ Phases'
  BY StepEffect
<1>2. CASE SessionEnds
  <2>1. UNCHANGED <<main, raw, normalized, pump>>
    BY <1>2, SessionEndIs DEF MainsIdle, journal
  <2> QED BY <2>1 DEF Lines, LineOK, Line, Settles, Alive, PumpAccepted, DrainedOnEnd
<1>3. ASSUME NEW p \in Runs, PumpSteps(p) \/ PumpBreaks(p)
      PROVE  Lines'
  BY <1>1, <1>3, PumpMove, PumpLines, PumpStepIs, PumpAlive
<1> QED BY <1>1, <1>2, <1>3, StepEffect, EffectLines

-------------------------------------------------------------------------------
(* The invariant, and what follows from it.                                    *)

LEMMA InitInv == Init => IInv
<1> SUFFICES ASSUME Init PROVE IInv
  OBVIOUS
<1> USE DEF Init
<1>1. Fresh \in Statuses /\ Fresh.reserved = 0 /\ Fresh.decoded = 0 /\ Fresh.attempts = 0
  BY DEF Fresh, Statuses, States
<1>2. Unstarted \in Locals /\ Unstarted.pc = "off" /\ Unstarted.admitted = 0
  BY <1>1 DEF Unstarted, Locals, PCs
<1>3. Shape
  <2>1. main \in [Runs -> Locals] /\ pump \in [Runs -> Pumps]
    BY <1>2, NoPumpIs
  <2>2. raw \in Seq(Frames)
    OBVIOUS
  <2> QED BY <1>1, <2>1, <2>2 DEF Shape
<1>4. \A p \in Runs : main[p].pc = "off" /\ main[p].admitted = 0 /\ ~Alive(p) /\ pump[p] = NoPump
  BY <1>2 DEF Alive
<1>5. NoPump.state = "off" /\ Len(raw) = 0
  BY DEF NoPump
<1>6. Phases
  <2>1. \A p \in Runs : PhaseOK(main[p], pump[p])
    <3> SUFFICES ASSUME NEW p \in Runs PROVE PhaseOK(main[p], pump[p])
      OBVIOUS
    <3>1. Len(NoPump.queue) + Len(NoPump.claim) <= BufferLimit
      BY NoPumpIs, Limits
    <3> QED BY <1>4, <1>5, <3>1, NoPumpIs DEF PhaseOK
  <2>2. \A p \in Runs : ProgressOK(pump[p])
    BY <1>4, <1>5, NoPumpIs DEF ProgressOK
  <2>3. Alone /\ lease = None /\ normalized <= Len(raw)
    BY <1>4, <1>5 DEF Alone
  <2> QED BY <2>1, <2>2, <2>3 DEF Phases
<1>7. Accounts
  <2>1. Used = 0
    BY Limits DEF Used
  <2> QED BY <1>1, <1>4, <2>1, Limits
          DEF Accounts, Covers, AccountOK, InSession, Published, Serving
<1>8. Names
  <2>1. \A p \in Runs : Held(p) = {}
    BY <1>4, NoPumpIs, NoElements DEF Held
  <2>2. AllFrames = {}
    BY <1>3, <2>1, FramesAre, NoElements
  <2> QED BY <1>4, <2>1, <2>2 DEF Names, AttemptsOK, AttemptsAt, InSession, Serving
<1>9. Lines
  BY <1>4, <1>5 DEF Lines, LineOK, InSession, Settles, Numbered, PumpAccepted, DrainedOnEnd
<1> QED BY <1>3, <1>6, <1>7, <1>8, <1>9 DEF IInv

LEMMA StepInv == ASSUME IInv, Overlap = FALSE, [Next]_vars PROVE IInv'
<1>1. CASE Next
  BY <1>1, StepEffect, StepAccounts, StepNames, StepLines DEF IInv
<1>2. CASE UNCHANGED vars
  <2>1. UNCHANGED <<status, lease, raw, normalized, over, main, pump, received, sessions>>
    BY <1>2 DEF vars, journal, history
  <2>2. Shape' /\ Phases'
    BY <2>1 DEF IInv, Shape, Phases, Alone, Alive, PhaseOK, ProgressOK
  <2>3. Accounts'
    BY <2>1 DEF IInv, Accounts, Covers, Used, AccountOK, SessionOK, ResumeUsage
  <2>4. Names'
    BY <2>1 DEF IInv, Names, AttemptsOK, AllFrames, Held
  <2>5. Lines'
    BY <2>1 DEF IInv, Lines, LineOK, Line, Settles, Alive, PumpAccepted, DrainedOnEnd
  <2> QED BY <2>2, <2>3, <2>4, <2>5 DEF IInv
<1> QED BY <1>1, <1>2

(* Runs that do not overlap keep the invariant. *)
THEOREM Invariance == Overlap = FALSE => (Spec => []IInv)
<1> SUFFICES ASSUME Overlap = FALSE PROVE Spec => []IInv
  OBVIOUS
<1>1. Init => IInv
  BY InitInv
<1>2. IInv /\ [Next]_vars => IInv'
  BY StepInv
<1> QED BY <1>1, <1>2, PTL DEF Spec


LEMMA InvTypes == ASSUME IInv PROVE TypeOK
<1>1. Shape /\ Phases
  BY DEF IInv
<1>2. /\ status \in Statuses /\ raw \in Seq(Frames) /\ over \in BOOLEAN
      /\ received \in Nat /\ sessions \in Nat /\ normalized \in 0..Len(raw)
  BY <1>1 DEF Shape, Phases
<1>3. lease \in {p \in Runs : Alive(p)} \cup {None}
  BY <1>1 DEF Shape, Phases, Alive, Published, Serving
<1>4. ASSUME NEW p \in Runs
      PROVE  /\ main[p].value \in Statuses
             /\ {main[p].attempts, main[p].decoded, main[p].received} \subseteq Nat
             /\ {main[p].stop, main[p].broken, main[p].failing} \subseteq BOOLEAN
             /\ pump[p].queue \in Seq(Frames) /\ pump[p].claim \in Seq(Frames)
             /\ pump[p].last \in 0..Len(raw)
             /\ Waiting(p) <= BufferLimit
  <2>1. main[p] \in Locals /\ pump[p] \in Pumps
    BY <1>1, RunShape
  <2>2. pump[p].last <= Len(raw) /\ Len(pump[p].queue) + Len(pump[p].claim) <= BufferLimit
    BY <1>1 DEF Phases, PhaseOK, ProgressOK
  <2>3. pump[p].last \in 0..Len(raw)
    BY <1>1, <2>1, <2>2 DEF Pumps, Shape
  <2> QED BY <2>1, <2>2, <2>3 DEF Locals, Pumps, Waiting
<1> QED BY <1>2, <1>3, <1>4 DEF TypeOK

LEMMA InvAccounting == ASSUME IInv PROVE AccountingCovers /\ CeilingHeld
<1>1. Covers(status.reserved) /\ (MaxControls <= ControlMessages => received <= Ceiling)
  BY DEF IInv, Accounts
<1> DEFINE u == received + ControlMessages * sessions
<1>2. /\ u = Used /\ Used \in Nat /\ status.reserved \in Nat /\ ResumeUsage(status) \in Nat
      /\ ResumeUsage(status) >= status.reserved /\ Ceiling \in Nat
  BY UsedIs, Limits DEF IInv, Used
<1> HIDE DEF u
<1>3. ResumeUsage(status) >= u \/ ResumeUsage(status) >= Ceiling
  BY <1>1, <1>2 DEF Covers
<1> QED BY <1>1, <1>3 DEF AccountingCovers, CeilingHeld, u

LEMMA InvFrames ==
  ASSUME IInv
  PROVE  FramesIdentified /\ PumpAccepted /\ JournalKeepsPrefixes /\ DrainedOnEnd
<1>1. FramesIdentified
  BY NamesIdentify DEF IInv
<1>2. JournalKeepsPrefixes
  BY DEF IInv, Lines, Numbered, OfConn, JournalKeepsPrefixes
<1> QED BY <1>1, <1>2 DEF IInv, Lines

(* The status file, the journal, the lock and the locals of every run keep      *)
(* their types; the buffer never holds more than buffer_event_limit, and only a *)
(* run that is not over holds the lock on the socket.                          *)
THEOREM TypeCorrect == Overlap = FALSE => (Spec => []TypeOK)
<1>1. IInv => TypeOK
  BY InvTypes
<1> QED BY <1>1, Invariance, PTL

(* Whenever the process dies, what a restart resumes from covers every frame    *)
(* received and the control allowance of every connection, or already closes    *)
(* the session (usage, _resume_budget_usage).                                   *)
THEOREM CrashNeverUndercounts == Overlap = FALSE => (Spec => []AccountingCovers)
<1>1. IInv => AccountingCovers
  BY InvAccounting
<1> QED BY <1>1, Invariance, PTL

(* Over all runs, crashes and reconnects, no more frames are received than the  *)
(* authority's ceiling, if the allowance for control frames is enough           *)
(* (run_acquisition).                                                           *)
THEOREM CeilingNeverPassed == Overlap = FALSE => (Spec => []CeilingHeld)
<1>1. IInv => CeilingHeld
  BY InvAccounting
<1> QED BY <1>1, Invariance, PTL

(* A stream session and message number never name two frames, however the runs  *)
(* that opened the connections ended (connection_attempts, raw_messages).       *)
THEOREM OneFrameOneIdentity == Overlap = FALSE => (Spec => []FramesIdentified)
<1>1. IInv => FramesIdentified
  BY InvFrames
<1> QED BY <1>1, Invariance, PTL

(* The journal never refuses the pump: neither a claim for a conflict, nor a    *)
(* batch for not following the decoder's progress (append_batch,                *)
(* commit_normalized_many).                                                     *)
THEOREM JournalAcceptsPump == Overlap = FALSE => (Spec => []PumpAccepted)
<1>1. IInv => PumpAccepted
  BY InvFrames
<1> QED BY <1>1, Invariance, PTL

(* The journal keeps a prefix of each connection, in order, whatever is lost in *)
(* a crash (the buffer's claim, append_batch).                                  *)
THEOREM PrefixesKept == Overlap = FALSE => (Spec => []JournalKeepsPrefixes)
<1>1. IInv => JournalKeepsPrefixes
  BY InvFrames
<1> QED BY <1>1, Invariance, PTL

(* A run that ends without an error has put every frame it admitted into the    *)
(* journal and had it normalized (request_stop, join).                          *)
THEOREM DrainedAtCleanEnd == Overlap = FALSE => (Spec => []DrainedOnEnd)
<1>1. IInv => DrainedOnEnd
  BY InvFrames
<1> QED BY <1>1, Invariance, PTL

-------------------------------------------------------------------------------
(* Layer 5: where no process dies and no write fails, the pump is never left    *)
(* with rows that it cannot read back.                                          *)

Calm == Overlap = FALSE /\ CanCrash = FALSE /\ CanFail = FALSE

(* The places in the program in which a run has put nothing into its buffer. *)
Apart == {"off", "loaded", "opened", "ended"}

DrainOK(m, q) ==
  /\ ~m.broken
  /\ m.pc \notin {"stuck", "exiting"}
  /\ m.value.state # "COMPLETE"
  /\ m.pc = "opened" => q.queue = <<>> /\ q.state \in {"starting", "idle"}
  /\ q.state \notin {"unreadable", "broken", "killed"}
  /\ q.state = "claimed" => Len(q.claim) <= BatchLimit

Drains ==
  /\ \A p \in Runs : DrainOK(main[p], pump[p])
  /\ (\A p \in Runs : pump[p].state # "appended") => normalized = Len(raw)
  /\ \A p \in Runs : pump[p].state = "appended" => Len(raw) <= normalized + BatchLimit
  /\ status.state = "COMPLETE" => \A p \in Runs : main[p].pc \in Apart

LEMMA DrainsAfter ==
  ASSUME Drains, NEW p \in Runs, raw' = raw, normalized' = normalized,
         \A r \in Runs : r # p => main'[r] = main[r] /\ pump'[r] = pump[r],
         DrainOK(main'[p], pump'[p]),
         pump'[p].state = "appended" <=> pump[p].state = "appended",
         status'.state = "COMPLETE" =>
           /\ main'[p].pc \in Apart
           /\ status' = status \/ \A r \in Runs : r # p => main[r].pc \in Apart
  PROVE  Drains'
<1>1. \A r \in Runs : DrainOK(main[r], pump[r])'
  BY DEF Drains
<1>2. (\A r \in Runs : pump'[r].state # "appended") => normalized' = Len(raw')
  BY DEF Drains
<1>3. \A r \in Runs : pump'[r].state = "appended" => Len(raw') <= normalized' + BatchLimit
  BY DEF Drains
<1>4. status'.state = "COMPLETE" => \A r \in Runs : main'[r].pc \in Apart
  BY DEF Drains
<1> QED BY <1>1, <1>2, <1>3, <1>4 DEF Drains

(* A step of a run that has the lock, or has just released it. *)
Works(p) ==
  LET m == main[p]
      n == main'[p]
  IN /\ m.pc \in Published \cup {"released"}
     /\ n.pc \in Published \cup {"released"} /\ n.pc # "exiting"
     /\ n.broken = m.broken /\ n.value.state # "COMPLETE"
     /\ status' \in {status, m.value, n.value}
     /\ UNCHANGED journal
     /\ pump'[p].state = pump[p].state /\ pump'[p].claim = pump[p].claim
     /\ \A r \in Runs : r # p => main'[r] = main[r] /\ pump'[r] = pump[r]

LEMMA WorksDrains ==
  ASSUME Drains, NEW p \in Runs, Works(p)
  PROVE  Drains'
<1>1. DrainOK(main[p], pump[p])
  BY DEF Drains
<1>2. DrainOK(main'[p], pump'[p])
  BY <1>1 DEF Works, DrainOK, Published, Serving
<1>3. status'.state # "COMPLETE"
  BY <1>1 DEF Works, DrainOK, Drains, Published, Serving, Apart
<1>4. raw' = raw /\ normalized' = normalized
  BY DEF Works, journal
<1> QED BY <1>2, <1>3, <1>4, DrainsAfter DEF Works

LEMMA QuietWorks ==
  ASSUME Shape, Drains, Calm, NEW p \in Runs,
         \/ Connect(p) \/ LeaveLoop(p) \/ Reserve(p) \/ Ready(p) 
         \/ \E kind \in {"control", "market"} : Receive(p, kind)
         \/ Drop(p) \/ EndSession(p)
  PROVE  Works(p)
<1>1. main \in [Runs -> Locals] /\ main[p] \in Locals /\ main[p].value \in Statuses
  BY RunShape DEF Shape
<1>2. main[p].value.state # "COMPLETE" /\ ~main[p].broken
  BY DEF Drains, DrainOK
<1>3. CASE Connect(p)
  <2> DEFINE k == main[p].attempts + 1
             v == Connecting(main[p].value, k, main[p].decoded)
  <2>1. v.state = "CONNECTING"
    BY <1>1 DEF Connecting, Statuses
  <2>2. \/ main' = [main EXCEPT ![p].pc = "closing", ![p].attempts = k] /\ status' = status
        \/ main' = [main EXCEPT ![p] = [[main[p] EXCEPT !.pc = "reserving", !.attempts = k]
                                         EXCEPT !.value = v]] /\ status' = v
    BY <1>3 DEF Connect, Persist
  <2> HIDE DEF v, k
  <2>3. main[p].pc = "loop" /\ UNCHANGED <<lease, journal, over, pump, history>>
    BY <1>3 DEF Connect
  <2>4. CASE main' = [main EXCEPT ![p].pc = "closing", ![p].attempts = k] /\ status' = status
    BY <1>1, <1>2, <2>3, <2>4 DEF Works, Published, Serving, Locals
  <2>5. CASE main' = [main EXCEPT ![p] = [[main[p] EXCEPT !.pc = "reserving", !.attempts = k]
                                          EXCEPT !.value = v]] /\ status' = v
    BY <1>1, <1>2, <2>1, <2>3, <2>5 DEF Works, Published, Serving, Locals
  <2> QED BY <2>2, <2>4, <2>5
<1>4. CASE LeaveLoop(p)
  BY <1>1, <1>2, <1>4 DEF LeaveLoop, Works, Published, Serving, Locals
<1>5. CASE Reserve(p)
  BY <1>1, <1>2, <1>5 DEF Reserve, Persist, Works, Published, Serving, Locals, Statuses
<1>6. CASE Ready(p)
  BY <1>1, <1>2, <1>6 DEF Ready, Persist, Works, Published, Serving, Locals, Statuses
<1>7. ASSUME NEW kind \in {"control", "market"}, Receive(p, kind) PROVE Works(p)
  BY <1>1, <1>2, <1>7 DEF Receive, Works, Published, Serving, Locals
<1>8. CASE Drop(p)
  BY <1>1, <1>2, <1>8 DEF Drop, Persist, Settled, Works, Published, Serving, Locals, Statuses
<1>9. CASE EndSession(p)
  BY <1>1, <1>2, <1>9 DEF EndSession, Persist, Settled, Works, Published, Serving, Locals, Statuses
<1> QED BY <1>3, <1>4, <1>5, <1>6, <1>7, <1>8, <1>9

(* The charge of a frame, and its admission. *)
LEMMA ChargeWorks ==
  ASSUME Shape, Drains, Calm, NEW p \in Runs,
         TakeControl(p) \/ ChargeMarket(p) \/ Admit(p)
  PROVE  Works(p)
<1>1. main \in [Runs -> Locals] /\ main[p] \in Locals /\ main[p].value \in Statuses
  BY RunShape DEF Shape
<1>2. main[p].value.state # "COMPLETE" /\ ~main[p].broken
  BY DEF Drains, DrainOK
<1> DEFINE v == Charged(main[p].value, Counted(p))
<1>3. v.state = main[p].value.state
  BY <1>1 DEF Charged, Statuses
<1>4. ASSUME NEW locals, Charge(p, locals)
      PROVE  main' = [main EXCEPT ![p] = [locals EXCEPT !.value = v]] /\ status' \in {status, v}
  BY <1>4 DEF Charge, Persist
<1> HIDE DEF v
<1>5. CASE TakeControl(p)
  <2>1. main' = [main EXCEPT ![p] = [[main[p] EXCEPT !.pc = "session", !.controls = @ + 1]
                                     EXCEPT !.value = v]] /\ status' \in {status, v}
    BY <1>4, <1>5 DEF TakeControl
  <2> QED BY <1>1, <1>2, <1>3, <1>5, <2>1 DEF TakeControl, Works, Published, Serving, Locals
<1>6. CASE ChargeMarket(p)
  <2>1. main' = [main EXCEPT ![p] = [[main[p] EXCEPT !.pc = "admitting"]
                                     EXCEPT !.value = v]] /\ status' \in {status, v}
    BY <1>4, <1>6 DEF ChargeMarket
  <2> QED BY <1>1, <1>2, <1>3, <1>6, <2>1 DEF ChargeMarket, Works, Published, Serving, Locals
<1>7. CASE Admit(p)
  <2>1. /\ main' = [main EXCEPT ![p].pc = "session", ![p].accepted = @ + 1, ![p].admitted = @ + 1]
        /\ main[p].pc = "admitting" /\ UNCHANGED <<status, journal>>
        /\ pump' = [pump EXCEPT ![p].queue = pump'[p].queue]
    BY <1>7, RunShape DEF Admit, Shape, Pumps
  <2>2. pump \in [Runs -> Pumps] /\ pump[p] \in Pumps
    BY RunShape DEF Shape
  <2>3. pump'[p].state = pump[p].state /\ pump'[p].claim = pump[p].claim
    BY <2>1, <2>2 DEF Pumps
  <2> QED BY <1>1, <1>2, <2>1, <2>2, <2>3 DEF Works, Published, Serving, Locals
<1> QED BY <1>5, <1>6, <1>7

(* The publisher, a stop, and the end of a run up to its report. *)
LEMMA EndWorks ==
  ASSUME Shape, Drains, Calm, NEW p \in Runs,
         Heartbeat(p) \/ (Fail(p) /\ main[p].pc \in Serving) \/ Close(p)
  PROVE  Works(p)
<1>1. main \in [Runs -> Locals] /\ main[p] \in Locals /\ main[p].value \in Statuses
  BY RunShape DEF Shape
<1>2. main[p].value.state # "COMPLETE" /\ ~main[p].broken /\ main[p].pc # "exiting"
  BY DEF Drains, DrainOK
<1>3. CASE Heartbeat(p)
  BY <1>1, <1>2, <1>3 DEF Heartbeat, Works
<1>4. CASE Fail(p) /\ main[p].pc \in Serving
  BY <1>1, <1>2, <1>4 DEF Fail, Persist, Works, Published, Serving, Locals, Statuses
<1>5. CASE Close(p)
  <2>1. pump \in [Runs -> Pumps] /\ pump[p] \in Pumps
    BY RunShape DEF Shape
  <2>2. pump' = [pump EXCEPT ![p].stop = TRUE] /\ UNCHANGED journal /\ main[p].pc = "closing"
    BY <1>5 DEF Close
  <2>3. /\ pump'[p].state = pump[p].state /\ pump'[p].claim = pump[p].claim
        /\ \A r \in Runs : r # p => pump'[r] = pump[r]
    BY <2>1, <2>2 DEF Pumps
  <2> DEFINE l == [main[p] EXCEPT !.pc = "joining", !.paused = StopPauses(p)]
             v == [main[p].value EXCEPT !.state = IF StopPauses(p) THEN "PAUSED" ELSE "DRAINING"]
  <2>4. v.state # "COMPLETE"
    BY <1>1 DEF Statuses
  <2>5. \/ main' = [main EXCEPT ![p] = [l EXCEPT !.failing = TRUE]] /\ status' = status
        \/ main' = [main EXCEPT ![p] = [l EXCEPT !.value = v]] /\ status' = v
    BY <1>5 DEF Close, Persist
  <2> HIDE DEF v
  <2>6. CASE main' = [main EXCEPT ![p] = [l EXCEPT !.failing = TRUE]] /\ status' = status
    BY <1>1, <1>2, <2>2, <2>3, <2>6 DEF Works, Published, Serving, Locals
  <2>7. CASE main' = [main EXCEPT ![p] = [l EXCEPT !.value = v]] /\ status' = v
    BY <1>1, <1>2, <2>2, <2>3, <2>4, <2>7 DEF Works, Published, Serving, Locals
  <2> QED BY <2>5, <2>6, <2>7
<1> QED BY <1>3, <1>4, <1>5

(* What a calm run never does, and the thread it never leaves behind. *)
LEMMA NeverInCalm ==
  ASSUME IInv, Drains, Calm, NEW p \in Runs
  PROVE  /\ ~StartFails(p) /\ ~Abort(p) /\ ~StatusFails(p) /\ ~PumpBreaks(p) /\ ~Crash(p)
         /\ ~JoinFails(p) /\ ~Exit(p)
<1>1. ~main[p].broken /\ main[p].pc # "exiting"
  BY DEF Drains, DrainOK
<1>2. ~StartFails(p)
  <2> SUFFICES ASSUME StartFails(p) PROVE FALSE
    OBVIOUS
  <2>1. lease # None /\ main[p].pc = "opened"
    BY DEF StartFails, Calm
  <2>2. lease \in Runs /\ main[lease].pc \in {"stuck"} \cup Published
    BY <2>1 DEF IInv, Shape, Phases
  <2>3. Alive(lease) /\ Alive(p) /\ lease # p
    BY <2>1, <2>2 DEF Alive, Published, Serving
  <2> QED BY <2>2, <2>3 DEF IInv, Phases, Alone
<1>3. ~JoinFails(p)
  <2>1. pump[p].state \notin {"conflict", "stale", "unreadable", "broken", "killed"}
    BY DEF Drains, DrainOK, IInv, Lines, PumpAccepted
  <2> QED BY <2>1 DEF JoinFails, PumpEnded, Calm
<1> QED BY <1>1, <1>2, <1>3 DEF Abort, StatusFails, PumpBreaks, Crash, Exit, Calm

(* The steps before the lock is taken and the last ones, and a stop. *)
LEMMA EdgeDrains ==
  ASSUME Shape, Phases, Drains, Calm, NEW p \in Runs,
         \/ Load(p) \/ OpenPump(p) \/ Acquire(p) \/ Release(p) \/ Report(p) \/ RequestStop(p)
  PROVE  Drains'
<1>1. main \in [Runs -> Locals] /\ main[p] \in Locals /\ main[p].value \in Statuses
  BY RunShape DEF Shape
<1>2. DrainOK(main[p], pump[p]) /\ PhaseOK(main[p], pump[p])
  BY DEF Drains, Phases
<1>3. CASE Load(p)
  <2>1. /\ main'[p].pc = "loaded" /\ main'[p].broken = main[p].broken
        /\ main'[p].value.state = "CONNECTING"
        /\ \A r \in Runs : r # p => main'[r] = main[r]
    BY <1>1, <1>3 DEF Load, Locals
  <2>2. UNCHANGED <<status, raw, normalized, pump>>
    BY <1>3 DEF Load, journal
  <2>3. DrainOK(main'[p], pump'[p])
    BY <1>2, <2>1, <2>2 DEF DrainOK
  <2> QED BY <2>1, <2>2, <2>3, DrainsAfter DEF Apart
<1>4. CASE OpenPump(p)
  <2>1. main[p].pc = "loaded" /\ main' = [main EXCEPT ![p].pc = "opened"]
    BY <1>4 DEF OpenPump
  <2>2. /\ main'[p].pc = "opened" /\ main'[p].broken = main[p].broken
        /\ main'[p].value = main[p].value
        /\ \A r \in Runs : r # p => main'[r] = main[r]
    BY <1>1, <2>1 DEF Locals
  <2>3. pump[p] = NoPump /\ pump \in [Runs -> Pumps]
    BY <1>2, <2>1 DEF PhaseOK, Shape
  <2>4. /\ pump'[p].state = "starting" /\ pump'[p].queue = <<>> /\ pump[p].state = "off"
        /\ \A r \in Runs : r # p => pump'[r] = pump[r]
    BY <1>4, <2>3 DEF OpenPump, NoPump
  <2>5. DrainOK(main'[p], pump'[p])
    BY <1>2, <2>2, <2>4 DEF DrainOK
  <2>6. UNCHANGED <<status, raw, normalized>>
    BY <1>4 DEF OpenPump, journal
  <2> QED BY <2>2, <2>4, <2>5, <2>6, DrainsAfter DEF Apart
<1>5. CASE Acquire(p)
  <2>1. /\ main'[p].pc = "loop" /\ main'[p].broken = main[p].broken
        /\ main'[p].value = main[p].value /\ status' = main[p].value
        /\ \A r \in Runs : r # p => main'[r] = main[r]
    BY <1>1, <1>5 DEF Acquire, Persist, Locals
  <2>2. UNCHANGED <<raw, normalized, pump>>
    BY <1>5 DEF Acquire, journal
  <2>3. DrainOK(main'[p], pump'[p])
    BY <1>2, <2>1, <2>2 DEF DrainOK
  <2>4. status'.state # "COMPLETE"
    BY <1>2, <2>1 DEF DrainOK
  <2> QED BY <2>1, <2>2, <2>3, <2>4, DrainsAfter
<1>6. CASE RequestStop(p)
  <2>1. /\ main'[p].pc = main[p].pc /\ main'[p].broken = main[p].broken
        /\ main'[p].value = main[p].value
        /\ \A r \in Runs : r # p => main'[r] = main[r]
    BY <1>1, <1>6 DEF RequestStop, Locals
  <2>2. UNCHANGED <<status, raw, normalized, pump>>
    BY <1>6 DEF RequestStop, journal
  <2>3. DrainOK(main'[p], pump'[p])
    BY <1>2, <2>1, <2>2 DEF DrainOK
  <2>4. status'.state = "COMPLETE" => main'[p].pc \in Apart
    BY <2>1, <2>2 DEF Drains
  <2> QED BY <2>1, <2>2, <2>3, <2>4, DrainsAfter
<1>7. ASSUME UNCHANGED <<journal, pump>>, main'[p].pc \in {"released", "ended"},
             ~main'[p].broken, main'[p].value.state # "COMPLETE",
             \A r \in Runs : r # p => main'[r] = main[r],
             Alive(p), status'.state = "COMPLETE" => main'[p].pc = "ended"
      PROVE  Drains'
  <2>1. DrainOK(main'[p], pump'[p])
    BY <1>2, <1>7 DEF DrainOK
  <2>2. raw' = raw /\ normalized' = normalized
    BY <1>7 DEF journal
  <2>3. \A r \in Runs : r # p => main[r].pc \in Apart
    BY <1>7 DEF Phases, Alone, Alive, Apart
  <2> QED BY <1>7, <2>1, <2>2, <2>3, DrainsAfter DEF Apart
<1>8. Fresh.state # "COMPLETE"
  BY DEF Fresh
<1>9. ASSUME NEW l \in Locals, main' = [main EXCEPT ![p] = Ended(l)]
      PROVE  /\ main'[p].pc = "ended" /\ ~main'[p].broken /\ main'[p].value.state # "COMPLETE"
             /\ \A r \in Runs : r # p => main'[r] = main[r]
  BY <1>1, <1>8, <1>9 DEF Ended, Unstarted
<1>10. CASE Release(p)
  <2>1. /\ main[p].pc = "joining" /\ UNCHANGED <<journal, pump>> /\ status' = main[p].value
    BY <1>2, <1>10 DEF Release, DrainOK
  <2>2. \/ main' = [main EXCEPT ![p] = Ended([main[p] EXCEPT !.failing = TRUE])]
        \/ main' = [main EXCEPT ![p] = [main[p] EXCEPT !.pc = "released"]]
    BY <1>10 DEF Release
  <2>3. [main[p] EXCEPT !.failing = TRUE] \in Locals
    BY <1>1 DEF Locals
  <2>4. CASE main' = [main EXCEPT ![p] = [main[p] EXCEPT !.pc = "released"]]
    <3>1. /\ main'[p].pc = "released" /\ ~main'[p].broken /\ main'[p].value.state # "COMPLETE"
          /\ \A r \in Runs : r # p => main'[r] = main[r]
      BY <1>1, <1>2, <2>4 DEF DrainOK, Locals
    <3> QED BY <1>2, <1>7, <2>1, <3>1 DEF Alive, DrainOK
  <2> QED BY <1>2, <1>7, <1>9, <2>1, <2>2, <2>3, <2>4 DEF Alive, DrainOK
<1>11. CASE Report(p)
  <2>1. PICK written \in BOOLEAN :
          main' = [main EXCEPT ![p] =
            Ended([main[p] EXCEPT !.failing = ~written \/ Reported(p).state = "FAILED"])]
    BY <1>11 DEF Report, Calm
  <2>2. [main[p] EXCEPT !.failing = ~written \/ Reported(p).state = "FAILED"] \in Locals
    BY <1>1 DEF Locals
  <2> QED BY <1>7, <1>9, <1>11, <2>1, <2>2 DEF Report, Alive
<1> QED BY <1>3, <1>4, <1>5, <1>6, <1>10, <1>11

(* The pump reads back just what it has appended, and normalizes it. *)
LEMMA PumpDrains ==
  ASSUME IInv, Drains, NEW p \in Runs, PumpSteps(p)
  PROVE  Drains'
<1>0. Shape /\ Phases
  BY DEF IInv
<1>1. MainsIdle /\ pump[p].state \in {"starting", "idle", "claimed", "appended"}
  BY PumpStepIs
<1>2. pump \in [Runs -> Pumps] /\ pump[p] \in Pumps /\ raw \in Seq(Frames) /\ normalized \in Nat
  BY <1>0, RunShape DEF Shape
<1>3. DrainOK(main[p], pump[p]) /\ PhaseOK(main[p], pump[p]) /\ ProgressOK(pump[p])
  BY <1>0 DEF Drains, Phases
<1>4. \A r \in Runs : r # p => pump[r].state # "appended"
  BY <1>0, <1>1, PumpAlive DEF Phases, Alone
<1>5. /\ \A r \in Runs : main'[r] = main[r]
      /\ status' = status
  BY <1>1 DEF MainsIdle
<1>6. ASSUME NEW q, pump' = [pump EXCEPT ![p] = q], DrainOK(main[p], q), UNCHANGED journal,
             q.state # "appended", pump[p].state # "appended"
      PROVE  Drains'
  <2>1. pump'[p] = q /\ \A r \in Runs : r # p => pump'[r] = pump[r]
    BY <1>2, <1>6
  <2> QED BY <1>5, <1>6, <2>1, DrainsAfter DEF journal, Drains
<1>7. BatchLimit \in Nat
  BY Limits
<1>8. CASE PumpRecover(p)
  <2> DEFINE q == [pump[p] EXCEPT !.state = "idle", !.last = normalized]
  <2>1. pump' = [pump EXCEPT ![p] = q] /\ UNCHANGED journal /\ pump[p].state = "starting"
    BY <1>8 DEF PumpRecover, RecoveredOffset
  <2>2. q.state = "idle" /\ q.queue = pump[p].queue
    BY <1>2 DEF Pumps
  <2> HIDE DEF q
  <2>3. DrainOK(main[p], q)
    BY <1>3, <2>2 DEF DrainOK
  <2> QED BY <1>6, <2>1, <2>2, <2>3
<1>9. CASE PumpClaim(p)
  <2> DEFINE n == Least(BatchLimit, Len(pump[p].queue))
             c == SubSeq(pump[p].queue, 1, n)
             s == SubSeq(pump[p].queue, n + 1, Len(pump[p].queue))
             q == [pump[p] EXCEPT !.state = "claimed", !.claim = c, !.queue = s]
  <2>1. pump' = [pump EXCEPT ![p] = q] /\ UNCHANGED journal
        /\ pump[p].state = "idle" /\ pump[p].queue # <<>>
    BY <1>9 DEF PumpClaim
  <2>2. pump[p].queue \in Seq(Frames) /\ Len(pump[p].queue) \in Nat
    BY <1>2 DEF Pumps
  <2>3. n \in Nat /\ n <= BatchLimit /\ n <= Len(pump[p].queue)
    BY <1>7, <2>2, LeastGreatest
  <2> HIDE DEF n
  <2>4. Len(c) <= BatchLimit
    BY <1>7, <2>2, <2>3
  <2>5. q.state = "claimed" /\ q.claim = c
    BY <1>2 DEF Pumps
  <2> HIDE DEF q, c, s
  <2>6. DrainOK(main[p], q)
    BY <1>3, <2>1, <2>4, <2>5 DEF DrainOK
  <2> QED BY <1>6, <2>1, <2>5, <2>6
<1>10. CASE PumpStops(p)
  <2> DEFINE q == [pump[p] EXCEPT !.state = "done"]
  <2>1. /\ pump' = [pump EXCEPT ![p] = q] /\ UNCHANGED journal
        /\ pump[p].state = "idle" /\ pump[p].stop
    BY <1>10 DEF PumpStops, MayStop
  <2>2. q.state = "done"
    BY <1>2 DEF Pumps
  <2>3. main[p].pc # "opened"
    BY <1>3, <2>1 DEF PhaseOK
  <2> HIDE DEF q
  <2>4. DrainOK(main[p], q)
    BY <1>3, <2>2, <2>3 DEF DrainOK
  <2> QED BY <1>6, <2>1, <2>2, <2>4
<1>11. CASE PumpAppend(p) /\ Conflicts(pump[p].claim)
  <2> DEFINE q == [GivenBack(pump[p]) EXCEPT !.state = "conflict"]
  <2>1. pump' = [pump EXCEPT ![p] = q] /\ UNCHANGED journal /\ pump[p].state = "claimed"
    BY <1>11 DEF PumpAppend, journal
  <2>2. q.state = "conflict"
    BY <1>0, GivenBackIs DEF PumpStates
  <2> HIDE DEF q
  <2>3. DrainOK(main[p], q)
    BY <1>3, <2>1, <2>2 DEF DrainOK
  <2> QED BY <1>6, <2>1, <2>2, <2>3
<1>12. CASE PumpAppend(p) /\ ~Conflicts(pump[p].claim)
  <2> DEFINE c == pump[p].claim
             k == Len(raw')
             q == [pump[p] EXCEPT !.state = "appended", !.claim = <<>>, !.commit = k]
  <2>1. /\ raw' = raw \o c /\ normalized' = normalized /\ pump' = [pump EXCEPT ![p] = q]
        /\ pump[p].state = "claimed"
    BY <1>12 DEF PumpAppend
  <2>2. c \in Seq(Frames) /\ Len(c) <= BatchLimit
    BY <1>2, <1>3, <2>1 DEF Pumps, DrainOK
  <2> HIDE DEF c
  <2>3. Len(raw') = Len(raw) + Len(c) /\ Len(raw) \in Nat /\ Len(c) \in Nat
    BY <1>2, <2>1, <2>2
  <2>4. normalized = Len(raw)
    BY <1>4, <2>1 DEF Drains
  <2>5. Len(raw') <= normalized' + BatchLimit
    BY <1>7, <2>1, <2>2, <2>3, <2>4
  <2> HIDE DEF k
  <2>6. q.state = "appended"
    BY <1>2 DEF Pumps
  <2> HIDE DEF q
  <2>7. pump'[p] = q /\ \A r \in Runs : r # p => pump'[r] = pump[r]
    BY <1>2, <2>1
  <2>8. DrainOK(main[p], q)
    BY <1>3, <2>1, <2>6 DEF DrainOK
  <2>9. \A r \in Runs : DrainOK(main'[r], pump'[r])
    BY <1>5, <2>7, <2>8 DEF Drains
  <2>10. \A r \in Runs : pump'[r].state = "appended" => Len(raw') <= normalized' + BatchLimit
    BY <1>4, <2>5, <2>7
  <2>11. ~\A r \in Runs : pump'[r].state # "appended"
    BY <2>6, <2>7
  <2>12. status'.state = "COMPLETE" => \A r \in Runs : main'[r].pc \in Apart
    BY <1>5 DEF Drains
  <2> QED BY <2>9, <2>10, <2>11, <2>12 DEF Drains
<1>13. CASE PumpNormalize(p)
  <2>1. pump[p].state = "appended" /\ raw' = raw
    BY <1>13 DEF PumpNormalize
  <2>2. pump[p].last = normalized /\ pump[p].commit = Len(raw) /\ Len(raw) <= normalized + BatchLimit
    BY <1>3, <2>1 DEF ProgressOK, Drains
  <2>3. Len(raw) \in Nat
    BY <1>2
  <2>4. ReadUpTo(pump[p].last) = Len(raw)
    BY <1>2, <1>7, <2>2, <2>3 DEF ReadUpTo, Least
  <2> DEFINE read == Len(raw)
             q == [pump[p] EXCEPT !.state = "idle", !.last = read]
  <2>5. NextRetained(p)
    BY <2>2 DEF NextRetained
  <2>6. pump' = [pump EXCEPT ![p] = q] /\ normalized' = read
    BY <1>2, <1>13, <2>2, <2>4, <2>5 DEF PumpNormalize
  <2> HIDE DEF read
  <2>7. q.state = "idle" /\ q.queue = pump[p].queue
    BY <1>2 DEF Pumps
  <2> HIDE DEF q
  <2>8. DrainOK(main[p], q)
    BY <1>3, <2>1, <2>7 DEF DrainOK
  <2>9. pump'[p] = q /\ \A r \in Runs : r # p => pump'[r] = pump[r]
    BY <1>2, <2>6
  <2>10. \A r \in Runs : DrainOK(main'[r], pump'[r]) /\ pump'[r].state # "appended"
    BY <1>4, <1>5, <2>7, <2>8, <2>9 DEF Drains
  <2>11. status'.state = "COMPLETE" => \A r \in Runs : main'[r].pc \in Apart
    BY <1>5 DEF Drains
  <2>12. normalized' = Len(raw')
    BY <2>1, <2>6 DEF read
  <2> QED BY <2>10, <2>11, <2>12 DEF Drains
<1> QED BY <1>8, <1>9, <1>10, <1>11, <1>12, <1>13 DEF PumpSteps

LEMMA InitDrains == Init => Drains
<1> SUFFICES ASSUME Init PROVE Drains
  OBVIOUS
<1>1. \A p \in Runs : main[p] = Unstarted /\ pump[p] = NoPump
  BY DEF Init
<1>2. Unstarted.pc = "off" /\ Unstarted.broken = FALSE /\ Unstarted.value = Fresh
  BY DEF Unstarted
<1>3. Fresh.state = "NONE" /\ NoPump.state = "off"
  BY DEF Fresh, NoPump
<1>4. normalized = Len(raw) /\ status = Fresh
  BY DEF Init
<1> QED BY <1>1, <1>2, <1>3, <1>4 DEF Drains, DrainOK

LEMMA StepDrains ==
  ASSUME IInv, Drains, Calm, [Next]_vars
  PROVE  Drains'
<1>0. Shape /\ Phases
  BY DEF IInv
<1>1. CASE SessionEnds \/ UNCHANGED vars
  <2>1. UNCHANGED <<status, main, pump, raw, normalized>>
    BY <1>1 DEF SessionEnds, vars, journal
  <2> QED BY <2>1 DEF Drains
<1>2. ASSUME NEW p \in Runs, Refuse(p) \/ Overload(p)
      PROVE  Fail(p) /\ main[p].pc \in Serving
  BY <1>2 DEF Refuse, Overload, Serving
<1>3. ASSUME NEW p \in Runs,
             \/ Load(p) \/ StartFails(p) \/ MainSteps(p) \/ Provider(p)
             \/ Heartbeat(p) \/ StatusFails(p) \/ PumpBreaks(p) \/ RequestStop(p) \/ Crash(p)
      PROVE  Drains'
  BY <1>0, <1>2, <1>3, QuietWorks, ChargeWorks, EndWorks, WorksDrains, EdgeDrains, NeverInCalm
     DEF MainSteps, Provider
<1> QED BY <1>1, <1>3, PumpDrains DEF Next

LEMMA DrainsAlways == Calm => (Spec => []Drains)
<1> SUFFICES ASSUME Calm PROVE Spec => []Drains
  OBVIOUS
<1>1. Overlap = FALSE
  BY DEF Calm
<1>2. Spec => []IInv
  BY <1>1, Invariance
<1>3. Init => Drains
  BY InitDrains
<1>4. IInv /\ Drains /\ [Next]_vars => Drains'
  BY StepDrains
<1> QED BY <1>2, <1>3, <1>4, PTL DEF Spec

(* Where runs follow one another, none dies and no write fails, a session that  *)
(* is reported COMPLETE has no raw frame that was never normalized (join, and   *)
(* the read after each append).                                                 *)
THEOREM CompleteSessionsNormalized == Calm => (Spec => []CompleteIsNormalized)
<1>1. IInv /\ Drains => CompleteIsNormalized
  <2> SUFFICES ASSUME IInv, Drains, status.state = "COMPLETE" PROVE normalized = Len(raw)
    BY DEF CompleteIsNormalized
  <2>1. ASSUME NEW p \in Runs PROVE pump[p].state # "appended"
    <3>1. main[p].pc \in Apart /\ DrainOK(main[p], pump[p])
      BY DEF Drains
    <3> QED BY <3>1, PumpAlive DEF IInv, Alive, Apart, DrainOK
  <2> QED BY <2>1 DEF Drains
<1>2. Calm => Overlap = FALSE
  BY DEF Calm
<1> QED BY <1>1, <1>2, DrainsAlways, Invariance, PTL

-------------------------------------------------------------------------------
(* Layer 6: where no session is refused either, every connection that has put   *)
(* frames into the journal is recorded as a gap before the next one.            *)

Served == Calm /\ CanReject = FALSE

Named(s, c) == \E i \in 1..Len(s.gaps) : s.gaps[i].attempt = c

(* No connection is made after this many attempts and frames. *)
Spent(a, d) == over \/ a >= AttemptCeiling \/ d + ControlMessages >= Ceiling

(* Why connection c of a run with locals m needs no gap: it is the one that is  *)
(* open, or no other follows, or the run is about to record one.                *)
Excused(m, c) ==
  \/ /\ m.pc \in {"loaded", "opened", "loop", "closing", "joining", "released"}
     /\ Spent(m.attempts, m.decoded)
  \/ m.pc \in InSession /\ c = m.attempts
  \/ m.pc = "closing" /\ m.stop /\ c = m.attempts
  \/ m.pc \in {"joining", "released"} /\ m.paused /\ c = m.attempts

ServedOK(m) ==
  /\ ~m.failing /\ m.value.state # "FAILED"
  /\ m.value.gaps = status.gaps
  /\ m.pc \notin InSession => m.value.decoded = m.decoded
  /\ m.pc \in {"closing", "joining", "released"} =>
       m.attempts = m.value.attempts \/ m.decoded + ControlMessages >= Ceiling

Holes ==
  /\ \A f, g \in AllFrames : f.conn < g.conn => Named(status, f.conn)
  /\ \A p \in Runs : main[p].pc = "off" => ~main[p].failing
  /\ \A p \in Runs : Alive(p) => ServedOK(main[p])
  /\ \A p \in Runs : Alive(p) =>
       \A f \in AllFrames : Named(status, f.conn) \/ Excused(main[p], f.conn)
  /\ (\A p \in Runs : ~Alive(p)) =>
       \A f \in AllFrames :
         Named(status, f.conn) \/ Spent(status.attempts, ResumeUsage(status))

LEMMA HolesAfter ==
  ASSUME Phases, Phases', Holes, NEW p \in Runs, Alive(p),
         \A r \in Runs : r # p => main'[r] = main[r],
         Alive(p)', AllFrames' \subseteq AllFrames,
         ServedOK(main[p])',
         \A f \in AllFrames : Named(status, f.conn) => Named(status', f.conn),
         \A f \in AllFrames : Excused(main[p], f.conn) =>
           Named(status', f.conn) \/ Excused(main[p], f.conn)'
  PROVE  Holes'
<1>1. \A r \in Runs : Alive(r)' => r = p
  BY DEF Phases, Alone
<1>2. \A f, g \in AllFrames' : f.conn < g.conn => Named(status', f.conn)
  BY DEF Holes
<1>3. \A r \in Runs : Alive(r)' => ServedOK(main[r])'
  BY <1>1
<1>4. \A f \in AllFrames' : Named(status', f.conn) \/ Excused(main[p], f.conn)'
  BY DEF Holes
<1>5. \A r \in Runs : main'[r].pc = "off" => ~main'[r].failing
  BY DEF Holes, Alive
<1> QED BY <1>1, <1>2, <1>3, <1>4, <1>5 DEF Holes

(* A step that changes neither what a run counts nor the gaps. *)
LEMMA SamePlace ==
  ASSUME Phases, Phases', Holes, NEW p \in Runs, Alive(p),
         \A r \in Runs : r # p => main'[r] = main[r],
         Alive(p)', AllFrames' \subseteq AllFrames, ServedOK(main[p])',
         status'.gaps = status.gaps,
         \A c : Excused(main[p], c) => Excused(main[p], c)'
  PROVE  Holes'
<1>1. \A f \in AllFrames : Named(status, f.conn) => Named(status', f.conn)
  BY DEF Named
<1> QED BY <1>1, HolesAfter

LEMMA FramesKept ==
  ASSUME UNCHANGED journal,
         \A r \in Runs : pump'[r].queue = pump[r].queue /\ pump'[r].claim = pump[r].claim
  PROVE  AllFrames' = AllFrames
BY DEF AllFrames, journal

(* What is known of a run that is alive. *)
LEMMA ServedRun ==
  ASSUME IInv, Drains, Holes, NEW p \in Runs, Alive(p)
  PROVE  /\ Phases /\ ServedOK(main[p]) /\ DrainOK(main[p], pump[p]) /\ PhaseOK(main[p], pump[p])
         /\ AccountOK(main[p]) /\ AttemptsOK(main[p])
         /\ main \in [Runs -> Locals] /\ main[p] \in Locals /\ main[p].value \in Statuses
         /\ main[p].attempts \in Nat /\ main[p].decoded \in Nat
         /\ Ceiling \in Nat /\ ControlMessages \in Nat /\ AttemptCeiling \in Nat
         /\ \A r \in Runs : r # p => ~Alive(r)
BY RunShape, Limits DEF IInv, Shape, Phases, Accounts, Names, Drains, Holes, Alone

(* The way to a connection. *)
LEMMA ApproachHoles ==
  ASSUME IInv, IInv', Drains, Holes, Served, NEW p \in Runs,
         \/ OpenPump(p) \/ Acquire(p) \/ LeaveLoop(p) \/ Reserve(p) \/ RequestStop(p)
         \/ Heartbeat(p)
  PROVE  Holes'
<1>0. Alive(p)
  BY DEF OpenPump, Acquire, LeaveLoop, Reserve, RequestStop, Heartbeat, Alive, Published, Serving
<1>1. /\ Phases /\ ServedOK(main[p]) /\ DrainOK(main[p], pump[p]) /\ AttemptsOK(main[p])
      /\ main \in [Runs -> Locals] /\ main[p] \in Locals /\ main[p].value \in Statuses
      /\ main[p].attempts \in Nat /\ main[p].decoded \in Nat
      /\ Ceiling \in Nat /\ ControlMessages \in Nat /\ AttemptCeiling \in Nat
      /\ Phases'
  BY <1>0, ServedRun DEF IInv
<1>2. AllFrames' = AllFrames
  <2>1. CASE UNCHANGED <<journal, pump>>
    BY <2>1, FramesKept
  <2>2. CASE OpenPump(p)
    BY <2>2, RunShape, FramesKept DEF OpenPump, IInv, Shape, Pumps
  <2> QED BY <2>1, <2>2 DEF Acquire, LeaveLoop, Reserve, RequestStop, Heartbeat
<1>3. ~main[p].broken
  BY <1>1 DEF DrainOK
<1>4. CASE OpenPump(p)
  <2>1. /\ main' = [main EXCEPT ![p].pc = "opened"] /\ status' = status /\ over' = over
        /\ main[p].pc = "loaded"
    BY <1>4 DEF OpenPump
  <2>2. /\ main'[p] = [main[p] EXCEPT !.pc = "opened"] /\ \A r \in Runs : r # p => main'[r] = main[r]
    BY <1>1, <2>1
  <2>3. ServedOK(main[p])'
    BY <1>1, <2>1, <2>2 DEF ServedOK, Locals, InSession
  <2>4. \A c : Excused(main[p], c) => Excused(main[p], c)'
    BY <1>1, <2>1, <2>2 DEF Excused, Spent, Locals, InSession
  <2>5. Alive(p)'
    BY <1>1, <2>2 DEF Alive, Locals
  <2> QED BY <1>0, <1>1, <1>2, <2>1, <2>2, <2>3, <2>4, <2>5, SamePlace
<1>5. CASE Acquire(p)
  <2>1. /\ main' = [main EXCEPT ![p] = [[main[p] EXCEPT !.pc = "loop"] EXCEPT !.value = main[p].value]]
        /\ status' = main[p].value /\ over' = over /\ main[p].pc = "opened"
    BY <1>5 DEF Acquire, Persist
  <2>2. /\ main'[p] = [main[p] EXCEPT !.pc = "loop"] /\ \A r \in Runs : r # p => main'[r] = main[r]
    BY <1>1, <2>1 DEF Locals
  <2>3. ServedOK(main[p])' /\ status'.gaps = status.gaps
    BY <1>1, <2>1, <2>2 DEF ServedOK, Locals, InSession
  <2>4. \A c : Excused(main[p], c) => Excused(main[p], c)'
    BY <1>1, <2>1, <2>2 DEF Excused, Spent, Locals, InSession
  <2>5. Alive(p)'
    BY <1>1, <2>2 DEF Alive, Locals
  <2> QED BY <1>0, <1>1, <1>2, <2>1, <2>2, <2>3, <2>4, <2>5, SamePlace
<1>6. CASE LeaveLoop(p)
  <2>1. /\ main' = [main EXCEPT ![p].pc = "closing"] /\ status' = status /\ over' = over
        /\ main[p].pc = "loop"
    BY <1>6 DEF LeaveLoop
  <2>2. /\ main'[p] = [main[p] EXCEPT !.pc = "closing"] /\ \A r \in Runs : r # p => main'[r] = main[r]
    BY <1>1, <2>1
  <2>3. main[p].attempts = main[p].value.attempts
    BY <1>1, <2>1 DEF AttemptsOK, AttemptsAt, Serving
  <2>4. ServedOK(main[p])'
    BY <1>1, <2>1, <2>2, <2>3 DEF ServedOK, Locals, InSession
  <2>5. \A c : Excused(main[p], c) => Excused(main[p], c)'
    BY <1>1, <2>1, <2>2 DEF Excused, Spent, Locals, InSession
  <2>6. Alive(p)'
    BY <1>1, <2>2 DEF Alive, Locals
  <2> QED BY <1>0, <1>1, <1>2, <2>1, <2>2, <2>4, <2>5, <2>6, SamePlace
<1>7. CASE Reserve(p)
  <2> DEFINE k == Least(Ceiling, main[p].decoded + ControlMessages + Quantum)
             v == [main[p].value EXCEPT !.reserved = k]
             l == [main[p] EXCEPT !.pc = "session", !.received = 0, !.controls = 0, !.accepted = 0]
  <2>1. /\ main' = [main EXCEPT ![p] = [l EXCEPT !.value = v]]
        /\ status' = v /\ main[p].pc = "reserving"
    BY <1>7 DEF Reserve, Persist
  <2>2. v.gaps = main[p].value.gaps /\ v.state = main[p].value.state
    BY <1>1 DEF Statuses
  <2> HIDE DEF k, v
  <2>3. /\ main'[p].pc = "session" /\ main'[p].value = v /\ main'[p].failing = main[p].failing
        /\ \A r \in Runs : r # p => main'[r] = main[r]
    BY <1>1, <2>1 DEF Locals
  <2>4. ServedOK(main[p])' /\ status'.gaps = status.gaps
    BY <1>1, <2>1, <2>2, <2>3 DEF ServedOK, InSession
  <2>5. \A c : Excused(main[p], c) => Excused(main[p], c)'
    BY <2>1 DEF Excused, InSession
  <2>6. Alive(p)'
    BY <2>3 DEF Alive
  <2> QED BY <1>0, <1>1, <1>2, <2>3, <2>4, <2>5, <2>6, SamePlace
<1>8. CASE RequestStop(p)
  <2>1. main' = [main EXCEPT ![p].stop = TRUE] /\ status' = status /\ over' = over
    BY <1>8 DEF RequestStop
  <2>2. /\ main'[p] = [main[p] EXCEPT !.stop = TRUE] /\ \A r \in Runs : r # p => main'[r] = main[r]
    BY <1>1, <2>1
  <2>3. ServedOK(main[p])'
    BY <1>1, <2>1, <2>2 DEF ServedOK, Locals
  <2>4. \A c : Excused(main[p], c) => Excused(main[p], c)'
    BY <1>1, <2>1, <2>2 DEF Excused, Spent, Locals
  <2>5. Alive(p)'
    BY <1>0, <1>1, <2>2 DEF Alive, Locals
  <2> QED BY <1>0, <1>1, <1>2, <2>1, <2>2, <2>3, <2>4, <2>5, SamePlace
<1>9. CASE Heartbeat(p)
  <2>1. status' = main[p].value /\ main' = main /\ over' = over
    BY <1>9 DEF Heartbeat
  <2>2. status'.gaps = status.gaps /\ ServedOK(main[p])'
    BY <1>1, <2>1 DEF ServedOK
  <2>3. \A c : Excused(main[p], c) => Excused(main[p], c)'
    BY <2>1 DEF Excused, Spent
  <2>4. Alive(p)'
    BY <1>0, <2>1 DEF Alive
  <2> QED BY <1>0, <1>1, <1>2, <2>1, <2>2, <2>3, <2>4, SamePlace
<1> QED BY <1>4, <1>5, <1>6, <1>7, <1>8, <1>9

LEMMA ConnectHoles ==
  ASSUME IInv, IInv', Drains, Holes, Served, NEW p \in Runs, Connect(p)
  PROVE  Holes'
<1>0. Alive(p) /\ main[p].pc = "loop" /\ MayConnect(p) /\ over' = over
  BY DEF Connect, Alive
<1>1. /\ Phases /\ ServedOK(main[p]) /\ DrainOK(main[p], pump[p]) /\ AttemptsOK(main[p])
      /\ main \in [Runs -> Locals] /\ main[p] \in Locals /\ main[p].value \in Statuses
      /\ main[p].attempts \in Nat /\ main[p].decoded \in Nat
      /\ Ceiling \in Nat /\ ControlMessages \in Nat /\ AttemptCeiling \in Nat
      /\ Phases'
  BY <1>0, ServedRun DEF IInv
<1>2. AllFrames' = AllFrames
  BY FramesKept DEF Connect
<1> DEFINE k == main[p].attempts + 1
           v == Connecting(main[p].value, k, main[p].decoded)
<1>3. /\ v.state = "CONNECTING" /\ v.gaps = main[p].value.gaps /\ v.decoded = main[p].decoded
  BY <1>1 DEF Connecting, Statuses
<1>4. CASE Remaining(p) <= 0
  <2>1. main' = [main EXCEPT ![p].pc = "closing", ![p].attempts = k] /\ status' = status
    BY <1>4 DEF Connect
  <2>2. main[p].decoded + ControlMessages >= Ceiling
    BY <1>1, <1>4 DEF Remaining
  <2> HIDE DEF k, v
  <2>3. /\ main'[p] = [main[p] EXCEPT !.pc = "closing", !.attempts = k]
        /\ \A r \in Runs : r # p => main'[r] = main[r]
    BY <1>1, <2>1
  <2>4. /\ main'[p].pc = "closing" /\ main'[p].failing = main[p].failing
        /\ main'[p].value = main[p].value /\ main'[p].decoded = main[p].decoded
    BY <1>1, <2>3 DEF Locals
  <2>5. ServedOK(main[p])'
    BY <1>0, <1>1, <2>1, <2>2, <2>4 DEF ServedOK, InSession
  <2>6. \A c : Excused(main[p], c)'
    BY <2>2, <2>4 DEF Excused, Spent
  <2>7. Alive(p)'
    BY <2>4 DEF Alive
  <2> QED BY <1>0, <1>1, <1>2, <2>1, <2>3, <2>5, <2>6, <2>7, SamePlace
<1>5. CASE ~(Remaining(p) <= 0)
  <2>1. /\ main' = [main EXCEPT ![p] = [[main[p] EXCEPT !.pc = "reserving", !.attempts = k]
                                        EXCEPT !.value = v]]
        /\ status' = v
    BY <1>5 DEF Connect, Persist
  <2>2. \A f \in AllFrames : ~Excused(main[p], f.conn)
    BY <1>0, <1>1, <1>5 DEF Excused, Spent, MayConnect, Remaining, InSession
  <2> HIDE DEF k, v
  <2>4. /\ main'[p].pc = "reserving" /\ main'[p].failing = main[p].failing
        /\ main'[p].value = v /\ main'[p].decoded = main[p].decoded
        /\ \A r \in Runs : r # p => main'[r] = main[r]
    BY <1>1, <2>1 DEF Locals
  <2>5. ServedOK(main[p])'
    BY <1>0, <1>1, <1>3, <2>1, <2>4 DEF ServedOK, InSession
  <2>6. \A c : Named(status, c) => Named(status', c)
    BY <1>1, <1>3, <2>1 DEF Named, ServedOK
  <2>7. Alive(p)'
    BY <2>4 DEF Alive
  <2> QED BY <1>0, <1>1, <1>2, <2>1, <2>2, <2>4, <2>5, <2>6, <2>7, HolesAfter
<1> QED BY <1>4, <1>5

LEMMA Elements ==
  ASSUME NEW S, NEW q \in Seq(S), NEW i \in 1..Len(q)
  PROVE  q[i] \in S /\ DOMAIN q = 1..Len(q)
OBVIOUS

(* What is done to the gaps of a status. *)
LEMMA GapNames ==
  ASSUME NEW s \in Statuses, NEW n \in Nat
  PROVE  /\ \A c : Named(s, c) => Named([gaps |-> Gap(s, n)], c)
         /\ Named([gaps |-> Gap(s, n)], n)
         /\ \A c : Named(s, c) => Named([gaps |-> ClosedGaps(s)], c)
<1>1. s.gaps \in Seq([attempt : Nat, open : BOOLEAN])
  BY DEF Statuses
<1> DEFINE g == [attempt |-> n, open |-> TRUE]
           q == s.gaps
<1>2. Gap(s, n) = Append(q, g) /\ g.attempt = n
  BY DEF Gap
<1>3. g \in [attempt : Nat, open : BOOLEAN]
  OBVIOUS
<1> HIDE DEF g
<1>4. /\ Len(Append(q, g)) = Len(q) + 1 /\ Append(q, g)[Len(q) + 1] = g
      /\ \A i \in 1..Len(q) : Append(q, g)[i] = q[i] /\ i \in 1..Len(Append(q, g))
      /\ Len(q) + 1 \in 1..Len(Append(q, g))
  BY <1>1, <1>3
<1>5. /\ \A c : Named(s, c) => Named([gaps |-> Gap(s, n)], c)
      /\ Named([gaps |-> Gap(s, n)], n)
  BY <1>2, <1>4 DEF Named
<1>6. ASSUME NEW c, Named(s, c) PROVE Named([gaps |-> ClosedGaps(s)], c)
  <2>1. PICK i \in 1..Len(q) : q[i].attempt = c
    BY <1>6 DEF Named
  <2>2. q # <<>> /\ Len(q) \in Nat /\ Len(q) \in 1..Len(q)
    BY <1>1, <2>1
  <2>3. ClosedGaps(s) = [q EXCEPT ![Len(q)].open = FALSE]
    BY <2>2 DEF ClosedGaps
  <2>4. Len(ClosedGaps(s)) = Len(q)
    BY <1>1, <2>2, <2>3
  <2>5. q[i] \in [attempt : Nat, open : BOOLEAN] /\ DOMAIN q = 1..Len(q)
    BY <1>1, <2>1, Elements
  <2> DEFINE t == [q[Len(q)] EXCEPT !.open = FALSE]
  <2>8. ClosedGaps(s) = [q EXCEPT ![Len(q)] = t]
    BY <2>3
  <2>9. q[Len(q)] \in [attempt : Nat, open : BOOLEAN]
    BY <1>1, <2>2, LastElement
  <2>10. t.attempt = q[Len(q)].attempt
    BY <2>9
  <2> HIDE DEF t
  <2>6. ClosedGaps(s)[i] = IF i = Len(q) THEN t ELSE q[i]
    BY <2>1, <2>5, <2>8
  <2>7. ClosedGaps(s)[i].attempt = q[i].attempt
    BY <2>6, <2>10
  <2> QED BY <2>1, <2>4, <2>7 DEF Named
<1> QED BY <1>5, <1>6

(* A session with the provider, until it ends. *)
LEMMA SessionHoles ==
  ASSUME IInv, IInv', Drains, Holes, Served, NEW p \in Runs,
         \/ Ready(p) \/ TakeControl(p) \/ ChargeMarket(p)
         \/ \E kind \in {"control", "market"} : Receive(p, kind)
  PROVE  Holes'
<1>0. Alive(p) /\ main[p].pc \in InSession /\ UNCHANGED <<journal, pump>>
  BY DEF Ready, TakeControl, ChargeMarket, Receive, Alive, InSession
<1>1. /\ Phases /\ ServedOK(main[p]) /\ DrainOK(main[p], pump[p])
      /\ main \in [Runs -> Locals] /\ main[p] \in Locals /\ main[p].value \in Statuses
      /\ main[p].attempts \in Nat /\ Phases'
  BY <1>0, ServedRun DEF IInv
<1>2. AllFrames' = AllFrames
  BY <1>0, FramesKept
<1>3. ASSUME NEW v, main'[p].pc \in InSession, main'[p].attempts = main[p].attempts,
             main'[p].failing = main[p].failing, main'[p].value = v,
             v.state # "FAILED", v.gaps = status'.gaps,
             \A c : Named(status, c) => Named(status', c),
             \A r \in Runs : r # p => main'[r] = main[r]
      PROVE  Holes'
  <2>1. ServedOK(main[p])'
    BY <1>1, <1>3 DEF ServedOK, InSession
  <2>2. \A c : Excused(main[p], c) => Excused(main[p], c)'
    BY <1>0, <1>3 DEF Excused, InSession
  <2>3. Alive(p)'
    BY <1>3 DEF Alive, InSession
  <2> QED BY <1>0, <1>1, <1>2, <1>3, <2>1, <2>2, <2>3, HolesAfter
<1>4. CASE Ready(p)
  <2> DEFINE g == ClosedGaps(main[p].value)
             v == [main[p].value EXCEPT !.state = "CAPTURING", !.gaps = g]
  <2>1. main' = [main EXCEPT ![p] = [main[p] EXCEPT !.value = v]] /\ status' = v
    BY <1>4 DEF Ready, Persist
  <2>2. \A c : Named(main[p].value, c) => Named([gaps |-> g], c)
    BY <1>1, GapNames
  <2> HIDE DEF g
  <2>3. v.state = "CAPTURING" /\ v.gaps = g
    BY <1>1 DEF Statuses
  <2> HIDE DEF v
  <2>4. \A c : Named(status, c) => Named(status', c)
    BY <1>1, <2>1, <2>2, <2>3 DEF Named, ServedOK
  <2>5. main'[p] = [main[p] EXCEPT !.value = v] /\ \A r \in Runs : r # p => main'[r] = main[r]
    BY <1>1, <2>1
  <2> QED BY <1>0, <1>1, <1>3, <2>1, <2>3, <2>4, <2>5 DEF Locals
<1>5. ASSUME NEW kind \in {"control", "market"}, Receive(p, kind)
      PROVE  Holes'
  <2>1. main' = [main EXCEPT ![p].pc = kind, ![p].received = @ + 1] /\ status' = status
    BY <1>5 DEF Receive
  <2>2. /\ main'[p].pc = kind /\ main'[p].attempts = main[p].attempts
        /\ main'[p].failing = main[p].failing /\ main'[p].value = main[p].value
        /\ \A r \in Runs : r # p => main'[r] = main[r]
    BY <1>1, <2>1 DEF Locals
  <2> QED BY <1>1, <1>3, <2>1, <2>2 DEF ServedOK, InSession
<1> DEFINE v == Charged(main[p].value, Counted(p))
<1>6. v.state = main[p].value.state /\ v.gaps = main[p].value.gaps
  BY <1>1 DEF Charged, Statuses
<1>7. ASSUME NEW locals, Charge(p, locals)
      PROVE  main' = [main EXCEPT ![p] = [locals EXCEPT !.value = v]] /\ status' \in {status, v}
  BY <1>7 DEF Charge, Persist
<1> HIDE DEF v
<1>8. ASSUME status' \in {status, v}
      PROVE  status'.gaps = v.gaps /\ \A c : Named(status, c) => Named(status', c)
  BY <1>1, <1>6, <1>8 DEF ServedOK, Named
<1>9. CASE TakeControl(p)
  <2>1. main' = [main EXCEPT ![p] = [[main[p] EXCEPT !.pc = "session", !.controls = @ + 1]
                                     EXCEPT !.value = v]] /\ status' \in {status, v}
    BY <1>7, <1>9 DEF TakeControl
  <2>2. /\ main'[p].pc = "session" /\ main'[p].attempts = main[p].attempts
        /\ main'[p].failing = main[p].failing /\ main'[p].value = v
        /\ \A r \in Runs : r # p => main'[r] = main[r]
    BY <1>1, <2>1 DEF Locals
  <2> QED BY <1>1, <1>3, <1>6, <1>8, <2>1, <2>2 DEF ServedOK, InSession
<1>10. CASE ChargeMarket(p)
  <2>1. main' = [main EXCEPT ![p] = [[main[p] EXCEPT !.pc = "admitting"]
                                     EXCEPT !.value = v]] /\ status' \in {status, v}
    BY <1>7, <1>10 DEF ChargeMarket
  <2>2. /\ main'[p].pc = "admitting" /\ main'[p].attempts = main[p].attempts
        /\ main'[p].failing = main[p].failing /\ main'[p].value = v
        /\ \A r \in Runs : r # p => main'[r] = main[r]
    BY <1>1, <2>1 DEF Locals
  <2> QED BY <1>1, <1>3, <1>6, <1>8, <2>1, <2>2 DEF ServedOK, InSession
<1> QED BY <1>4, <1>5, <1>9, <1>10

(* A frame of the open connection comes after those of all others. *)
LEMMA AdmitHoles ==
  ASSUME IInv, IInv', Drains, Holes, Served, NEW p \in Runs, Admit(p)
  PROVE  Holes'
<1>0. Alive(p) /\ main[p].pc = "admitting" /\ status' = status /\ over' = over /\ UNCHANGED journal
  BY DEF Admit, Alive
<1>1. /\ Phases /\ ServedOK(main[p])
      /\ main \in [Runs -> Locals] /\ main[p] \in Locals /\ Phases'
      /\ main[p].attempts \in Nat /\ AttemptsOK(main[p])
  BY <1>0, ServedRun DEF IInv
<1> DEFINE frame == [conn |-> main[p].attempts, number |-> main[p].accepted, by |-> p]
<1>2. ASSUME NEW f \in AllFrames' PROVE f \in AllFrames \/ f = frame
  <2>1. pump \in [Runs -> Pumps] /\ pump[p] \in Pumps /\ pump[p].queue \in Seq(Frames)
    BY RunShape DEF IInv, Shape, Pumps
  <2>2. frame \in Frames
    BY <1>1 DEF Frames, Locals
  <2>3. pump' = [pump EXCEPT ![p].queue = Append(@, frame)]
    BY DEF Admit, Put
  <2> HIDE DEF frame
  <2>4. /\ pump'[p].queue = Append(pump[p].queue, frame) /\ pump'[p].claim = pump[p].claim
        /\ \A r \in Runs : r # p => pump'[r] = pump[r]
    BY <2>1, <2>3 DEF Pumps
  <2>5. ToSet(Append(pump[p].queue, frame)) = ToSet(pump[p].queue) \cup {frame}
    BY <2>1, <2>2, ElementsAppend
  <2>6. raw' = raw
    BY <1>0 DEF journal
  <2>7. f \in ToSet(raw') \/ \E r \in Runs : f \in Held(r)'
    BY <1>2 DEF AllFrames, Held
  <2>0. \A e : e \in AllFrames <=> e \in ToSet(raw) \/ \E r \in Runs : e \in Held(r)
    BY FramesAre DEF IInv
  <2>8. ASSUME NEW r \in Runs, f \in Held(r)'
        PROVE  f \in Held(r) \/ f = frame
    BY <2>4, <2>5, <2>8 DEF Held
  <2>9. f \in ToSet(raw') => f \in AllFrames
    BY <2>0, <2>6
  <2> QED BY <2>0, <2>7, <2>8, <2>9
<1>3. frame.conn = main[p].attempts
  OBVIOUS
<1>4. main' = [main EXCEPT ![p].pc = "session", ![p].accepted = @ + 1, ![p].admitted = @ + 1]
  BY DEF Admit
<1> HIDE DEF frame
<1>5. /\ main'[p].pc = "session" /\ main'[p].attempts = main[p].attempts
      /\ main'[p].failing = main[p].failing /\ main'[p].value = main[p].value
      /\ \A r \in Runs : r # p => main'[r] = main[r]
  BY <1>1, <1>4 DEF Locals
<1>6. ServedOK(main[p])'
  BY <1>0, <1>1, <1>5 DEF ServedOK, InSession
<1>7. \A f \in AllFrames : f.conn # main[p].attempts => Named(status, f.conn)
  BY <1>0 DEF Holes, Excused, InSession
<1>8. \A f \in AllFrames : f.conn \in Nat /\ f.conn <= main[p].attempts
  <2>1. main[p].attempts = status.attempts
    BY <1>0, <1>1 DEF AttemptsOK, AttemptsAt, Serving
  <2> QED BY <2>1, FramesAre DEF IInv, Names, Frames
<1>9. \A f, g \in AllFrames' : f.conn < g.conn => Named(status', f.conn)
  <2> SUFFICES ASSUME NEW f \in AllFrames', NEW g \in AllFrames', f.conn < g.conn
               PROVE  Named(status, f.conn)
    BY <1>0
  <2>1. f.conn \in Nat /\ f.conn <= main[p].attempts /\ g.conn \in Nat /\ g.conn <= main[p].attempts
    BY <1>1, <1>2, <1>3, <1>8
  <2>2. f.conn # main[p].attempts
    BY <1>1, <2>1
  <2>3. f \in AllFrames
    BY <1>2, <1>3, <2>2
  <2> QED BY <1>7, <2>2, <2>3
<1>10. \A f \in AllFrames' : Named(status', f.conn) \/ Excused(main[p], f.conn)'
  <2> SUFFICES ASSUME NEW f \in AllFrames', f.conn # main[p].attempts PROVE Named(status, f.conn)
    BY <1>0, <1>5 DEF Excused, InSession
  <2> QED BY <1>2, <1>3, <1>7
<1>11. \A r \in Runs : Alive(r)' <=> r = p
  BY <1>1, <1>5, <1>0 DEF Phases, Alone, Alive
<1>12. \A r \in Runs : main'[r].pc = "off" => ~main'[r].failing
  BY <1>5 DEF Holes
<1> QED BY <1>6, <1>9, <1>10, <1>11, <1>12 DEF Holes

(* A connection that is lost is recorded at once. *)
LEMMA DropHoles ==
  ASSUME IInv, IInv', Drains, Holes, Served, NEW p \in Runs, Drop(p)
  PROVE  Holes'
<1>0. Alive(p) /\ main[p].pc = "session" /\ over' = over /\ UNCHANGED <<journal, pump>>
  BY DEF Drop, Alive
<1>1. /\ Phases /\ ServedOK(main[p])
      /\ main \in [Runs -> Locals] /\ main[p] \in Locals /\ main[p].value \in Statuses
      /\ main[p].attempts \in Nat /\ Phases'
  BY <1>0, ServedRun DEF IInv
<1>2. AllFrames' = AllFrames
  BY <1>0, FramesKept
<1> DEFINE g == Gap(main[p].value, main[p].attempts)
           d == Counted(p)
           v == [Settled(main[p].value, "RECONNECTING", d) EXCEPT !.gaps = g]
           l == [main[p] EXCEPT !.pc = "loop", !.decoded = d]
<1>3. main' = [main EXCEPT ![p] = [l EXCEPT !.value = v]] /\ status' = v
  BY DEF Drop, Persist
<1>4. /\ \A c : Named(main[p].value, c) => Named([gaps |-> g], c)
      /\ Named([gaps |-> g], main[p].attempts)
  BY <1>1, GapNames
<1> HIDE DEF g, d
<1>5. v.gaps = g /\ v.state = "RECONNECTING" /\ v.decoded = d
  BY <1>1 DEF Settled, Statuses
<1> HIDE DEF v
<1>6. /\ main'[p].pc = "loop" /\ main'[p].failing = main[p].failing /\ main'[p].value = v
      /\ main'[p].decoded = d
      /\ \A r \in Runs : r # p => main'[r] = main[r]
  BY <1>1, <1>3 DEF Locals
<1>7. ServedOK(main[p])'
  BY <1>1, <1>3, <1>5, <1>6 DEF ServedOK
<1>8. /\ \A c : Named(status, c) => Named(status', c)
      /\ Named(status', main[p].attempts)
  BY <1>1, <1>3, <1>4, <1>5 DEF ServedOK, Named
<1>9. \A c : Excused(main[p], c) => c = main[p].attempts
  BY <1>0 DEF Excused
<1>10. Alive(p)'
  BY <1>6 DEF Alive
<1> QED BY <1>0, <1>1, <1>2, <1>6, <1>7, <1>8, <1>9, <1>10, HolesAfter

(* A session that ends is the last one, or its run will record it. *)
LEMMA EndSessionHoles ==
  ASSUME IInv, IInv', Drains, Holes, Served, NEW p \in Runs, EndSession(p)
  PROVE  Holes'
<1>0. Alive(p) /\ main[p].pc = "session" /\ over' = over /\ UNCHANGED <<journal, pump>>
  BY DEF EndSession, Alive
<1>1. /\ Phases /\ ServedOK(main[p]) /\ AccountOK(main[p]) /\ AttemptsOK(main[p])
      /\ main \in [Runs -> Locals] /\ main[p] \in Locals /\ main[p].value \in Statuses
      /\ main[p].decoded \in Nat /\ Ceiling \in Nat /\ ControlMessages \in Nat
      /\ Phases'
  BY <1>0, ServedRun DEF IInv
<1>2. AllFrames' = AllFrames
  BY <1>0, FramesKept
<1> DEFINE d == Counted(p)
           full == main[p].accepted = Remaining(p)
           where == IF full THEN "loop" ELSE "closing"
           v == Settled(main[p].value, "CAPTURING", d)
           l == [main[p] EXCEPT !.pc = where, !.decoded = d]
<1>3. main' = [main EXCEPT ![p] = [l EXCEPT !.value = v]] /\ status' = v
  BY DEF EndSession, Persist
<1>4. full \/ main[p].stop \/ over
  BY DEF EndSession, StopRequested
<1>5. full => d + ControlMessages >= Ceiling
  <2>1. SessionOK(main[p])
    BY <1>0, <1>1 DEF AccountOK, InSession
  <2>2. main[p].received = main[p].controls + main[p].accepted /\ main[p].controls \in Nat
        /\ main[p].accepted \in Nat
    BY <1>0, <1>1, <2>1 DEF SessionOK, Locals
  <2> QED BY <1>1, <2>2 DEF Counted, Remaining
<1> HIDE DEF d, full
<1>6. v.gaps = main[p].value.gaps /\ v.state = "CAPTURING" /\ v.decoded = d
      /\ v.attempts = main[p].value.attempts
  BY <1>1 DEF Settled, Statuses
<1> HIDE DEF v, where
<1>7. /\ main'[p].pc = where /\ main'[p].failing = main[p].failing /\ main'[p].value = v
      /\ main'[p].decoded = d /\ main'[p].attempts = main[p].attempts
      /\ main'[p].stop = main[p].stop
      /\ \A r \in Runs : r # p => main'[r] = main[r]
  BY <1>1, <1>3 DEF Locals
<1>8. main[p].attempts = main[p].value.attempts
  BY <1>0, <1>1 DEF AttemptsOK, AttemptsAt, Serving
<1>9. ServedOK(main[p])'
  BY <1>1, <1>3, <1>6, <1>7, <1>8 DEF ServedOK
<1>10. status'.gaps = status.gaps
  BY <1>1, <1>3, <1>6 DEF ServedOK
<1>11. \A c : Excused(main[p], c) => c = main[p].attempts
  BY <1>0 DEF Excused
<1>12. Excused(main[p], main[p].attempts)'
  <2>1. CASE full
    BY <1>5, <1>7, <2>1 DEF where, Excused, Spent
  <2>2. CASE ~full
    BY <1>0, <1>4, <1>7, <2>2 DEF where, Excused, Spent
  <2> QED BY <2>1, <2>2
<1>13. \A c : Excused(main[p], c) => Excused(main[p], c)'
  BY <1>7, <1>11, <1>12
<1>14. Alive(p)'
  BY <1>7 DEF Alive, where
<1> QED BY <1>0, <1>1, <1>2, <1>7, <1>9, <1>10, <1>13, <1>14, SamePlace

(* A run that closes pauses just when another connection could follow. *)
LEMMA CloseHoles ==
  ASSUME IInv, IInv', Drains, Holes, Served, NEW p \in Runs, Close(p)
  PROVE  Holes'
<1>0. Alive(p) /\ main[p].pc = "closing" /\ over' = over /\ UNCHANGED journal
  BY DEF Close, Alive
<1>1. /\ Phases /\ ServedOK(main[p]) /\ DrainOK(main[p], pump[p])
      /\ main \in [Runs -> Locals] /\ main[p] \in Locals /\ main[p].value \in Statuses
      /\ main[p].attempts \in Nat /\ main[p].decoded \in Nat
      /\ Ceiling \in Nat /\ ControlMessages \in Nat /\ AttemptCeiling \in Nat
      /\ Phases'
  BY <1>0, ServedRun DEF IInv
<1>2. AllFrames' = AllFrames
  BY <1>0, RunShape, FramesKept DEF Close, IInv, Shape, Pumps
<1> DEFINE pauses == StopPauses(p)
           where == IF pauses THEN "PAUSED" ELSE "DRAINING"
           v == [main[p].value EXCEPT !.state = where]
           l == [main[p] EXCEPT !.pc = "joining", !.paused = pauses]
<1>3. main' = [main EXCEPT ![p] = [l EXCEPT !.value = v]] /\ status' = v
  BY <1>1 DEF Close, Persist, ServedOK, DrainOK
<1>4. main[p].stop => pauses \/ Spent(main[p].attempts, main[p].decoded)
  BY <1>1 DEF StopPauses, Spent
<1>5. /\ v.gaps = main[p].value.gaps /\ v.state # "FAILED" /\ v.decoded = main[p].value.decoded
      /\ v.attempts = main[p].value.attempts
  BY <1>1 DEF Statuses
<1> HIDE DEF v, where, pauses
<1>6. /\ main'[p].pc = "joining" /\ main'[p].failing = main[p].failing /\ main'[p].value = v
      /\ main'[p].decoded = main[p].decoded /\ main'[p].attempts = main[p].attempts
      /\ main'[p].paused = pauses
      /\ \A r \in Runs : r # p => main'[r] = main[r]
  BY <1>1, <1>3 DEF Locals
<1>7. ServedOK(main[p])' /\ status'.gaps = status.gaps
  BY <1>0, <1>1, <1>3, <1>5, <1>6 DEF ServedOK, InSession
<1>8. \A c : Excused(main[p], c) => Excused(main[p], c)'
  BY <1>0, <1>4, <1>6 DEF Excused, Spent, InSession
<1>9. Alive(p)'
  BY <1>6 DEF Alive
<1> QED BY <1>0, <1>1, <1>2, <1>6, <1>7, <1>8, <1>9, SamePlace

LEMMA ReleaseHoles ==
  ASSUME IInv, IInv', Drains, Holes, Served, NEW p \in Runs, Release(p)
  PROVE  Holes'
<1>0. Alive(p) /\ main[p].pc = "joining" /\ over' = over /\ UNCHANGED <<journal, pump>>
  BY DEF Release, Alive
<1>1. /\ Phases /\ ServedOK(main[p]) /\ DrainOK(main[p], pump[p])
      /\ main \in [Runs -> Locals] /\ main[p] \in Locals /\ Phases'
  BY <1>0, ServedRun DEF IInv
<1>2. AllFrames' = AllFrames
  BY <1>0, FramesKept
<1>3. main' = [main EXCEPT ![p] = [main[p] EXCEPT !.pc = "released"]] /\ status' = main[p].value
  BY <1>1 DEF Release, ServedOK, DrainOK
<1>4. /\ main'[p] = [main[p] EXCEPT !.pc = "released"]
      /\ \A r \in Runs : r # p => main'[r] = main[r]
  BY <1>1, <1>3
<1>5. ServedOK(main[p])' /\ status'.gaps = status.gaps
  BY <1>0, <1>1, <1>3, <1>4 DEF ServedOK, Locals, InSession
<1>6. \A c : Excused(main[p], c) => Excused(main[p], c)'
  BY <1>0, <1>1, <1>4 DEF Excused, Spent, Locals, InSession
<1>7. Alive(p)'
  BY <1>1, <1>4 DEF Alive, Locals
<1> QED BY <1>0, <1>1, <1>2, <1>4, <1>5, <1>6, <1>7, SamePlace

(* The last write of a run leaves no connection without a gap that another can  *)
(* follow.                                                                      *)
LEMMA ReportHoles ==
  ASSUME IInv, IInv', Drains, Holes, Served, NEW p \in Runs, Report(p)
  PROVE  Holes'
<1>0. /\ Alive(p) /\ main[p].pc = "released" /\ over' = over /\ UNCHANGED <<journal, pump>>
      /\ status' = Reported(p)
  BY DEF Report, Alive, Served, Calm
<1>1. /\ Phases /\ ServedOK(main[p])
      /\ main \in [Runs -> Locals] /\ main[p] \in Locals /\ main[p].value \in Statuses
      /\ main[p].attempts \in Nat /\ main[p].decoded \in Nat
      /\ Ceiling \in Nat /\ ControlMessages \in Nat /\ AttemptCeiling \in Nat
      /\ \A r \in Runs : r # p => ~Alive(r)
  BY <1>0, ServedRun
<1>2. AllFrames' = AllFrames
  BY <1>0, FramesKept
<1> DEFINE n == main[p].attempts
           d == main[p].decoded
           s == Settled(main[p].value, "COMPLETE", d)
<1>3. \A r \in Runs : ~Alive(r)' /\ (main'[r].pc = "off" => ~main'[r].failing)
  <2>1. PICK l : main' = [main EXCEPT ![p] = Ended(l)]
    BY DEF Report
  <2>2. Ended(l).pc = "ended"
    BY DEF Ended, Unstarted
  <2> QED BY <1>1, <2>1, <2>2 DEF Alive, Holes
<1>4. s \in Statuses /\ s.gaps = main[p].value.gaps /\ s.decoded = d /\ s.reserved = d
  <2>1. s.gaps = main[p].value.gaps
    BY <1>1 DEF Settled, Statuses
  <2>2. "COMPLETE" \in States
    BY DEF States
  <2>3. d \in Nat
    BY <1>1
  <2> HIDE DEF d
  <2> QED BY <1>1, <2>1, <2>2, <2>3, SettledIs
<1> DEFINE g == Gap(s, n)
<1>5. /\ \A c : Named(s, c) => Named([gaps |-> g], c)
      /\ Named([gaps |-> g], n)
  BY <1>1, <1>4, GapNames
<1>10. \A c : Named(status, c) => \E i \in 1..Len(g) : g[i].attempt = c
  <2>1. \A c : Named(status, c) => Named(s, c)
    BY <1>1, <1>4 DEF ServedOK, Named
  <2> HIDE DEF s, g
  <2> QED BY <1>5, <2>1 DEF Named
<1>6. \A f \in AllFrames : Named(status, f.conn) \/ Excused(main[p], f.conn)
  BY <1>0 DEF Holes
<1>7. \A f \in AllFrames :
        Named(status', f.conn) \/ Spent(status.attempts, ResumeUsage(status))'
  <2>1. CASE main[p].paused
    <3>1. status' = [s EXCEPT !.state = "PAUSED", !.attempts = n, !.gaps = g]
      BY <1>0, <2>1 DEF Reported
    <3> HIDE DEF s, g
    <3>2. status'.gaps = g /\ status'.attempts = n /\ status'.decoded = d /\ status'.reserved = d
      BY <1>4, <3>1 DEF Statuses
    <3>3. ResumeUsage(status') = d
      BY <3>2 DEF ResumeUsage, Greatest
    <3>4. \A c : Named(status, c) => Named(status', c)
      BY <1>10, <3>2 DEF Named
    <3>5. Named(status', n)
      BY <1>5, <3>2 DEF Named
    <3>6. Spent(n, d) => Spent(status.attempts, ResumeUsage(status))'
      BY <1>0, <3>2, <3>3 DEF Spent
    <3> QED BY <1>0, <1>6, <3>4, <3>5, <3>6 DEF Excused, InSession
  <2>2. CASE ~main[p].paused
    <3>1. \A f \in AllFrames : Named(status, f.conn) \/ Spent(n, d)
      BY <1>0, <1>6, <2>2 DEF Excused, InSession
    <3>2. CASE pump[p].last = 0
      <4>1. status' = [main[p].value EXCEPT !.state = "FAILED"]
        BY <1>0, <2>2, <3>2 DEF Reported
      <4>2. /\ status'.gaps = main[p].value.gaps /\ status'.attempts = main[p].value.attempts
            /\ status'.decoded = main[p].value.decoded /\ status'.reserved = main[p].value.reserved
        BY <1>1, <4>1 DEF Statuses
      <4>3. /\ status'.gaps = status.gaps /\ status'.decoded = d
            /\ status'.attempts = n \/ d + ControlMessages >= Ceiling
        BY <1>0, <1>1, <4>2 DEF ServedOK, InSession
      <4> DEFINE u == ResumeUsage(status')
      <4>4. u \in Nat /\ u >= d
        BY <1>1, <4>2, <4>3, LeastGreatest DEF ResumeUsage, Statuses
      <4> HIDE DEF u, n, d
      <4> QED BY <1>0, <1>1, <3>1, <4>3, <4>4 DEF Spent, Named, u, n, d
    <3>3. CASE pump[p].last # 0
      <4>1. status' = [s EXCEPT !.attempts = n]
        BY <1>0, <2>2, <3>3 DEF Reported
      <4> HIDE DEF s
      <4>2. status'.gaps = s.gaps /\ status'.attempts = n /\ status'.decoded = d /\ status'.reserved = d
        BY <1>4, <4>1 DEF Statuses
      <4>3. ResumeUsage(status') = d
        BY <4>2 DEF ResumeUsage, Greatest
      <4>4. status'.gaps = status.gaps
        BY <1>1, <1>4, <4>2 DEF ServedOK
      <4> QED BY <1>0, <3>1, <4>2, <4>3, <4>4 DEF Spent, Named
    <3> QED BY <3>2, <3>3
  <2> QED BY <2>1, <2>2
<1>8. \A f, h \in AllFrames : f.conn < h.conn => Named(status', f.conn)
  <2>1. \A c : Named(status, c) => Named(status', c)
    <3>1. CASE main[p].paused
      <4>1. status' = [s EXCEPT !.state = "PAUSED", !.attempts = n, !.gaps = g]
        BY <1>0, <3>1 DEF Reported
      <4> HIDE DEF s, g
      <4>2. status'.gaps = g
        BY <1>4, <4>1 DEF Statuses
      <4> QED BY <1>10, <4>2 DEF Named
    <3>2. CASE ~main[p].paused
      <4>1. status' \in {[main[p].value EXCEPT !.state = "FAILED"], [s EXCEPT !.attempts = n]}
        BY <1>0, <3>2 DEF Reported
      <4> HIDE DEF s, n
      <4>2. status'.gaps = main[p].value.gaps
        BY <1>1, <1>4, <4>1 DEF Statuses
      <4> QED BY <1>1, <4>2 DEF ServedOK, Named
    <3> QED BY <3>1, <3>2
  <2> QED BY <2>1 DEF Holes
<1> QED BY <1>2, <1>3, <1>7, <1>8 DEF Holes

(* A run takes over what the file says. *)
LEMMA LoadHoles ==
  ASSUME IInv, IInv', Drains, Holes, Served, NEW p \in Runs, Load(p)
  PROVE  Holes'
<1>0. /\ main[p].pc = "off" /\ over' = over /\ status' = status /\ UNCHANGED <<journal, pump>>
      /\ \A r \in Runs : ~Alive(r)
  BY DEF Load, Served, Calm
<1>1. main \in [Runs -> Locals] /\ main[p] \in Locals
  BY RunShape DEF IInv, Shape
<1>2. AllFrames' = AllFrames
  BY <1>0, FramesKept
<1> DEFINE used == ResumeUsage(status)
           v == [state |-> "CONNECTING", attempts |-> status.attempts,
                 decoded |-> used, reserved |-> used, gaps |-> status.gaps]
<1>3. main' = [main EXCEPT ![p] = [main[p] EXCEPT !.pc = "loaded", !.attempts = status.attempts,
                                                  !.decoded = used, !.value = v]]
  BY DEF Load
<1>4. v.state = "CONNECTING" /\ v.decoded = used /\ v.gaps = status.gaps
  OBVIOUS
<1> HIDE DEF v, used
<1>5. /\ main'[p].pc = "loaded" /\ main'[p].attempts = status.attempts
      /\ main'[p].decoded = used /\ main'[p].value = v /\ main'[p].failing = main[p].failing
      /\ \A r \in Runs : r # p => main'[r] = main[r]
  BY <1>1, <1>3 DEF Locals
<1>6. ~main[p].failing
  BY <1>0 DEF Holes
<1>7. ServedOK(main[p])'
  BY <1>0, <1>4, <1>5, <1>6 DEF ServedOK
<1>8. \A f \in AllFrames' : Named(status', f.conn) \/ Excused(main[p], f.conn)'
  BY <1>0, <1>2, <1>5 DEF Holes, Excused, Spent, used
<1>9. \A r \in Runs : (Alive(r)' <=> r = p) /\ (main'[r].pc = "off" => ~main'[r].failing)
  BY <1>0, <1>5 DEF Alive, Holes
<1> QED BY <1>0, <1>2, <1>7, <1>8, <1>9 DEF Holes

(* A step that leaves the file and the main threads as they are. *)
LEMMA StillHoles ==
  ASSUME Holes, status' = status, main' = main, over => over', AllFrames' \subseteq AllFrames
  PROVE  Holes'
<1>1. \A f, g \in AllFrames' : f.conn < g.conn => Named(status', f.conn)
  BY DEF Holes
<1>2. \A r \in Runs : main'[r].pc = "off" => ~main'[r].failing
  BY DEF Holes
<1>3. \A r \in Runs : Alive(r)' => ServedOK(main[r])'
  <2> SUFFICES ASSUME NEW r \in Runs, Alive(r)' PROVE ServedOK(main[r])'
    OBVIOUS
  <2>1. ServedOK(main[r])
    BY DEF Holes, Alive
  <2> QED BY <2>1 DEF ServedOK
<1>4. \A r \in Runs : Alive(r)' =>
        \A f \in AllFrames' : Named(status', f.conn) \/ Excused(main[r], f.conn)'
  <2> SUFFICES ASSUME NEW r \in Runs, Alive(r)', NEW f \in AllFrames', ~Named(status, f.conn)
               PROVE  Excused(main[r], f.conn)'
    OBVIOUS
  <2>1. Alive(r)
    BY DEF Alive
  <2>2. Excused(main[r], f.conn)
    BY <2>1 DEF Holes
  <2> QED BY <2>2 DEF Excused, Spent
<1>5. (\A r \in Runs : ~Alive(r)') =>
        \A f \in AllFrames' : Named(status', f.conn) \/ Spent(status.attempts, ResumeUsage(status))'
  <2> SUFFICES ASSUME \A r \in Runs : ~Alive(r)', NEW f \in AllFrames', ~Named(status, f.conn)
               PROVE  Spent(status.attempts, ResumeUsage(status))'
    OBVIOUS
  <2>1. \A r \in Runs : ~Alive(r)
    BY DEF Alive
  <2>2. Spent(status.attempts, ResumeUsage(status))
    BY <2>1 DEF Holes
  <2> QED BY <2>2 DEF Spent, ResumeUsage
<1> QED BY <1>1, <1>2, <1>3, <1>4, <1>5 DEF Holes

LEMMA PumpHoles ==
  ASSUME IInv, Holes, Served, NEW p \in Runs, PumpSteps(p)
  PROVE  Holes'
<1>1. MainsIdle /\ FrameMove(p) /\ over' = over
  <2>1. over' = over
    BY DEF PumpSteps, PumpRecover, PumpClaim, PumpAppend, PumpNormalize, PumpStops
  <2> QED BY <2>1, PumpMove, PumpStepIs DEF IInv
<1>2. AllFrames' \subseteq AllFrames
  <2> SUFFICES ASSUME NEW f \in AllFrames' PROVE f \in AllFrames
    OBVIOUS
  <2>1. \A e : e \in AllFrames <=> e \in ToSet(raw) \/ \E r \in Runs : e \in Held(r)
    BY FramesAre DEF IInv
  <2>2. f \in ToSet(raw') \/ \E r \in Runs : f \in Held(r)'
    BY DEF AllFrames, Held
  <2>3. PICK t \in Seq(Frames) : raw' = raw \o t /\ ToSet(t) \subseteq Held(p)
    BY <1>1 DEF FrameMove
  <2>4. ToSet(raw') = ToSet(raw) \cup ToSet(t)
    BY <2>3, ElementsConcat DEF IInv, Shape
  <2>5. \A r \in Runs : Held(r)' \subseteq Held(r)
    BY <1>1 DEF FrameMove, Held
  <2> QED BY <2>1, <2>2, <2>3, <2>4, <2>5
<1>3. status' = status /\ main' = main
  BY <1>1 DEF MainsIdle
<1> QED BY <1>1, <1>2, <1>3, StillHoles

LEMMA RestHoles ==
  ASSUME Holes, SessionEnds \/ UNCHANGED vars
  PROVE  Holes'
<1>1. UNCHANGED <<status, main, journal, pump>> /\ (over => over')
  BY DEF SessionEnds, vars
<1>2. AllFrames' = AllFrames
  BY <1>1, FramesKept
<1> QED BY <1>1, <1>2, StillHoles

LEMMA StepHoles ==
  ASSUME IInv, IInv', Drains, Holes, Served, [Next]_vars
  PROVE  Holes'
<1>1. \A p \in Runs : ~Refuse(p) /\ ~Overload(p)
  BY DEF Refuse, Overload, Fail, Served
<1>2. ASSUME NEW p \in Runs,
             \/ Load(p) \/ StartFails(p) \/ MainSteps(p) \/ Provider(p)
             \/ Heartbeat(p) \/ StatusFails(p) \/ PumpBreaks(p) \/ RequestStop(p) \/ Crash(p)
      PROVE  Holes'
  <2>1. ~StartFails(p) /\ ~Abort(p) /\ ~StatusFails(p) /\ ~PumpBreaks(p) /\ ~Crash(p)
        /\ ~JoinFails(p) /\ ~Exit(p)
    BY NeverInCalm DEF Served
  <2> QED BY <1>1, <1>2, <2>1, ApproachHoles, ConnectHoles, SessionHoles, AdmitHoles, DropHoles,
             EndSessionHoles, CloseHoles, ReleaseHoles, ReportHoles, LoadHoles
          DEF MainSteps, Provider
<1> QED BY <1>2, RestHoles, PumpHoles DEF Next

LEMMA InitHoles == Init => Holes
<1> SUFFICES ASSUME Init PROVE Holes
  OBVIOUS
<1>1. \A p \in Runs : main[p] = Unstarted /\ pump[p] = NoPump
  BY DEF Init
<1>2. \A p \in Runs : ~Alive(p)
  BY <1>1 DEF Alive, Unstarted
<1>3. AllFrames = {}
  BY <1>1, NoPumpIs, NoElements DEF AllFrames, Init
<1>4. \A p \in Runs : ~main[p].failing
  BY <1>1 DEF Unstarted
<1> QED BY <1>2, <1>3, <1>4 DEF Holes

(* Where runs follow one another, none dies or is refused and no write fails,   *)
(* a connection that the journal goes on from has its transport gap in the file *)
(* (transport_gaps, and the gap a pause records).                               *)
THEOREM HolesAreRecorded == Served => (Spec => []HolesAreGaps)
<1> SUFFICES ASSUME Served PROVE Spec => []HolesAreGaps
  OBVIOUS
<1>1. Calm /\ Overlap = FALSE
  BY DEF Served, Calm
<1>2. Spec => []IInv
  BY <1>1, Invariance
<1>3. Spec => []Drains
  BY <1>1, DrainsAlways
<1>4. Init => Holes
  BY InitHoles
<1>5. IInv /\ IInv' /\ Drains /\ Holes /\ [Next]_vars => Holes'
  BY StepHoles
<1>6. Holes => HolesAreGaps
  BY DEF Holes, HolesAreGaps, Named, AllFrames
<1> QED BY <1>2, <1>3, <1>4, <1>5, <1>6, PTL DEF Spec
=============================================================================
