--------------------------- MODULE RuntimeFencing ---------------------------
(* A resident role of the advanced runtime under its durable lease: the       *)
(* container that starts the role claims the lease, keeps it with a heartbeat *)
(* thread, runs the role as a child process, and writes the role's row of     *)
(* rt.advanced_realtime_service_states (advanced_realtime_fencing.py,         *)
(* run_fenced_child of run_realtime_v2_container.py).  Several containers of  *)
(* the role may start: an old and a new deployment, native and compose.       *)
EXTENDS RuntimeLeases

CONSTANTS
  Containers,   \* processes that run the role
  Interval,     \* between two heartbeats: a third of the lease
  Delay,        \* how long the statements of one heartbeat may take together
  Faults,       \* statements that may fail: the thread's "renew" and "record", the
                \* main thread's "mark" and "release"
  MaxClaims,    \* bound: claims of the lease
  MaxTime       \* bound: the clock

ASSUME FencingAssumption ==
  /\ {Interval, MaxClaims, MaxTime} \subseteq Nat \ {0}
  /\ Delay \in Nat
  /\ Faults \subseteq {"renew", "record", "mark", "release"}
  /\ None \notin Containers

\* close joins the thread for half a lease; what a heartbeat does that takes longer
\* than that, and is left behind, is not modelled.  No proof uses this.
ASSUME JoinAssumption == 2 * Delay < LeaseSeconds

VARIABLES
  now,      \* the clock of the containers and of the database
  row,      \* rt.worker_leases, the role's row
  service,  \* rt.advanced_realtime_service_states, the role's row
  main,     \* the main thread of each container
  beat,     \* its heartbeat thread
  child     \* whether its child process runs

vars == <<now, row, service, main, beat, child>>

NoService == [epoch |-> 0, observed |-> 0]
MainOff == [pc |-> "off", lease |-> NoLease, observed |-> 0, by |-> 0]
BeatOff == [pc |-> "none", at |-> 0, by |-> 0, lost |-> FALSE]

Init ==
  /\ now = 0
  /\ row = NoRow
  /\ service = NoService
  /\ main = [c \in Containers |-> MainOff]
  /\ beat = [c \in Containers |-> BeatOff]
  /\ child = [c \in Containers |-> FALSE]

-----------------------------------------------------------------------------
(* record_advanced_realtime_service_state_cursor: the lease is asserted by a  *)
(* plain SELECT, and the row written by a later statement.                    *)

\* Deliberate error: the lease is not asserted.
NotAsserted(c) == TRUE

Asserted(c) == Valid(row, main[c].lease, now)

\* The row keeps an observation that is later than this one.
Upsert(c, observed) ==
  IF service.epoch = 0 \/ service.observed <= observed
  THEN [epoch |-> main[c].lease.epoch, observed |-> observed] ELSE service

-----------------------------------------------------------------------------
(* The main thread.                                                          *)

Goto(c, pc) == main' = [main EXCEPT ![c].pc = pc]

\* PostgresLeaseHeartbeat.start; a container that finds the lease held exits.
Start(c) ==
  LET claimed == Claimed(row, c, now) IN
  /\ main[c].pc = "off" /\ row.epoch < MaxClaims
  /\ Claimable(row, now)
  /\ row' = claimed
  /\ main' = [main EXCEPT ![c] = [MainOff EXCEPT !.pc = "first", !.lease = claimed,
                                                 !.by = now + Delay]]
  /\ UNCHANGED <<now, service, beat, child>>

\* The lease is asserted, or the call raises: the first record leaves start, the
\* mark of the running role leaves the try block, the last goes on to the release.
RecordAsserts(c) ==
  /\ main[c].pc \in {"first", "mark", "last"}
  /\ \/ /\ Asserted(c)
        /\ main' = [main EXCEPT ![c].observed = now,
             ![c].pc = CASE main[c].pc = "first" -> "firstWrite"
                         [] main[c].pc = "mark" -> "markWrite"
                         [] OTHER -> "lastWrite"]
     \/ /\ ~Asserted(c) \/ "mark" \in Faults
        /\ Goto(c, IF main[c].pc = "last" THEN "release" ELSE "stop")
  /\ UNCHANGED <<now, row, service, beat, child>>

RecordWrites(c) ==
  /\ main[c].pc \in {"firstWrite", "markWrite", "lastWrite"}
  /\ service' = Upsert(c, main[c].observed)
  /\ CASE main[c].pc = "firstWrite" ->
            /\ Goto(c, "spawn")
            /\ beat' = [beat EXCEPT ![c] = [BeatOff EXCEPT !.pc = "wait", !.by = now + Interval]]
       [] main[c].pc = "markWrite" -> Goto(c, "run") /\ UNCHANGED beat
       [] OTHER -> Goto(c, "release") /\ UNCHANGED beat
  /\ UNCHANGED <<now, row, child>>

Spawn(c) ==
  /\ main[c].pc = "spawn"
  /\ child' = [child EXCEPT ![c] = TRUE]
  /\ Goto(c, "mark")
  /\ UNCHANGED <<now, row, service, beat>>

\* The child is polled; it has ended, or the stop event is set, by the heartbeat
\* thread, by a signal or because the role may sleep.
Notice(c) ==
  /\ main[c].pc = "run"
  /\ Goto(c, "stop")
  /\ UNCHANGED <<now, row, service, beat, child>>

\* Deliberate error: the heartbeat is closed and the child left alone.
LeaveChild(c) ==
  /\ main[c].pc = "stop"
  /\ Goto(c, "join")
  /\ UNCHANGED <<now, row, service, beat, child>>

\* The child is terminated and waited for, however long, and close sets the thread's stop event.
EndChild(c) ==
  /\ main[c].pc = "stop"
  /\ child' = [child EXCEPT ![c] = FALSE]
  /\ Goto(c, "join")
  /\ UNCHANGED <<now, row, service, beat>>

\* The thread is joined: it ends at once, or when its statement has ended.  After
\* a lease that was lost nothing is recorded and nothing released.
Join(c) ==
  /\ main[c].pc = "join" /\ beat[c].pc \in {"none", "wait", "dead"}
  /\ \/ /\ beat[c].lost
        /\ main' = [main EXCEPT ![c] = MainOff] /\ beat' = [beat EXCEPT ![c] = BeatOff]
     \/ ~beat[c].lost /\ Goto(c, "last") /\ beat' = [beat EXCEPT ![c] = BeatOff]
  /\ UNCHANGED <<now, row, service, child>>

Release(c) ==
  /\ main[c].pc = "release"
  /\ row' \in {ReleasedAt(row, main[c].lease, now)} \cup (IF "release" \in Faults THEN {row} ELSE {})
  /\ main' = [main EXCEPT ![c] = MainOff]
  /\ UNCHANGED <<now, service, beat, child>>

-----------------------------------------------------------------------------
(* The heartbeat thread.                                                     *)

Beat(c) ==
  /\ beat[c].pc = "wait" /\ now = beat[c].by /\ main[c].pc # "join"
  /\ beat' = [beat EXCEPT ![c].pc = "renew", ![c].at = now, ![c].by = now + Delay]
  /\ UNCHANGED <<now, row, service, main, child>>

\* Deliberate error: a heartbeat that fails is tried again at the next interval.
RetryNext(c) ==
  beat' = [beat EXCEPT ![c].pc = "wait", ![c].by = now + Interval]

\* The lease is lost: the stop event is set, now, and the thread returns.
Lose(c) ==
  beat' = [beat EXCEPT ![c].pc = "none", ![c].lost = TRUE, ![c].by = now]

Renew(c) ==
  LET valid == Valid(row, main[c].lease, beat[c].at) IN
  /\ beat[c].pc = "renew"
  /\ \/ /\ valid
        /\ row' = Renewed(row, beat[c].at)
        /\ main' = [main EXCEPT ![c].lease.until = row'.until]
        /\ beat' = [beat EXCEPT ![c].pc = "assert"]
     \/ (~valid \/ "renew" \in Faults) /\ Lose(c) /\ UNCHANGED <<row, main>>
  /\ UNCHANGED <<now, service, child>>

\* _run calls _record outside its try block: when it raises the thread ends,
\* and neither lost nor the stop event is set.
BeatAsserts(c) ==
  /\ beat[c].pc = "assert"
  /\ \/ Asserted(c) /\ beat' = [beat EXCEPT ![c].pc = "write", ![c].at = now]
     \/ (~Asserted(c) \/ "record" \in Faults) /\ beat' = [beat EXCEPT ![c].pc = "dead"]
  /\ UNCHANGED <<now, row, service, main, child>>

BeatWrites(c) ==
  /\ beat[c].pc = "write"
  /\ service' = Upsert(c, beat[c].at)
  /\ beat' = [beat EXCEPT ![c].pc = IF main[c].pc = "join" THEN "none" ELSE "wait",
                          ![c].by = now + Interval]
  /\ UNCHANGED <<now, row, main, child>>

-----------------------------------------------------------------------------
(* The environment.                                                          *)

\* The container is lost, and its child with it.
Crash(c) ==
  /\ main[c].pc # "off"
  /\ main' = [main EXCEPT ![c] = MainOff]
  /\ beat' = [beat EXCEPT ![c] = BeatOff]
  /\ child' = [child EXCEPT ![c] = FALSE]
  /\ UNCHANGED <<now, row, service>>

\* What must happen before the clock passes a time.
Due(c) ==
  \/ beat[c].pc \in {"wait", "renew", "assert", "write"} /\ beat[c].by <= now
  \/ main[c].pc \in {"first", "firstWrite"} /\ main[c].by <= now

Tick ==
  /\ now < MaxTime
  /\ \A c \in Containers : ~Due(c)
  /\ now' = now + 1
  /\ UNCHANGED <<row, service, main, beat, child>>

Step(c) ==
  \/ Start(c) \/ RecordAsserts(c) \/ RecordWrites(c) \/ Spawn(c) \/ Notice(c)
  \/ EndChild(c) \/ Join(c) \/ Release(c)
  \/ Beat(c) \/ Renew(c) \/ BeatAsserts(c) \/ BeatWrites(c) \/ Crash(c)

Next == (\E c \in Containers : Step(c)) \/ Tick

Spec == Init /\ [][Next]_vars
-----------------------------------------------------------------------------
(* Properties.                                                               *)

Rows == [owner : Containers \cup {None}, epoch : 0..MaxClaims, until : 0..(MaxTime + LeaseSeconds)]

\* The types of the variables; a container that is off leaves nothing running.
TypeOK ==
  /\ now \in 0..MaxTime
  /\ row \in Rows
  /\ service \in [epoch : 0..MaxClaims, observed : 0..MaxTime]
  /\ main \in [Containers ->
       [pc : {"off", "first", "firstWrite", "spawn", "mark", "markWrite", "run", "stop",
              "join", "last", "lastWrite", "release"},
        lease : Rows, observed : 0..MaxTime, by : Nat]]
  /\ beat \in [Containers ->
       [pc : {"none", "wait", "renew", "assert", "write", "dead"},
        at : 0..MaxTime, by : Nat, lost : BOOLEAN]]
  /\ child \in [Containers -> BOOLEAN]
  /\ \A c \in Containers : main[c].pc = "off" => beat[c] = BeatOff /\ ~child[c]

\* When the container of a working child was told to stop: at the latest now.
Told(c) == IF beat[c].lost THEN beat[c].by ELSE now

\* A container whose lease is renewed no more is told to end the child in time: not
\* later than an interval and the statements of two heartbeats after it last claimed
\* or renewed the lease, whichever statement fails and whoever claims it meanwhile.
\* It takes as long as it takes to end, and the heartbeat may be slower than the lease
\* allows.  The exception is a thread that died recording the service's state.
ToldInTime ==
  \A c \in Containers : child[c] /\ beat[c].pc # "dead" =>
    Told(c) + LeaseSeconds <= main[c].lease.until + Interval + 2 * Delay

\* So the lease is still valid, and no other container can have claimed it, as long
\* as the child takes no longer to end than an interval and two heartbeats leave of a
\* lease.
ChildUnderLease ==
  \A c \in Containers : child[c] /\ beat[c].pc # "dead" =>
    (now + Interval + 2 * Delay < Told(c) + LeaseSeconds => Valid(row, main[c].lease, now))

\* The service row tells of ever newer owners: a record of a container that has
\* been replaced, checked before it lost its lease and written after, does not
\* overwrite what its successor wrote.
ServiceEpochGrows == [][service'.epoch >= service.epoch]_vars
=============================================================================
