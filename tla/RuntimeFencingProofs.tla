------------------------ MODULE RuntimeFencingProofs ------------------------
(* What RuntimeFencing keeps for any number of containers, any durations of a  *)
(* lease, an interval and a heartbeat, and any statements that fail: the       *)
(* inductive invariant, and the proof that every step keeps it.                *)
EXTENDS RuntimeFencing, TLAPS

Epoch(c) == main[c].lease.epoch

(* Where the main thread is tells what else the container has running. *)
Placed(c) ==
  /\ main[c].pc \in {"off", "first", "firstWrite", "last", "lastWrite", "release"} =>
       beat[c] = BeatOff
  /\ main[c].pc \in {"off", "first", "firstWrite", "spawn", "join", "last", "lastWrite",
                     "release"} => ~child[c]
  /\ child[c] \/ main[c].pc = "spawn" => beat[c].pc # "none" \/ beat[c].lost
  /\ beat[c].lost => beat[c].pc = "none"
  /\ beat[c].at <= now

(* A container's lease is its own; it is what the row says until the next claim, *)
(* which comes only when it has run out.                                         *)
LeaseKnown(c) ==
  main[c].pc # "off" =>
    /\ main[c].lease.owner = c
    /\ Epoch(c) \in 1..row.epoch
    /\ Epoch(c) = row.epoch => row.owner = c /\ row.until = main[c].lease.until
    /\ Epoch(c) < row.epoch => main[c].lease.until <= now

Held(c) == main[c].pc # "off" /\ Epoch(c) = row.epoch

(* What is left of its lease, by what the container is about to do. *)
LeaseTimed(c) ==
  LET until == main[c].lease.until IN
  /\ main[c].pc \in {"first", "firstWrite"} =>
       until >= main[c].by - Delay + LeaseSeconds /\ now <= main[c].by
  /\ beat[c].pc = "wait" =>
       until >= beat[c].by - Interval - Delay + LeaseSeconds /\ now <= beat[c].by
  /\ beat[c].pc = "renew" =>
       /\ until >= beat[c].at - Interval - Delay + LeaseSeconds
       /\ until <= beat[c].at + LeaseSeconds
       /\ beat[c].by = beat[c].at + Delay /\ now <= beat[c].by
  /\ beat[c].pc \in {"assert", "write"} =>
       until >= beat[c].by - Delay + LeaseSeconds /\ now <= beat[c].by
  /\ beat[c].lost =>
       until + Interval + 2 * Delay >= beat[c].by + LeaseSeconds /\ beat[c].by <= now

(* A record that was asserted at t and is not written yet. *)
Pending(c, t) ==
  \/ main[c].pc \in {"firstWrite", "markWrite", "lastWrite"} /\ t = main[c].observed
  \/ beat[c].pc = "write" /\ t = beat[c].at

(* It was asserted before its lease ran out, and whatever a later claim recorded *)
(* was observed after it.                                                        *)
RecordsFenced(c) ==
  \A t \in 0..MaxTime : Pending(c, t) =>
    /\ Epoch(c) = row.epoch => t < row.until
    /\ Epoch(c) < row.epoch => t < now
    /\ Epoch(c) < service.epoch => t < service.observed

RecordsOrdered ==
  \A c, d \in Containers : \A t, u \in 0..MaxTime :
    Pending(c, t) /\ Pending(d, u) /\ Epoch(c) < Epoch(d) => t < u

Local(c) == Placed(c) /\ LeaseKnown(c) /\ LeaseTimed(c)

IInv ==
  /\ TypeOK
  /\ row.until <= now + LeaseSeconds
  /\ service.epoch <= row.epoch
  /\ \A c \in Containers : Local(c) /\ RecordsFenced(c)
  /\ RecordsOrdered

-----------------------------------------------------------------------------
(* Types.                                                                    *)

Mains == [pc : {"off", "first", "firstWrite", "spawn", "mark", "markWrite", "run", "stop",
                "join", "last", "lastWrite", "release"},
          lease : Rows, observed : 0..MaxTime, by : Nat]
Beats == [pc : {"none", "wait", "renew", "assert", "write", "dead"},
          at : 0..MaxTime, by : Nat, lost : BOOLEAN]

LEMMA OffTyped == NoRow \in Rows /\ MainOff \in Mains /\ BeatOff \in Beats
<1>1. NoRow \in Rows
  BY LeaseAssumption, FencingAssumption DEF NoRow, Rows
<1> QED BY <1>1, FencingAssumption DEF NoLease, Mains, MainOff, Beats, BeatOff

LEMMA InitType == Init => TypeOK
BY OffTyped, FencingAssumption DEF Init, TypeOK, NoService, Mains, Beats, MainOff

(* What a step of one container changes: its own locals, the row and the service. *)
MainTyped(c) ==
  main' \in [Containers -> Mains] /\ \A d \in Containers \ {c} : main'[d] = main[d]
BeatTyped(c) ==
  beat' \in [Containers -> Beats] /\ \A d \in Containers \ {c} : beat'[d] = beat[d]
ChildTyped(c) ==
  child' \in [Containers -> BOOLEAN] /\ \A d \in Containers \ {c} : child'[d] = child[d]
Services == [epoch : 0..MaxClaims, observed : 0..MaxTime]
StepTyped(c) ==
  /\ MainTyped(c) /\ BeatTyped(c) /\ ChildTyped(c)
  /\ row' \in Rows /\ service' \in Services /\ now' = now

LEMMA Shapes ==
  ASSUME TypeOK
  PROVE  /\ now \in 0..MaxTime /\ row \in Rows /\ service \in Services
         /\ main \in [Containers -> Mains] /\ beat \in [Containers -> Beats]
         /\ child \in [Containers -> BOOLEAN]
BY DEF TypeOK, Services, Mains, Beats

LEMMA Stays ==
  ASSUME TypeOK, NEW c \in Containers
  PROVE  /\ UNCHANGED main => MainTyped(c)
         /\ UNCHANGED beat => BeatTyped(c)
         /\ UNCHANGED child => ChildTyped(c)
BY Shapes DEF MainTyped, BeatTyped, ChildTyped

LEMMA Becomes ==
  ASSUME TypeOK, NEW c \in Containers
  PROVE  /\ \A m \in Mains : main' = [main EXCEPT ![c] = m] => MainTyped(c)
         /\ \A b \in Beats : beat' = [beat EXCEPT ![c] = b] => BeatTyped(c)
         /\ \A b \in BOOLEAN : child' = [child EXCEPT ![c] = b] => ChildTyped(c)
BY Shapes DEF MainTyped, BeatTyped, ChildTyped

LEMMA Goes ==
  ASSUME TypeOK, NEW c \in Containers,
         NEW pc \in {"off", "first", "firstWrite", "spawn", "mark", "markWrite", "run", "stop",
                     "join", "last", "lastWrite", "release"},
         Goto(c, pc)
  PROVE  MainTyped(c)
<1>1. [main[c] EXCEPT !.pc = pc] \in Mains BY Shapes DEF Mains
<1>2. main' = [main EXCEPT ![c] = [main[c] EXCEPT !.pc = pc]] BY Shapes DEF Goto
<1> QED BY <1>1, <1>2, Becomes

LEMMA StartTyped ==
  ASSUME TypeOK, NEW c \in Containers, Start(c)
  PROVE  StepTyped(c)
<1>1. Claimed(row, c, now) \in Rows
  BY Shapes, LeaseAssumption, FencingAssumption DEF Rows, Claimed, Start
<1>2. now + Delay \in Nat BY Shapes, FencingAssumption
<1>3. [MainOff EXCEPT !.pc = "first", !.lease = Claimed(row, c, now), !.by = now + Delay]
        \in Mains
  BY <1>1, <1>2, OffTyped DEF Mains, MainOff
<1>4. MainTyped(c) BY <1>3, Becomes DEF Start
<1> QED BY <1>1, <1>4, Shapes, Stays DEF Start, StepTyped

LEMMA RecordAssertsTyped ==
  ASSUME TypeOK, NEW c \in Containers, RecordAsserts(c)
  PROVE  StepTyped(c)
<1>1. MainTyped(c)
  <2>1. ASSUME NEW pc \in {"firstWrite", "markWrite", "lastWrite"},
               main' = [main EXCEPT ![c].observed = now, ![c].pc = pc]
        PROVE  MainTyped(c)
    <3>1. [main[c] EXCEPT !.observed = now, !.pc = pc] \in Mains BY Shapes DEF Mains
    <3>2. main' = [main EXCEPT ![c] = [main[c] EXCEPT !.observed = now, !.pc = pc]]
      BY <2>1, Shapes
    <3> QED BY <3>1, <3>2, Becomes
  <2>2. CASE Goto(c, "release") \/ Goto(c, "stop") BY <2>2, Goes
  <2> QED BY <2>1, <2>2 DEF RecordAsserts
<1> QED BY <1>1, Shapes, Stays DEF RecordAsserts, StepTyped

LEMMA UpsertTyped ==
  ASSUME TypeOK, NEW c \in Containers, NEW t \in 0..MaxTime
  PROVE  Upsert(c, t) \in Services
BY Shapes DEF Upsert, Rows, Services, Mains

LEMMA RecordWritesTyped ==
  ASSUME TypeOK, NEW c \in Containers, RecordWrites(c)
  PROVE  StepTyped(c)
<1>1. service' \in Services BY Shapes, UpsertTyped DEF RecordWrites, Mains
<1>2. [BeatOff EXCEPT !.pc = "wait", !.by = now + Interval] \in Beats
  <2>1. now + Interval \in Nat BY Shapes, FencingAssumption
  <2> QED BY <2>1, OffTyped DEF Beats, BeatOff
<1>3. MainTyped(c) /\ BeatTyped(c)
  BY <1>2, Goes, Stays, Becomes DEF RecordWrites
<1> QED BY <1>1, <1>3, Shapes, Stays DEF RecordWrites, StepTyped

LEMMA MainStepsTyped ==
  ASSUME TypeOK, NEW c \in Containers,
         Spawn(c) \/ Notice(c) \/ EndChild(c) \/ Join(c) \/ Crash(c)
  PROVE  StepTyped(c)
<1>1. CASE Spawn(c) BY <1>1, Shapes, Stays, Goes, Becomes DEF Spawn, StepTyped
<1>2. CASE Notice(c) BY <1>2, Shapes, Stays, Goes DEF Notice, StepTyped
<1>3. CASE EndChild(c) BY <1>3, Shapes, Stays, Goes, Becomes DEF EndChild, StepTyped
<1>4. CASE Join(c) BY <1>4, OffTyped, Shapes, Stays, Goes, Becomes DEF Join, StepTyped
<1>5. CASE Crash(c) BY <1>5, OffTyped, Shapes, Stays, Becomes DEF Crash, StepTyped
<1> QED BY <1>1, <1>2, <1>3, <1>4, <1>5

LEMMA ReleaseTyped ==
  ASSUME TypeOK, NEW c \in Containers, Release(c)
  PROVE  StepTyped(c)
<1>1. [row EXCEPT !.until = now] \in Rows
  BY Shapes, LeaseAssumption, FencingAssumption DEF Rows
<1>2. row' \in Rows BY <1>1, Shapes DEF Release, ReleasedAt
<1> QED BY <1>2, OffTyped, Shapes, Stays, Becomes DEF Release, StepTyped

LEMMA RenewTyped ==
  ASSUME TypeOK, NEW c \in Containers, Renew(c)
  PROVE  StepTyped(c)
<1>1. Renewed(row, beat[c].at) \in Rows
  BY Shapes, LeaseAssumption, FencingAssumption DEF Rows, Renewed, Beats
<1>2. CASE /\ row' = Renewed(row, beat[c].at)
           /\ main' = [main EXCEPT ![c].lease.until = row'.until]
           /\ beat' = [beat EXCEPT ![c].pc = "assert"]
  <2> DEFINE lease == [main[c].lease EXCEPT !.until = row'.until]
  <2>1. main' = [main EXCEPT ![c] = [main[c] EXCEPT !.lease = lease]] BY <1>2, Shapes
  <2>2. lease \in Rows BY <1>1, <1>2, Shapes DEF Mains, Rows
  <2>3. [main[c] EXCEPT !.lease = lease] \in Mains BY <2>2, Shapes DEF Mains
  <2>4. [beat[c] EXCEPT !.pc = "assert"] \in Beats BY Shapes DEF Beats
  <2>5. beat' = [beat EXCEPT ![c] = [beat[c] EXCEPT !.pc = "assert"]] BY <1>2, Shapes
  <2> QED BY <1>1, <1>2, <2>1, <2>3, <2>4, <2>5, Shapes, Stays, Becomes DEF Renew, StepTyped
<1>3. CASE Lose(c) /\ UNCHANGED <<row, main>>
  <2> DEFINE lost == [beat[c] EXCEPT !.pc = "none", !.lost = TRUE, !.by = now]
  <2>1. lost \in Beats
    <3>1. now \in Nat BY Shapes, FencingAssumption
    <3> QED BY <3>1, Shapes DEF Beats
  <2>2. beat' = [beat EXCEPT ![c] = lost] BY <1>3, Shapes DEF Lose
  <2> QED BY <1>3, <2>1, <2>2, Shapes, Stays, Becomes DEF Renew, StepTyped
<1> QED BY <1>2, <1>3 DEF Renew

LEMMA BeatStepsTyped ==
  ASSUME TypeOK, NEW c \in Containers, Beat(c) \/ BeatAsserts(c) \/ BeatWrites(c)
  PROVE  StepTyped(c)
<1>1. BeatTyped(c)
  <2>1. PICK b : b = beat'[c] OBVIOUS
  <2>2. b \in Beats
    BY <2>1, Shapes, FencingAssumption DEF Beat, BeatAsserts, BeatWrites, Beats
  <2>3. beat' = [beat EXCEPT ![c] = b] BY <2>1, Shapes DEF Beat, BeatAsserts, BeatWrites
  <2> QED BY <2>2, <2>3, Becomes
<1>2. service' \in Services BY Shapes, UpsertTyped DEF Beat, BeatAsserts, BeatWrites, Beats
<1> QED BY <1>1, <1>2, Shapes, Stays DEF Beat, BeatAsserts, BeatWrites, StepTyped

LEMMA StepsTyped ==
  ASSUME TypeOK, NEW c \in Containers, Step(c)
  PROVE  StepTyped(c)
BY StartTyped, RecordAssertsTyped, RecordWritesTyped, MainStepsTyped, ReleaseTyped,
   RenewTyped, BeatStepsTyped DEF Step

-----------------------------------------------------------------------------
(* A step of one container keeps what the others know.                       *)

(* The row is left alone, changed under the container's own lease, or claimed *)
(* after it lapsed.                                                           *)
RowStep(c) ==
  /\ row'.until <= now + LeaseSeconds
  /\ \/ row' = row
     \/ Held(c) /\ row'.owner = row.owner /\ row'.epoch = row.epoch
     \/ row'.owner = c /\ row'.epoch = row.epoch + 1 /\ (row.epoch = 0 \/ row.until <= now)

LEMMA RowSteps ==
  ASSUME IInv, NEW c \in Containers, Step(c)
  PROVE  RowStep(c)
<1>1. CASE Start(c)
  BY <1>1, Shapes, LeaseAssumption, FencingAssumption
  DEF IInv, Start, Claimable, Claimed, RowStep, Rows
<1>2. CASE Release(c)
  <2>1. CASE row' = row BY <2>1, Shapes DEF IInv, RowStep
  <2>2. CASE row' = [row EXCEPT !.until = now] /\ Owns(row, main[c].lease)
    <3>1. row'.until = now /\ row'.owner = row.owner /\ row'.epoch = row.epoch
      BY <2>2, Shapes DEF Rows
    <3>2. Held(c) BY <1>2, <2>2 DEF Release, Owns, Held, Epoch
    <3> QED BY <3>1, <3>2, Shapes, LeaseAssumption, FencingAssumption DEF IInv, RowStep
  <2> QED BY <1>2, <2>1, <2>2 DEF Release, ReleasedAt
<1>3. CASE Renew(c)
  <2>1. CASE row' = row BY <2>1, Shapes DEF IInv, RowStep
  <2>2. CASE row' = Renewed(row, beat[c].at) /\ Valid(row, main[c].lease, beat[c].at)
    <3>1. /\ row'.until = beat[c].at + LeaseSeconds
          /\ row'.owner = row.owner /\ row'.epoch = row.epoch
      BY <2>2, Shapes DEF IInv, Rows, Renewed
    <3>2. Held(c)
      <4>1. main[c].pc # "off" BY <1>3 DEF IInv, Local, Placed, Renew, BeatOff
      <4> QED BY <2>2, <4>1 DEF Valid, Owns, Held, Epoch
    <3>3. beat[c].at <= now
      BY <1>3, Shapes DEF IInv, Local, Placed, Beats
    <3> QED BY <3>1, <3>2, <3>3, Shapes, LeaseAssumption, FencingAssumption
            DEF IInv, RowStep, Beats
  <2> QED BY <1>3, <2>1, <2>2 DEF Renew
<1>4. CASE UNCHANGED row BY <1>4, Shapes DEF IInv, RowStep
<1> QED BY <1>1, <1>2, <1>3, <1>4
        DEF Step, RecordAsserts, RecordWrites, Spawn, Notice, EndChild, Join, Beat,
            BeatAsserts, BeatWrites, Crash

LEMMA OthersKeepLocal ==
  ASSUME IInv, NEW c \in Containers, StepTyped(c), RowStep(c), NEW d \in Containers \ {c}
  PROVE  Local(d)'
<1>1. /\ main'[d] = main[d] /\ beat'[d] = beat[d] /\ child'[d] = child[d]
      /\ Epoch(d)' = Epoch(d) /\ now' = now
  BY DEF StepTyped, MainTyped, BeatTyped, ChildTyped, Epoch
<1>2. Placed(d)' BY <1>1 DEF IInv, Local, Placed
<1>3. LeaseKnown(d)'
  <2>1. CASE row' = row BY <1>1, <2>1 DEF IInv, Local, LeaseKnown, Epoch
  <2>2. CASE Held(c) /\ row'.owner = row.owner /\ row'.epoch = row.epoch
    <3>1. ~Held(d) BY <2>2 DEF IInv, Local, LeaseKnown, Held, Epoch
    <3> QED BY <1>1, <2>2, <3>1 DEF IInv, Local, LeaseKnown, Held, Epoch
  <2>3. CASE row'.epoch = row.epoch + 1 /\ (row.epoch = 0 \/ row.until <= now)
    <3>1. row.epoch \in Nat /\ (main[d].pc # "off" => Epoch(d) \in 1..row.epoch)
      BY Shapes DEF IInv, Local, LeaseKnown, Rows
    <3> QED BY <1>1, <2>3, <3>1 DEF IInv, Local, LeaseKnown, Epoch
  <2> QED BY <2>1, <2>2, <2>3 DEF RowStep
<1>4. LeaseTimed(d)' BY <1>1 DEF IInv, Local, LeaseTimed
<1> QED BY <1>2, <1>3, <1>4 DEF Local

-----------------------------------------------------------------------------
(* A step of a container keeps what it knows itself.                         *)

LEMMA StartKeeps ==
  ASSUME IInv, NEW c \in Containers, Start(c)
  PROVE  Local(c)'
<1> DEFINE m == [MainOff EXCEPT !.pc = "first", !.lease = Claimed(row, c, now), !.by = now + Delay]
<1>1. /\ main'[c] = m /\ row' = Claimed(row, c, now)
      /\ UNCHANGED <<now, beat, child>> /\ beat[c] = BeatOff /\ ~child[c]
  BY Shapes DEF IInv, Local, Placed, Start
<1>2. /\ main'[c].pc = "first" /\ main'[c].lease = row' /\ main'[c].by = now + Delay
      /\ row'.owner = c /\ row'.epoch = row.epoch + 1 /\ row'.until = now + LeaseSeconds
  BY <1>1 DEF MainOff, Claimed
<1> HIDE DEF m
<1>3. Placed(c)' BY <1>1, <1>2, Shapes DEF IInv, Local, Placed, BeatOff
<1>4. LeaseKnown(c)' BY <1>2, Shapes DEF IInv, LeaseKnown, Epoch, Rows
<1>5. LeaseTimed(c)'
  BY <1>1, <1>2, Shapes, FencingAssumption, LeaseAssumption
  DEF IInv, LeaseTimed, BeatOff
<1> QED BY <1>3, <1>4, <1>5 DEF Local

(* The steps that change nothing of the lease. *)
LEMMA KnownStays ==
  ASSUME IInv, NEW c \in Containers,
         main'[c].pc = "off" \/ main[c].pc # "off",
         main'[c].pc = "off" \/ main'[c].lease = main[c].lease,
         UNCHANGED <<row, now>>
  PROVE  LeaseKnown(c)'
BY DEF IInv, Local, LeaseKnown, Epoch

LEMMA MainKeeps ==
  ASSUME IInv, NEW c \in Containers,
         RecordAsserts(c) \/ RecordWrites(c) \/ Spawn(c) \/ Notice(c) \/ EndChild(c)
         \/ Join(c) \/ Crash(c)
  PROVE  Local(c)'
<1>1. CASE RecordAsserts(c)
  <2>1. /\ main'[c].pc \in {"firstWrite", "markWrite", "lastWrite", "release", "stop"}
        /\ main[c].pc = "first" => main'[c].pc \in {"firstWrite", "stop"}
        /\ main[c].pc = "mark" => main'[c].pc \in {"markWrite", "stop"}
        /\ main[c].pc = "last" => main'[c].pc \in {"lastWrite", "release"}
        /\ main'[c].lease = main[c].lease /\ main'[c].by = main[c].by
        /\ main[c].pc \in {"first", "mark", "last"}
    BY <1>1, Shapes DEF IInv, RecordAsserts, Goto, Mains
  <2>2. UNCHANGED <<now, row, beat, child>> BY <1>1 DEF RecordAsserts
  <2>3. Placed(c)' BY <2>1, <2>2 DEF IInv, Local, Placed, BeatOff
  <2>4. LeaseKnown(c)' BY <2>1, <2>2, KnownStays
  <2>5. LeaseTimed(c)' BY <2>1, <2>2, <2>4 DEF IInv, Local, LeaseTimed
  <2> QED BY <2>3, <2>4, <2>5 DEF Local
<1>2. CASE RecordWrites(c)
  <2>1. /\ UNCHANGED <<now, row, child>> /\ main'[c].lease = main[c].lease
        /\ main[c].pc \in {"firstWrite", "markWrite", "lastWrite"}
        /\ main[c].pc = "firstWrite" =>
             /\ main'[c].pc = "spawn"
             /\ beat'[c] = [BeatOff EXCEPT !.pc = "wait", !.by = now + Interval]
        /\ main[c].pc = "markWrite" => main'[c].pc = "run" /\ beat'[c] = beat[c]
        /\ main[c].pc = "lastWrite" => main'[c].pc = "release" /\ beat'[c] = beat[c]
    BY <1>2, Shapes DEF IInv, RecordWrites, Goto, Mains
  <2>2. LeaseKnown(c)' BY <2>1, KnownStays
  <2>3. CASE main[c].pc = "firstWrite"
    <3>1. beat'[c].pc = "wait" /\ beat'[c].by = now + Interval /\ ~beat'[c].lost /\ beat'[c].at = 0
      BY <2>1, <2>3 DEF BeatOff
    <3>2. Placed(c)' BY <2>1, <2>3, <3>1, Shapes DEF IInv, Local, Placed
    <3>3. LeaseTimed(c)'
      BY <2>1, <2>2, <2>3, <3>1, Shapes, FencingAssumption, LeaseAssumption
      DEF IInv, Local, LeaseTimed, Mains, Rows
    <3> QED BY <2>2, <3>2, <3>3 DEF Local
  <2>4. CASE main[c].pc # "firstWrite"
    <3>1. Placed(c)' BY <2>1, <2>4 DEF IInv, Local, Placed, BeatOff
    <3>2. LeaseTimed(c)' BY <2>1, <2>2, <2>4 DEF IInv, Local, LeaseTimed
    <3> QED BY <2>2, <3>1, <3>2 DEF Local
  <2> QED BY <2>3, <2>4
<1>3. CASE Spawn(c) \/ Notice(c) \/ EndChild(c)
  <2>1. /\ UNCHANGED <<now, row, beat>> /\ main'[c].lease = main[c].lease
        /\ \/ main[c].pc = "spawn" /\ main'[c].pc = "mark" /\ child'[c] = TRUE
           \/ main[c].pc = "run" /\ main'[c].pc = "stop" /\ child'[c] = child[c]
           \/ main[c].pc = "stop" /\ main'[c].pc = "join" /\ child'[c] = FALSE
    BY <1>3, Shapes DEF IInv, Spawn, Notice, EndChild, Goto, Mains
  <2>2. LeaseKnown(c)' BY <2>1, KnownStays
  <2>3. Placed(c)' BY <2>1 DEF IInv, Local, Placed, BeatOff
  <2>4. LeaseTimed(c)' BY <2>1, <2>2 DEF IInv, Local, LeaseTimed
  <2> QED BY <2>2, <2>3, <2>4 DEF Local
<1>4. CASE Join(c) \/ Crash(c)
  <2>1. /\ UNCHANGED <<now, row>> /\ main[c].pc # "off"
        /\ beat'[c] = BeatOff /\ child'[c] = FALSE
    <3>1. child[c] \in BOOLEAN BY Shapes DEF IInv
    <3>2. main[c].pc = "join" => child[c] = FALSE BY <3>1 DEF IInv, Local, Placed
    <3> QED BY <1>4, <3>2, Shapes DEF IInv, Join, Crash
  <2>4. main'[c] = MainOff \/ (main'[c].pc = "last" /\ main'[c].lease = main[c].lease)
    <3>1. CASE main' = [main EXCEPT ![c] = MainOff] BY <3>1, Shapes DEF IInv
    <3>2. CASE Goto(c, "last") BY <3>2, Shapes DEF IInv, Goto, Mains
    <3> QED BY <1>4, <3>1, <3>2 DEF Join, Crash
  <2>2. LeaseKnown(c)' BY <2>1, <2>4, KnownStays DEF MainOff
  <2>3. Placed(c)' /\ LeaseTimed(c)'
    BY <2>1, <2>4, Shapes DEF IInv, Placed, LeaseTimed, MainOff, BeatOff
  <2> QED BY <2>2, <2>3 DEF Local
<1> QED BY <1>1, <1>2, <1>3, <1>4

LEMMA ReleaseKeeps ==
  ASSUME IInv, NEW c \in Containers, Release(c)
  PROVE  Local(c)'
<1>1. /\ main'[c] = MainOff /\ beat'[c] = BeatOff /\ ~child'[c] /\ now' = now
  BY Shapes DEF IInv, Local, Placed, Release
<1> QED BY <1>1, Shapes DEF IInv, Local, Placed, LeaseKnown, LeaseTimed, MainOff, BeatOff

LEMMA RenewKeeps ==
  ASSUME IInv, NEW c \in Containers, Renew(c)
  PROVE  Local(c)'
<1>0. /\ beat[c].pc = "renew" /\ UNCHANGED <<now, child>>
      /\ main[c].lease.until >= beat[c].at - Interval - Delay + LeaseSeconds
      /\ beat[c].by = beat[c].at + Delay /\ now <= beat[c].by /\ ~beat[c].lost
  BY DEF IInv, Local, LeaseTimed, Placed, Renew
<1>1. CASE /\ row' = Renewed(row, beat[c].at)
           /\ main' = [main EXCEPT ![c].lease.until = row'.until]
           /\ beat' = [beat EXCEPT ![c].pc = "assert"]
           /\ Valid(row, main[c].lease, beat[c].at)
  <2>1. /\ row'.until = beat[c].at + LeaseSeconds
        /\ row'.owner = row.owner /\ row'.epoch = row.epoch
    BY <1>1, Shapes DEF IInv, Rows, Renewed
  <2>2. /\ main'[c].pc = main[c].pc /\ main'[c].by = main[c].by
        /\ main'[c].lease.owner = main[c].lease.owner /\ Epoch(c)' = Epoch(c)
        /\ main'[c].lease.until = row'.until /\ Epoch(c) = row.epoch
        /\ beat'[c].pc = "assert" /\ beat'[c].by = beat[c].by /\ beat'[c].at = beat[c].at
        /\ beat'[c].lost = beat[c].lost
    BY <1>1, Shapes DEF IInv, Mains, Rows, Beats, Epoch, Valid, Owns
  <2>3. Placed(c)' BY <1>0, <2>2 DEF IInv, Local, Placed, BeatOff
  <2>4. LeaseKnown(c)' BY <1>0, <2>1, <2>2 DEF IInv, Local, LeaseKnown
  <2>5. main[c].pc \notin {"first", "firstWrite"} BY <1>0 DEF IInv, Local, Placed, BeatOff
  <2>6. LeaseTimed(c)'
    BY <1>0, <2>1, <2>2, <2>5, Shapes, FencingAssumption, LeaseAssumption
    DEF IInv, LeaseTimed, Beats
  <2> QED BY <2>3, <2>4, <2>6 DEF Local
<1>2. CASE Lose(c) /\ UNCHANGED <<row, main>>
  <2>1. /\ beat'[c].pc = "none" /\ beat'[c].lost /\ beat'[c].by = now
        /\ beat'[c].at = beat[c].at /\ main'[c] = main[c] /\ row' = row /\ now' = now
    BY <1>0, <1>2, Shapes DEF IInv, Lose, Beats
  <2>2. Placed(c)' BY <1>0, <2>1 DEF IInv, Local, Placed, BeatOff
  <2>3. LeaseKnown(c)' BY <2>1 DEF IInv, Local, LeaseKnown, Epoch
  <2>4. main[c].pc \notin {"first", "firstWrite"} BY <1>0 DEF IInv, Local, Placed, BeatOff
  <2>5. main[c].lease.until \in Nat /\ now \in Nat /\ beat[c].at \in Nat
    BY Shapes, FencingAssumption, LeaseAssumption DEF IInv, Mains, Beats, Rows
  <2>6. LeaseTimed(c)'
    BY <1>0, <2>1, <2>4, <2>5, FencingAssumption, LeaseAssumption DEF LeaseTimed
  <2> QED BY <2>2, <2>3, <2>6 DEF Local
<1> QED BY <1>1, <1>2 DEF Renew

LEMMA BeatKeeps ==
  ASSUME IInv, NEW c \in Containers, Beat(c) \/ BeatAsserts(c) \/ BeatWrites(c)
  PROVE  Local(c)'
<1>0. /\ UNCHANGED <<now, row, main, child>>
      /\ beat[c].pc \in {"wait", "assert", "write"} /\ ~beat[c].lost
      /\ main[c].pc \notin {"off", "first", "firstWrite", "last", "lastWrite", "release"}
  BY DEF IInv, Local, Placed, BeatOff, Beat, BeatAsserts, BeatWrites
<1>1. LeaseKnown(c)' BY <1>0, KnownStays
<1>2. CASE Beat(c)
  <2>1. /\ beat[c].pc = "wait" /\ now = beat[c].by /\ beat'[c].pc = "renew"
        /\ beat'[c].at = now /\ beat'[c].by = now + Delay /\ ~beat'[c].lost
    BY <1>0, <1>2, Shapes DEF IInv, Beat, Beats
  <2>2. Placed(c)' BY <1>0, <2>1, Shapes DEF IInv, Local, Placed
  <2>3. main[c].lease.until <= now + LeaseSeconds
    <3>1. /\ now \in Nat /\ main[c].lease.until \in Nat /\ row.epoch \in Nat
          /\ LeaseSeconds \in Nat
      BY <1>0, Shapes, FencingAssumption, LeaseAssumption DEF IInv, Rows, Mains
    <3>2. Epoch(c) = row.epoch \/ Epoch(c) < row.epoch
      BY <1>0, <3>1 DEF IInv, Local, LeaseKnown
    <3> QED BY <1>0, <3>1, <3>2 DEF IInv, Local, LeaseKnown
  <2>4. LeaseTimed(c)'
    BY <1>0, <2>1, <2>3, Shapes, FencingAssumption DEF IInv, Local, LeaseTimed
  <2> QED BY <1>1, <2>2, <2>4 DEF Local
<1>3. CASE BeatAsserts(c)
  <2>1. /\ beat[c].pc = "assert" /\ beat'[c].pc \in {"write", "dead"} /\ ~beat'[c].lost
        /\ beat'[c].at \in {now, beat[c].at} /\ beat'[c].by = beat[c].by
    BY <1>0, <1>3, Shapes DEF IInv, BeatAsserts, Beats
  <2>2. Placed(c)' BY <1>0, <2>1, Shapes DEF IInv, Local, Placed
  <2>3. LeaseTimed(c)' BY <1>0, <1>1, <2>1 DEF IInv, Local, LeaseTimed
  <2> QED BY <1>1, <2>2, <2>3 DEF Local
<1>4. CASE BeatWrites(c)
  <2>1. /\ beat[c].pc = "write" /\ ~beat'[c].lost
        /\ beat'[c].pc = IF main[c].pc = "join" THEN "none" ELSE "wait"
        /\ beat'[c].at = beat[c].at /\ beat'[c].by = now + Interval
    BY <1>0, <1>4, Shapes DEF IInv, BeatWrites, Beats
  <2>2. Placed(c)' BY <1>0, <2>1, Shapes DEF IInv, Local, Placed
  <2>3. LeaseTimed(c)'
    BY <1>0, <2>1, Shapes, FencingAssumption, LeaseAssumption
    DEF IInv, Local, LeaseTimed, Beats, Mains, Rows
  <2> QED BY <1>1, <2>2, <2>3 DEF Local
<1> QED BY <1>2, <1>3, <1>4

LEMMA StepKeepsLocal ==
  ASSUME IInv, NEW c \in Containers, Step(c)
  PROVE  \A d \in Containers : Local(d)'
<1>1. Local(c)'
  BY StartKeeps, MainKeeps, ReleaseKeeps, RenewKeeps, BeatKeeps DEF Step
<1>2. StepTyped(c) /\ RowStep(c) BY StepsTyped, RowSteps DEF IInv
<1> QED BY <1>1, <1>2, OthersKeepLocal

-----------------------------------------------------------------------------
(* A step of a container keeps the records in order.                         *)

(* A record comes to be pending by an assertion, and only then. *)
RecordStep(c) ==
  \A t \in 0..MaxTime : Pending(c, t)' =>
    /\ Epoch(c)' = Epoch(c)
    /\ Pending(c, t) \/ (t = now /\ Asserted(c) /\ UNCHANGED <<row, service>>)

(* The service's row is left alone, or takes a record that was pending. *)
ServiceStep(c) ==
  \/ service' = service
  \/ \E t \in 0..MaxTime : Pending(c, t) /\ service' = Upsert(c, t)

(* Only the owner of a lease that has nothing pending gives it up early. *)
NoneCut(c) ==
  row'.epoch = row.epoch =>
    \/ row'.until >= row.until
    \/ \A d \in Containers, t \in 0..MaxTime : Pending(d, t) => Epoch(d) # row.epoch

LEMMA RecordSteps ==
  ASSUME IInv, NEW c \in Containers, Step(c)
  PROVE  RecordStep(c)
<1>1. CASE main'[c].pc \notin {"firstWrite", "markWrite", "lastWrite"} /\ beat'[c].pc # "write"
  BY <1>1 DEF RecordStep, Pending
<1>2. CASE RecordAsserts(c)
  <2>1. beat' = beat /\ UNCHANGED <<row, service>> /\ Epoch(c)' = Epoch(c)
    BY <1>2, Shapes DEF IInv, RecordAsserts, Goto, Mains, Epoch
  <2>2. main'[c].pc \in {"firstWrite", "markWrite", "lastWrite"} => main'[c].observed = now /\ Asserted(c)
    BY <1>2, Shapes DEF IInv, RecordAsserts, Goto, Mains
  <2> QED BY <2>1, <2>2 DEF RecordStep, Pending
<1>3. CASE RecordWrites(c) \/ Spawn(c) \/ Notice(c) \/ EndChild(c)
  <2>1. main'[c].pc \notin {"firstWrite", "markWrite", "lastWrite"} /\ Epoch(c)' = Epoch(c)
    BY <1>3, Shapes DEF IInv, RecordWrites, Spawn, Notice, EndChild, Goto, Mains, Epoch
  <2>2. beat'[c] = beat[c] \/ beat'[c].pc = "wait"
    BY <1>3, Shapes DEF IInv, RecordWrites, Spawn, Notice, EndChild, BeatOff
  <2> QED BY <2>1, <2>2 DEF RecordStep, Pending
<1>4. CASE Start(c) \/ Join(c) \/ Crash(c) \/ Release(c)
  <2>1. beat'[c] = BeatOff
    BY <1>4, Shapes DEF IInv, Local, Placed, Start, Join, Crash, Release
  <2>2. main'[c].pc \in {"off", "first", "last"}
    <3>1. CASE main' = [main EXCEPT ![c] = MainOff] BY <3>1, Shapes DEF IInv, MainOff
    <3>2. CASE Goto(c, "last") BY <3>2, Shapes DEF IInv, Goto, Mains
    <3>3. CASE Start(c) BY <3>3, Shapes DEF IInv, Start, MainOff
    <3> QED BY <1>4, <3>1, <3>2, <3>3 DEF Join, Crash, Release
  <2> QED BY <2>1, <2>2, <1>1 DEF BeatOff
<1>5. CASE Renew(c)
  <2>1. beat'[c].pc \in {"assert", "none"} BY <1>5, Shapes DEF IInv, Renew, Lose, Beats
  <2>2. /\ main'[c].pc = main[c].pc /\ main'[c].observed = main[c].observed
        /\ Epoch(c)' = Epoch(c)
    BY <1>5, Shapes DEF IInv, Renew, Mains, Rows, Epoch
  <2> QED BY <2>1, <2>2 DEF RecordStep, Pending
<1>6. CASE Beat(c) \/ BeatAsserts(c) \/ BeatWrites(c)
  <2>1. main' = main /\ Epoch(c)' = Epoch(c) BY <1>6 DEF Beat, BeatAsserts, BeatWrites, Epoch
  <2>2. beat'[c].pc = "write" => beat'[c].at = now /\ Asserted(c) /\ UNCHANGED <<row, service>>
    BY <1>6, Shapes DEF IInv, Beat, BeatAsserts, BeatWrites, Beats
  <2> QED BY <2>1, <2>2 DEF RecordStep, Pending
<1> QED BY <1>2, <1>3, <1>4, <1>5, <1>6 DEF Step

LEMMA ServiceSteps ==
  ASSUME IInv, NEW c \in Containers, Step(c)
  PROVE  ServiceStep(c)
<1>1. CASE RecordWrites(c)
  BY <1>1, Shapes DEF IInv, RecordWrites, ServiceStep, Pending, Mains
<1>2. CASE BeatWrites(c) BY <1>2, Shapes DEF IInv, BeatWrites, ServiceStep, Pending, Beats
<1>3. CASE UNCHANGED service BY <1>3 DEF ServiceStep
<1> QED BY <1>1, <1>2, <1>3
        DEF Step, Start, RecordAsserts, Spawn, Notice, EndChild, Join, Release, Beat, Renew,
            BeatAsserts, Crash

LEMMA NothingCut ==
  ASSUME IInv, NEW c \in Containers, Step(c)
  PROVE  NoneCut(c)
<1>1. CASE UNCHANGED row BY <1>1, Shapes DEF IInv, NoneCut, Rows
<1>2. CASE Start(c) BY <1>2, Shapes DEF IInv, Start, Claimed, NoneCut, Rows
<1>3. CASE Renew(c) /\ row' = Renewed(row, beat[c].at) /\ Valid(row, main[c].lease, beat[c].at)
  <2>1. row'.until = beat[c].at + LeaseSeconds BY <1>3, Shapes DEF IInv, Renewed, Rows
  <2>2. main[c].pc # "off" BY <1>3 DEF IInv, Local, Placed, Renew, BeatOff
  <2>3. row.until = main[c].lease.until
    BY <1>3, <2>2 DEF IInv, Local, LeaseKnown, Valid, Owns, Epoch
  <2>4. main[c].lease.until <= beat[c].at + LeaseSeconds
    BY <1>3 DEF IInv, Local, LeaseTimed, Renew
  <2> QED BY <2>1, <2>3, <2>4 DEF NoneCut
<1>4. CASE Release(c) /\ Owns(row, main[c].lease)
  <2>1. main[c].pc = "release" /\ beat[c] = BeatOff /\ row.owner = c
    BY <1>4 DEF IInv, Local, Placed, LeaseKnown, Release, Owns, Epoch
  <2>2. \A t \in 0..MaxTime : ~Pending(c, t) BY <2>1 DEF Pending, BeatOff
  <2>3. \A d \in Containers, t \in 0..MaxTime : Pending(d, t) /\ Epoch(d) = row.epoch => d = c
    BY <2>1 DEF IInv, Local, LeaseKnown, Placed, Pending, BeatOff
  <2> QED BY <2>2, <2>3 DEF NoneCut
<1> QED BY <1>1, <1>2, <1>3, <1>4
        DEF Step, RecordAsserts, RecordWrites, Spawn, Notice, EndChild, Join, Release,
            ReleasedAt, Beat, Renew, BeatAsserts, BeatWrites, Crash

(* Whoever has a record pending is not off, so its epoch is one that was claimed. *)
LEMMA PendingEpoch ==
  ASSUME IInv, NEW c \in Containers, NEW t \in 0..MaxTime, Pending(c, t)
  PROVE  /\ Epoch(c) \in 1..row.epoch
         /\ Epoch(c) = row.epoch => t < row.until
         /\ Epoch(c) < row.epoch => t < now
         /\ Epoch(c) < service.epoch => t < service.observed
<1>1. main[c].pc # "off" BY DEF IInv, Local, Placed, Pending, BeatOff
<1> QED BY <1>1 DEF IInv, Local, LeaseKnown, RecordsFenced

LEMMA UpsertForward ==
  ASSUME IInv, NEW c \in Containers, NEW t \in 0..MaxTime, Pending(c, t)
  PROVE  /\ Upsert(c, t) \in {service, [epoch |-> Epoch(c), observed |-> t]}
         /\ Upsert(c, t).epoch >= service.epoch
         /\ Upsert(c, t).epoch <= row.epoch
<1>1. /\ Epoch(c) \in 1..row.epoch
      /\ Epoch(c) < service.epoch => t < service.observed
  BY PendingEpoch
<1>2. service.epoch \in Nat /\ service.observed \in Nat /\ row.epoch \in Nat
  BY Shapes, FencingAssumption DEF IInv, Services, Rows
<1> QED BY <1>1, <1>2 DEF IInv, Upsert, Epoch

LEMMA StepKeepsRecords ==
  ASSUME IInv, NEW c \in Containers, Step(c)
  PROVE  /\ service'.epoch >= service.epoch /\ service'.epoch <= row'.epoch
         /\ \A d \in Containers : RecordsFenced(d)'
         /\ RecordsOrdered'
<1>1. StepTyped(c) /\ RowStep(c) /\ RecordStep(c) /\ ServiceStep(c) /\ NoneCut(c)
  BY StepsTyped, RowSteps, RecordSteps, ServiceSteps, NothingCut DEF IInv
<1>2. /\ now \in Nat /\ row.epoch \in Nat /\ row.until \in Nat
      /\ row'.epoch \in Nat /\ row'.until \in Nat /\ now' = now
      /\ service.epoch \in Nat /\ service.observed \in Nat
      /\ row'.epoch >= row.epoch
  BY <1>1, Shapes, FencingAssumption, LeaseAssumption DEF IInv, RowStep, StepTyped, Rows, Services
<1>3. service'.epoch >= service.epoch /\ service'.epoch <= row'.epoch
  <2>1. CASE service' = service BY <1>2, <2>1 DEF IInv
  <2>2. ASSUME NEW t \in 0..MaxTime, Pending(c, t), service' = Upsert(c, t)
        PROVE  service'.epoch >= service.epoch /\ service'.epoch <= row.epoch
    BY <2>2, UpsertForward
  <2>3. service'.epoch \in Nat BY <1>1, FencingAssumption DEF StepTyped, Services
  <2> QED BY <1>1, <1>2, <2>1, <2>2, <2>3 DEF ServiceStep
(* A record that is pending now was pending before, or has just been asserted. *)
<1>4. \A d \in Containers, t \in 0..MaxTime : Pending(d, t)' =>
        /\ Epoch(d)' = Epoch(d) /\ Epoch(d) \in 1..row.epoch
        /\ \/ Pending(d, t)
           \/ /\ t = now /\ Epoch(d) = row.epoch /\ now < row.until
              /\ UNCHANGED <<row, service>>
  <2> SUFFICES ASSUME NEW d \in Containers, NEW t \in 0..MaxTime, Pending(d, t)'
               PROVE  /\ Epoch(d)' = Epoch(d) /\ Epoch(d) \in 1..row.epoch
                      /\ \/ Pending(d, t)
                         \/ /\ t = now /\ Epoch(d) = row.epoch /\ now < row.until
                            /\ UNCHANGED <<row, service>>
    OBVIOUS
  <2>1. CASE d # c
    <3>1. Epoch(d)' = Epoch(d) /\ Pending(d, t)
      BY <1>1, <2>1 DEF StepTyped, MainTyped, BeatTyped, Epoch, Pending
    <3> QED BY <3>1, PendingEpoch
  <2>2. CASE d = c
    <3>1. CASE Pending(c, t) BY <1>1, <2>2, <3>1, PendingEpoch DEF RecordStep
    <3>2. CASE t = now /\ Asserted(c) /\ UNCHANGED <<row, service>>
      <4>1. Epoch(c) = row.epoch /\ now < row.until
        BY <3>2, <1>2 DEF Asserted, Valid, Owns, Epoch
      <4>2. row.epoch > 0 BY <3>2, <1>2 DEF Asserted, Valid, Owns
      <4> QED BY <1>1, <1>2, <2>2, <3>2, <4>1, <4>2 DEF RecordStep
    <3> QED BY <1>1, <2>2, <3>1, <3>2 DEF RecordStep
  <2> QED BY <2>1, <2>2
<1>5. \A d \in Containers : RecordsFenced(d)'
  <2> SUFFICES ASSUME NEW d \in Containers, NEW t \in 0..MaxTime, Pending(d, t)'
               PROVE  /\ Epoch(d) = row'.epoch => t < row'.until
                      /\ Epoch(d) < row'.epoch => t < now
                      /\ Epoch(d) < service'.epoch => t < service'.observed
    BY <1>2, <1>4 DEF RecordsFenced
  <2>1. CASE t = now /\ Epoch(d) = row.epoch /\ now < row.until /\ UNCHANGED <<row, service>>
    BY <1>2, <2>1 DEF IInv
  <2>2. CASE Pending(d, t)
    <3>1. /\ Epoch(d) \in 1..row.epoch
          /\ Epoch(d) = row.epoch => t < row.until
          /\ Epoch(d) < row.epoch => t < now
          /\ Epoch(d) < service.epoch => t < service.observed
      BY <2>2, PendingEpoch
    <3>2. Epoch(d) = row'.epoch => t < row'.until
      BY <1>1, <1>2, <2>2, <3>1 DEF NoneCut
    <3>3. Epoch(d) < row'.epoch => t < now
      BY <1>1, <1>2, <3>1 DEF RowStep
    <3>4. Epoch(d) < service'.epoch => t < service'.observed
      <4>1. CASE service' = service BY <3>1, <4>1
      <4>2. CASE service' # service
        <5>1. PICK u \in 0..MaxTime : Pending(c, u) /\ service' = Upsert(c, u)
          BY <1>1, <4>2 DEF ServiceStep
        <5>2. service' = [epoch |-> Epoch(c), observed |-> u] BY <4>2, <5>1, UpsertForward
        <5>3. Epoch(d) < Epoch(c) => t < u BY <2>2, <5>1 DEF IInv, RecordsOrdered
        <5> QED BY <5>2, <5>3
      <4> QED BY <4>1, <4>2
    <3> QED BY <3>2, <3>3, <3>4
  <2> QED BY <1>4, <2>1, <2>2
<1>6. RecordsOrdered'
  <2> SUFFICES ASSUME NEW d \in Containers, NEW e \in Containers,
                      NEW t \in 0..MaxTime, NEW u \in 0..MaxTime,
                      Pending(d, t)', Pending(e, u)', Epoch(d) < Epoch(e)
               PROVE  t < u
    BY <1>4 DEF RecordsOrdered
  <2>1. CASE Pending(d, t) /\ Pending(e, u) BY <2>1 DEF IInv, RecordsOrdered
  <2>2. CASE Pending(d, t) /\ ~Pending(e, u)
    <3>1. u = now /\ Epoch(e) = row.epoch BY <1>4, <2>2
    <3> QED BY <2>2, <3>1, PendingEpoch
  <2>3. CASE ~Pending(d, t)
    <3>1. Epoch(d) = row.epoch /\ Epoch(e) <= row.epoch BY <1>2, <1>4, <2>3
    <3> QED BY <1>2, <1>4, <3>1
  <2> QED BY <2>1, <2>2, <2>3
<1> QED BY <1>3, <1>5, <1>6

-----------------------------------------------------------------------------
(* The invariant.                                                            *)

LEMMA InitIInv == Init => IInv
<1> SUFFICES ASSUME Init PROVE IInv
  OBVIOUS
<1>1. TypeOK BY InitType
<1>2. \A c \in Containers : main[c] = MainOff /\ beat[c] = BeatOff /\ child[c] = FALSE
  BY DEF Init
<1>3. row.until <= now + LeaseSeconds /\ service.epoch <= row.epoch
  BY LeaseAssumption DEF Init, NoRow, NoService
<1>4. \A c \in Containers : Local(c)
  BY <1>2 DEF Init, Local, Placed, LeaseKnown, LeaseTimed, MainOff, BeatOff
<1>5. \A c \in Containers, t \in 0..MaxTime : ~Pending(c, t)
  BY <1>2 DEF Pending, MainOff, BeatOff
<1> QED BY <1>1, <1>3, <1>4, <1>5 DEF IInv, RecordsFenced, RecordsOrdered

LEMMA StepIInv ==
  ASSUME IInv, NEW c \in Containers, Step(c)
  PROVE  IInv'
<1>1. StepTyped(c) /\ RowStep(c) BY StepsTyped, RowSteps DEF IInv
<1>2. \A d \in Containers : Local(d)' BY StepKeepsLocal
<1>3. \A d \in Containers : main'[d].pc = "off" => beat'[d] = BeatOff /\ ~child'[d]
  BY <1>2 DEF Local, Placed
<1>4. TypeOK'
  BY <1>1, <1>3, Shapes
  DEF IInv, TypeOK, StepTyped, MainTyped, BeatTyped, ChildTyped, Mains, Beats, Services
<1> QED BY <1>1, <1>2, <1>4, StepKeepsRecords DEF IInv, RowStep, StepTyped

LEMMA TickIInv == IInv /\ Tick => IInv'
<1> SUFFICES ASSUME IInv, Tick PROVE IInv'
  OBVIOUS
<1>1. now' = now + 1 /\ now' \in 0..MaxTime /\ UNCHANGED <<row, service, main, beat, child>>
  BY Shapes, FencingAssumption DEF IInv, Tick
<1>2. TypeOK' BY <1>1 DEF IInv, TypeOK
<1>3. ASSUME NEW c \in Containers PROVE Local(c)' /\ RecordsFenced(c)'
  <2>1. ~Due(c) BY DEF Tick
  <2>2. Placed(c)' BY <1>1, Shapes DEF IInv, Local, Placed, Beats
  <2>4. /\ main[c].by \in Nat /\ beat[c].by \in Nat /\ now \in Nat
        /\ main[c].lease.until \in Nat
    BY Shapes, FencingAssumption, LeaseAssumption DEF IInv, Mains, Beats, Rows
  <2>3. LeaseKnown(c)' BY <1>1, <2>4 DEF IInv, Local, LeaseKnown, Epoch
  <2>5. LeaseTimed(c)' BY <1>1, <2>1, <2>4 DEF IInv, Local, LeaseTimed, Due, Held, Epoch
  <2>6. RecordsFenced(c)' BY <1>1, <2>4 DEF IInv, RecordsFenced, Pending, Epoch
  <2> QED BY <2>2, <2>3, <2>5, <2>6 DEF Local
<1>4. row'.until <= now' + LeaseSeconds
  BY <1>1, Shapes, FencingAssumption, LeaseAssumption DEF IInv, Rows
<1>5. RecordsOrdered' BY <1>1 DEF IInv, RecordsOrdered, Pending, Epoch
<1> QED BY <1>1, <1>2, <1>3, <1>4, <1>5 DEF IInv

LEMMA StutterIInv == IInv /\ UNCHANGED vars => IInv'
BY DEF IInv, vars, TypeOK, Local, Placed, LeaseKnown, LeaseTimed, Held, RecordsFenced,
       RecordsOrdered, Pending, Epoch

LEMMA NextIInv == IInv /\ [Next]_vars => IInv'
BY StepIInv, TickIInv, StutterIInv DEF Next

THEOREM Invariance == Spec => []IInv
BY InitIInv, NextIInv, PTL DEF Spec

-----------------------------------------------------------------------------
(* Theorems.                                                                 *)

(* Every variable keeps its type, and a container that is off has left neither *)
(* a heartbeat thread nor a child: close joins the one and run_fenced_child    *)
(* waits for the other on every way out (advanced_realtime_fencing.py).        *)
THEOREM TypeCorrect == Spec => []TypeOK
<1>1. IInv => TypeOK BY DEF IInv
<1> QED BY <1>1, Invariance, PTL

(* The container of a working child is told that it has lost its lease within  *)
(* an interval and two heartbeats of the last claim or renewal, whichever      *)
(* statements fail, however long they take, however long the child takes to    *)
(* end and however the containers are lost and replaced: PostgresLeaseHeartbeat *)
(* gives up at the first heartbeat that fails.  The thread that died recording *)
(* the service's state, outside its try block, is the exception.               *)
THEOREM ContainersToldInTime == Spec => []ToldInTime
<1>1. ASSUME IInv, NEW c \in Containers, child[c], beat[c].pc # "dead"
      PROVE  Told(c) + LeaseSeconds <= main[c].lease.until + Interval + 2 * Delay
  <2>1. beat[c].pc \in {"wait", "renew", "assert", "write"} \/ beat[c].lost
    BY <1>1, Shapes DEF IInv, Local, Placed, Beats
  <2>2. LeaseTimed(c) BY <1>1 DEF IInv, Local
  <2>3. /\ now \in Nat /\ beat[c].by \in Nat /\ beat[c].at \in Nat
        /\ main[c].lease.until \in Nat
        /\ Interval \in Nat /\ Delay \in Nat /\ LeaseSeconds \in Nat
    BY <1>1, Shapes, FencingAssumption, LeaseAssumption DEF IInv, Beats, Mains, Rows
  <2>4. CASE beat[c].lost BY <2>2, <2>3, <2>4 DEF LeaseTimed, Told
  <2>5. CASE ~beat[c].lost BY <2>1, <2>2, <2>3, <2>5 DEF LeaseTimed, Told
  <2> QED BY <2>4, <2>5
<1>2. IInv => ToldInTime BY <1>1 DEF ToldInTime
<1> QED BY <1>2, Invariance, PTL

(* So nobody else can have claimed the lease of a child that takes no longer   *)
(* to end than an interval and two heartbeats leave of it.                     *)
THEOREM ChildrenFenced == Spec => []ChildUnderLease
<1>1. ASSUME IInv, NEW c \in Containers, child[c], beat[c].pc # "dead", ToldInTime,
             now + Interval + 2 * Delay < Told(c) + LeaseSeconds
      PROVE  Valid(row, main[c].lease, now)
  <2>1. main[c].pc # "off" BY <1>1 DEF IInv, Local, Placed
  <2>2. /\ now \in Nat /\ main[c].lease.until \in Nat /\ Told(c) \in Nat
        /\ row.epoch \in Nat /\ Interval \in Nat /\ Delay \in Nat /\ LeaseSeconds \in Nat
    BY <1>1, Shapes, FencingAssumption, LeaseAssumption
    DEF IInv, Beats, Mains, Rows, Told
  <2>3. main[c].lease.until > now BY <1>1, <2>2 DEF ToldInTime
  <2>4. /\ Epoch(c) = row.epoch /\ row.until = main[c].lease.until
        /\ row.owner = main[c].lease.owner /\ row.epoch # 0
    BY <1>1, <2>1, <2>2, <2>3 DEF IInv, Local, LeaseKnown
  <2> QED BY <2>3, <2>4 DEF Valid, Owns, Epoch
<1>2. IInv /\ ToldInTime => ChildUnderLease BY <1>1 DEF ChildUnderLease
<1> QED BY <1>2, Invariance, ContainersToldInTime, PTL

(* No record takes the service's row back to an earlier owner, although the    *)
(* assertion of the lease and the upsert are two statements and the lease may  *)
(* be lost between them: a record of a lost lease was observed before anything *)
(* its successor recorded (record_advanced_realtime_service_state_cursor).     *)
THEOREM ServiceNeverGoesBack == Spec => ServiceEpochGrows
<1>1. ASSUME IInv, [Next]_vars PROVE service'.epoch >= service.epoch
  <2>1. service.epoch \in Nat BY <1>1, Shapes, FencingAssumption DEF IInv, Services
  <2>2. CASE UNCHANGED service BY <2>1, <2>2
  <2>3. ASSUME NEW c \in Containers, Step(c) PROVE service'.epoch >= service.epoch
    BY <1>1, <2>3, StepKeepsRecords
  <2> QED BY <1>1, <2>2, <2>3 DEF Next, Tick, vars
<1>2. IInv /\ [Next]_vars => [service'.epoch >= service.epoch]_vars BY <1>1
<1> QED BY <1>2, Invariance, PTL DEF Spec, ServiceEpochGrows
=============================================================================
