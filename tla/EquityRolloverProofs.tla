------------------------ MODULE EquityRolloverProofs ------------------------
(* What EquityRollover keeps for any number of processes, actions, revisions,  *)
(* claims and attempts, any durations and any ceilings: the inductive           *)
(* invariant, and the proof that every step keeps it.                           *)
EXTENDS EquityRollover, FiniteSetTheorems, SequenceTheorems, TLAPS

Row(o) == lease[proc[o].revision]
Key(o) == Item(o).key

(* No other process has claimed the revision since. *)
Mine(o) == proc[o].lease.epoch = Row(o).epoch

Owning == {"recover", "reserve", "send", "await", "settle", "release"}

(* A pass past its plan has work to do, for the revision it has read. *)
Planned(o) ==
  proc[o].pc \in Owning \cup {"claim"} => proc[o].revision \in Revisions /\ proc[o].plan # {}

(* A pass that claimed knows the row, until the next claim. *)
LeaseKnown(o) ==
  proc[o].pc \in Owning =>
    /\ proc[o].lease.owner = o
    /\ proc[o].lease.epoch \in 1..Row(o).epoch
    /\ Mine(o) => Row(o) = proc[o].lease

(* What was due when the pass recovered is missing, as of its clock, while the *)
(* fence holds.                                                                *)
StaysMissing(o) ==
  proc[o].pc = "reserve" /\ Mine(o) /\ proc[o].revision = current =>
    Missing(Key(o), Item(o).chunk, proc[o].checked)

(* The last attempt is the one this pass has reserved. *)
OwnReservation(o) ==
  proc[o].pc \in {"send", "await", "settle"} /\ Mine(o) =>
    /\ Rows(o) # <<>> /\ LastOf(Rows(o)).state = "RESERVED"
    /\ LastOf(Rows(o)).epoch = proc[o].lease.epoch /\ LastOf(Rows(o)).chunk = Item(o).chunk
    /\ LastOf(Rows(o)).reserved = proc[o].checked

Local(o) == Planned(o) /\ LeaseKnown(o) /\ StaysMissing(o) /\ OwnReservation(o)

(* Nothing is reserved for a revision that has not been selected yet. *)
NoneAhead == \A r \in Revisions, k \in Keys : r > current => ledger[r][k] = <<>>

(* The attempts of an authorization follow each other in the order of the clock. *)
Ordered ==
  \A r \in Revisions, k \in Keys : \A j \in DOMAIN ledger[r][k] :
    /\ ledger[r][k][j].reserved <= ledger[r][k][j].at /\ ledger[r][k][j].at <= now
    /\ \A i \in DOMAIN ledger[r][k] : i < j => ledger[r][k][i].at <= ledger[r][k][j].reserved

(* An attempt that has brought a piece of the facts of k. *)
Brought(r, k, c, i) == ledger[r][k][i].state = "COMPLETE" /\ ledger[r][k][i].chunk = c

(* What the ledger says was brought is there, in the history of the cohort. *)
Stored ==
  \A r \in Revisions, k \in Keys : \A i \in DOMAIN ledger[r][k] :
    LET piece == <<k, ledger[r][k][i].chunk>> IN
    ledger[r][k][i].state = "COMPLETE" =>
      /\ piece \in Pieces
      /\ \E h \in 1..cohort.id : facts[piece][h].kept
      /\ r = current => facts[piece][cohort.id].kept

(* The clocks of a stored bar are those of attempts in the ledger; reference facts *)
(* may be older than the ledger. *)
Witnessed ==
  \A k \in Keys \ References, c \in Nat, h \in Cohorts :
    <<k, c>> \in Pieces /\ facts[<<k, c>>][h].kept =>
      /\ \E r \in Revisions : \E i \in DOMAIN ledger[r][k] :
           Brought(r, k, c, i) /\ ledger[r][k][i].reserved = facts[<<k, c>>][h].observed
      /\ \E r \in Revisions : \E i \in DOMAIN ledger[r][k] :
           Brought(r, k, c, i) /\ ledger[r][k][i].at = facts[<<k, c>>][h].updated

IInv ==
  /\ TypeOK /\ NoneAhead /\ Ordered /\ Stored /\ Witnessed /\ FetchedOnce /\ BudgetHeld
  /\ \A o \in Owners : Local(o)

-----------------------------------------------------------------------------
(* Data.                                                                     *)

(* A set of numbers that is not empty has a least one. *)
LEMMA NatLeast ==
  ASSUME NEW S \in SUBSET Nat, S # {}
  PROVE  \E x \in S : \A y \in S : x <= y
<1>1. IsWellFoundedOn(OpToRel(<, Nat), Nat) BY NatLessThanWellFounded
<1>2. PICK x \in S : \A y \in S : ~ (<<y, x>> \in OpToRel(<, Nat)) BY <1>1, WFMin
<1>3. \A y \in S : ~(y < x) BY <1>2 DEF OpToRel
<1> QED BY <1>3

(* The first item of a plan that is not empty is one of its items. *)
LEMMA FirstOfPlan ==
  ASSUME NEW plan \in SUBSET WorkItems, plan # {}
  PROVE  First(plan) \in plan
<1> DEFINE ats == {work.at : work \in plan}
<1>1. \A work \in WorkItems : work.at \in Nat BY RolloverAssumption DEF WorkItems
<1>2. ats \in SUBSET Nat /\ ats # {} BY <1>1
<1>3. PICK x \in ats : \A y \in ats : x <= y
  <2> HIDE DEF ats
  <2> QED BY <1>2, NatLeast
<1>4. \E work \in plan : \A other \in plan : work.at <= other.at BY <1>3
<1> QED BY <1>4 DEF First

LEMMA KeysFinite == IsFiniteSet(Keys)
<1>1. CASE DOMAIN Actions = {} BY <1>1, FS_EmptySet DEF Keys
<1>2. CASE DOMAIN Actions # {}
  <2> DEFINE f == [i \in 1..Len(Actions) |-> Actions[i]]
  <2>1. f \in Surjection(1..Len(Actions), Keys)
    BY RolloverAssumption DEF Keys, Surjection
  <2>2. IsFiniteSet(1..Len(Actions)) BY RolloverAssumption, FS_Interval
  <2> QED BY <2>1, <2>2, FS_Surjection
<1> QED BY <1>1, <1>2

LEMMA RequestsFinite == IsFiniteSet(Requests)
<1> DEFINE all == (Revisions \X Keys) \X ((1..MaximumAttempts) \X (1..3))
<1>1. IsFiniteSet(Revisions) /\ IsFiniteSet(1..MaximumAttempts) /\ IsFiniteSet(1..3)
  <2>1. \A n \in Nat : IsFiniteSet(1..n) BY FS_Interval
  <2>2. MaxRevisions \in Nat /\ MaximumAttempts \in Nat /\ 3 \in Nat BY RolloverAssumption
  <2> QED BY <2>1, <2>2 DEF Revisions
<1>2. IsFiniteSet(Revisions \X Keys) BY <1>1, KeysFinite, FS_Product
<1>3. IsFiniteSet((1..MaximumAttempts) \X (1..3)) BY <1>1, FS_Product
<1>4. IsFiniteSet(all) BY <1>2, <1>3, FS_Product
<1> QED BY <1>4, FS_Subset DEF Requests

-----------------------------------------------------------------------------
(* Types.                                                                    *)

Ledgers == [Revisions -> [Keys -> Seq(Attempts)]]

LEMMA Shapes ==
  ASSUME TypeOK
  PROVE  /\ now \in 0..MaxTime /\ now \in Nat /\ MaxTime \in Nat
         /\ current \in Revisions /\ Revisions \subseteq Nat
         /\ cohort \in [id : Cohorts, bound : 0..now] /\ Cohorts \subseteq Nat
         /\ cohort.id \in Cohorts /\ cohort.id \in Nat /\ cohort.bound \in Nat
         /\ facts \in [Pieces -> [Cohorts -> Bars]]
         /\ splits \in [Keys -> SUBSET [before : Nat, received : 0..now]]
         /\ lease \in [Revisions -> LeaseRows]
         /\ ledger \in Ledgers
         /\ proc \in [Owners -> Locals]
         /\ \A o \in Owners : proc[o] \in Locals /\ proc[o].checked <= now
                              /\ proc[o].revision <= current
BY RolloverAssumption DEF TypeOK, Ledgers, Revisions, Cohorts

LEMMA OffTyped == NoRow \in LeaseRows /\ Off \in Locals
BY RolloverAssumption, LeaseAssumption DEF NoRow, NoLease, LeaseRows, Off, Locals

LEMMA InitType == Init => TypeOK
<1> SUFFICES ASSUME Init PROVE TypeOK
  OBVIOUS
<1>1. <<>> \in Seq(Attempts) /\ DOMAIN <<>> = {} BY EmptySeq
<1>2. 1 \in Revisions BY RolloverAssumption DEF Revisions
<1>3. ledger \in [Revisions -> [Keys -> Seq(Attempts)]] BY <1>1 DEF Init
<1>4. \A r \in Revisions, k \in Keys : ledger[r][k] = <<>> BY DEF Init
<1>5. \A o \in Owners : proc[o].checked = 0 /\ proc[o].revision = 0 BY DEF Init, Off
<1>6. cohort \in [id : Cohorts, bound : 0..now] /\ Absent \in Bars /\ Present \in Bars
  BY RolloverAssumption DEF Init, Cohorts, Absent, Present, Bars
<1>7. facts \in [Pieces -> [Cohorts -> Bars]] BY <1>6 DEF Init
<1>8. splits \in [Keys -> SUBSET [before : Nat, received : 0..now]] BY DEF Init
<1>9. now \in 0..MaxTime /\ current \in Revisions /\ lease \in [Revisions -> LeaseRows]
      /\ proc \in [Owners -> Locals]
  BY <1>2, OffTyped, RolloverAssumption DEF Init
<1>10. \A o \in Owners : proc[o].checked <= now /\ proc[o].revision <= current
  BY <1>5 DEF Init
<1>11. \A r \in Revisions, k \in Keys : DOMAIN ledger[r][k] = {} BY <1>1, <1>4
<1> QED BY <1>3, <1>6, <1>7, <1>8, <1>9, <1>10, <1>11 DEF TypeOK

(* What is due is missing, and it is one of the pieces. *)
LEMMA DueTyped ==
  ASSUME NEW at, NEW work \in Due(at)
  PROVE  work \in WorkItems /\ Missing(work.key, work.chunk, at)
<1>0. PICK i \in DOMAIN Actions :
        \E c \in FirstMissing(Actions[i], at) : work = [at |-> i, key |-> Actions[i], chunk |-> c]
  BY DEF Due
<1>1. PICK c \in FirstMissing(Actions[i], at) : work = [at |-> i, key |-> Actions[i], chunk |-> c]
  BY <1>0
<1>2. Actions[i] \in Keys /\ Chunks[Actions[i]] \in Nat BY RolloverAssumption DEF Keys
<1>3. c \in 1..Chunks[Actions[i]] /\ Missing(Actions[i], c, at) BY <1>1 DEF FirstMissing
<1>4. <<Actions[i], c>> \in Pieces BY <1>2, <1>3 DEF Pieces
<1> QED BY <1>1, <1>2, <1>3, <1>4 DEF WorkItems

(* The work of a pass that has planned. *)
LEMMA ItemTyped ==
  ASSUME TypeOK, NEW o \in Owners, Planned(o), proc[o].pc \in Owning \cup {"claim"}
  PROVE  /\ Item(o) \in proc[o].plan /\ Item(o) \in WorkItems
         /\ Key(o) \in Keys /\ Item(o).chunk \in Nat /\ <<Key(o), Item(o).chunk>> \in Pieces
         /\ proc[o].revision \in Revisions
         /\ Rows(o) \in Seq(Attempts) /\ Len(Rows(o)) \in Nat
         /\ Rows(o) = ledger[proc[o].revision][Key(o)]
<1>1. proc[o].plan \in SUBSET WorkItems /\ proc[o].plan # {} /\ proc[o].revision \in Revisions
  BY Shapes DEF Planned, Locals
<1>2. Item(o) \in proc[o].plan BY <1>1, FirstOfPlan DEF Item
<1>3. Item(o) \in WorkItems BY <1>1, <1>2
<1>4. Key(o) \in Keys /\ Item(o).chunk \in Nat /\ <<Key(o), Item(o).chunk>> \in Pieces
  BY <1>3 DEF WorkItems, Key
<1>5. Rows(o) \in Seq(Attempts) /\ Rows(o) = ledger[proc[o].revision][Key(o)]
  BY <1>1, <1>4, Shapes DEF Ledgers, Rows, Key
<1>6. Len(Rows(o)) \in Nat BY <1>5, LenProperties
<1> QED BY <1>1, <1>2, <1>3, <1>4, <1>5, <1>6

(* What a step of one process changes of the processes. *)
LocalTyped(o) ==
  /\ proc' \in [Owners -> Locals] /\ \A p \in Owners \ {o} : proc'[p] = proc[p]
  /\ proc'[o].checked <= now /\ proc'[o].revision <= current

LEMMA Becomes ==
  ASSUME TypeOK, NEW o \in Owners, NEW m \in Locals, m.checked <= now, m.revision <= current,
         proc' = [proc EXCEPT ![o] = m]
  PROVE  LocalTyped(o) /\ proc'[o] = m
BY Shapes DEF LocalTyped

LEMMA BecomesOff ==
  ASSUME TypeOK, NEW o \in Owners, proc' = [proc EXCEPT ![o] = Off]
  PROVE  LocalTyped(o) /\ proc'[o] = Off
<1>1. Off.checked = 0 /\ Off.revision = 0 BY DEF Off
<1>2. 0 <= now /\ 0 <= current BY Shapes
<1> QED BY <1>1, <1>2, OffTyped, Becomes

(* The pass goes on with its work. *)
SameWork(o) ==
  /\ proc'[o].checked = proc[o].checked /\ proc'[o].revision = proc[o].revision
  /\ proc'[o].plan = proc[o].plan /\ proc'[o].lease = proc[o].lease
  /\ Item(o)' = Item(o) /\ Key(o)' = Key(o)

LEMMA Goes ==
  ASSUME TypeOK, NEW o \in Owners,
         Goto(o, "send") \/ Goto(o, "await") \/ Goto(o, "release")
  PROVE  /\ proc' = [proc EXCEPT ![o] = proc'[o]] /\ proc'[o] \in Locals
         /\ proc'[o].checked = proc[o].checked /\ proc'[o].revision = proc[o].revision
         /\ proc'[o].plan = proc[o].plan /\ proc'[o].lease = proc[o].lease
         /\ Goto(o, "send") => proc'[o].pc = "send"
         /\ Goto(o, "await") => proc'[o].pc = "await"
         /\ Goto(o, "release") => proc'[o].pc = "release"
<1>1. ASSUME NEW pc \in {"send", "await", "release"}, Goto(o, pc)
      PROVE  /\ proc' = [proc EXCEPT ![o] = proc'[o]] /\ proc'[o] \in Locals
             /\ proc'[o].checked = proc[o].checked /\ proc'[o].revision = proc[o].revision
             /\ proc'[o].plan = proc[o].plan /\ proc'[o].lease = proc[o].lease
             /\ proc'[o].pc = pc
  BY <1>1, Shapes DEF Goto, Locals
<1> QED BY <1>1

LEMMA Moves ==
  ASSUME TypeOK, NEW o \in Owners,
         Recover(o) \/ Reserve(o) \/ Send(o) \/ Answer(o) \/ Settle(o) \/ Fault(o)
  PROVE  /\ LocalTyped(o) /\ SameWork(o)
         /\ proc[o].pc \in {"recover", "reserve", "send", "await", "settle"}
         /\ proc'[o].pc \in {"reserve", "send", "await", "settle", "release"}
         /\ proc'[o].pc = "reserve" => Recover(o) /\ Verify(o) /\ StillDue(o, Item(o))
         /\ proc'[o].pc = "send" => Reserve(o)
         /\ proc'[o].pc = "await" => proc[o].pc = "send"
         /\ proc'[o].pc = "settle" => proc[o].pc \in {"send", "await"}
<1> DEFINE m == proc'[o]
<1>1. proc[o] \in Locals /\ proc[o].checked <= now /\ proc[o].revision <= current BY Shapes
<1>2. proc' = [proc EXCEPT ![o] = m] /\ m \in Locals
      /\ m.checked = proc[o].checked /\ m.revision = proc[o].revision
      /\ m.plan = proc[o].plan /\ m.lease = proc[o].lease
  <2>1. CASE Recover(o)
    <3>1. NoRow \in LeaseRows BY OffTyped
    <3>2. CASE proc' = [proc EXCEPT ![o].pc = "reserve", ![o].previous = NoRow]
      <4>1. proc' = [proc EXCEPT ![o] = [proc[o] EXCEPT !.pc = "reserve", !.previous = NoRow]]
        BY <3>2, Shapes
      <4> QED BY <3>1, <4>1, Shapes DEF Locals
    <3>3. CASE Goto(o, "release") BY <3>3, Goes
    <3> QED BY <2>1, <3>2, <3>3 DEF Recover
  <2>2. CASE Reserve(o)
    <3>1. CASE Defer(o)
      <4>1. proc' = [proc EXCEPT ![o] = [proc[o] EXCEPT !.pc = "release", !.deferred = TRUE]]
        BY <3>1, Shapes DEF Defer
      <4> QED BY <4>1, Shapes DEF Locals
    <3>2. CASE Goto(o, "send") \/ Goto(o, "release") BY <3>2, Goes
    <3> QED BY <2>2, <3>1, <3>2 DEF Reserve
  <2>3. CASE Send(o)
    <3>1. CASE Goto(o, "await") BY <3>1, Goes
    <3>2. CASE proc' = [proc EXCEPT ![o].pc = "settle", ![o].ok = FALSE]
      <4>1. proc' = [proc EXCEPT ![o] = [proc[o] EXCEPT !.pc = "settle", !.ok = FALSE]]
        BY <3>2, Shapes
      <4> QED BY <4>1, Shapes DEF Locals
    <3>3. CASE Goto(o, "release") BY <3>3, Goes
    <3> QED BY <2>3, <3>1, <3>2, <3>3 DEF Send
  <2>4. CASE Answer(o)
    <3>1. PICK ok \in BOOLEAN : proc' = [proc EXCEPT ![o].pc = "settle", ![o].ok = ok]
      BY <2>4 DEF Answer
    <3>2. proc' = [proc EXCEPT ![o] = [proc[o] EXCEPT !.pc = "settle", !.ok = ok]]
      BY <3>1, Shapes
    <3> QED BY <3>2, Shapes DEF Locals
  <2> QED BY <2>1, <2>2, <2>3, <2>4, Goes DEF Settle, Fault
<1>3. LocalTyped(o) BY <1>1, <1>2, Becomes
<1>4. SameWork(o) BY <1>2 DEF SameWork, Item, Key
<1>5. /\ proc[o].pc \in {"recover", "reserve", "send", "await", "settle"}
      /\ m.pc \in {"reserve", "send", "await", "settle", "release"}
      /\ m.pc = "reserve" => Recover(o) /\ Verify(o) /\ StillDue(o, Item(o))
      /\ m.pc = "send" => Reserve(o)
      /\ m.pc = "await" => proc[o].pc = "send"
      /\ m.pc = "settle" => proc[o].pc \in {"send", "await"}
  <2>1. CASE Recover(o) BY <2>1, Shapes DEF Recover, Goto, Locals
  <2>2. CASE Reserve(o)
    <3>1. CASE Defer(o)
      <4>1. m.pc = "release" BY <3>1, Shapes DEF Defer, Locals
      <4> QED BY <2>2, <4>1 DEF Reserve
    <3>2. CASE Goto(o, "send") \/ Goto(o, "release") BY <2>2, <3>2, Goes DEF Reserve
    <3> QED BY <2>2, <3>1, <3>2 DEF Reserve
  <2>3. CASE Send(o)
    <3>1. CASE Goto(o, "await") BY <2>3, <3>1, Goes DEF Send
    <3>2. CASE proc' = [proc EXCEPT ![o].pc = "settle", ![o].ok = FALSE]
      <4>1. m.pc = "settle" BY <3>2, Shapes DEF Locals
      <4> QED BY <2>3, <4>1 DEF Send
    <3>3. CASE Goto(o, "release") BY <2>3, <3>3, Goes DEF Send
    <3> QED BY <2>3, <3>1, <3>2, <3>3 DEF Send
  <2>4. CASE Answer(o)
    <3>1. PICK ok \in BOOLEAN : proc' = [proc EXCEPT ![o].pc = "settle", ![o].ok = ok]
      BY <2>4 DEF Answer
    <3>2. m.pc = "settle" BY <3>1, Shapes DEF Locals
    <3> QED BY <2>4, <3>2 DEF Answer
  <2>5. CASE Settle(o) BY <2>5, Shapes DEF Settle, Goto, Locals
  <2>6. CASE Fault(o) BY <2>6, Shapes DEF Fault, Goto, Locals
  <2> QED BY <2>1, <2>2, <2>3, <2>4, <2>5, <2>6
<1> QED BY <1>3, <1>4, <1>5

LEMMA BeginTyped ==
  ASSUME TypeOK, NEW o \in Owners, Begin(o)
  PROVE  LocalTyped(o) /\ proc'[o].pc = "plan"
<1> DEFINE m == [Off EXCEPT !.pc = "plan", !.checked = now]
<1>1. m \in Locals /\ m.pc = "plan" /\ m.checked = now /\ m.revision = Off.revision
  BY Shapes, OffTyped DEF Locals
<1>3. m.checked <= now /\ m.revision <= current BY <1>1, Shapes DEF Off
<1>2. proc' = [proc EXCEPT ![o] = m] BY DEF Begin
<1> HIDE DEF m
<1> QED BY <1>1, <1>2, <1>3, Becomes

LEMMA PlanTyped ==
  ASSUME TypeOK, NEW o \in Owners, Plan(o)
  PROVE  /\ LocalTyped(o)
         /\ proc'[o] = Off \/ (proc'[o].pc = "claim" /\ proc'[o].revision \in Revisions
                                /\ proc'[o].plan # {})
<1> DEFINE due == Due(proc[o].checked)
<1>1. CASE due = {} BY <1>1, BecomesOff DEF Plan
<1>2. CASE due # {}
  <2> DEFINE m == [proc[o] EXCEPT !.pc = "claim", !.revision = current, !.plan = due]
  <2>1. due \in SUBSET WorkItems BY DueTyped
  <2>4. proc' = [proc EXCEPT ![o] = m] BY <1>2, Shapes DEF Plan
  <2> HIDE DEF due
  <2>2. m \in Locals /\ m.checked <= now /\ m.revision <= current
    <3>1. m \in Locals BY <2>1, Shapes DEF Locals
    <3>2. m.checked = proc[o].checked /\ m.revision = current BY Shapes DEF Locals
    <3> QED BY <3>1, <3>2, Shapes
  <2>3. m.pc = "claim" /\ m.revision \in Revisions /\ m.plan # {} BY <1>2, Shapes DEF Locals
  <2> QED BY <2>2, <2>3, <2>4, Becomes
<1> QED BY <1>1, <1>2

(* What a claim leaves behind. *)
Claims(o) ==
  LET r == proc[o].revision IN
  /\ lease[r].epoch = 0 \/ lease[r].until <= proc[o].checked
  /\ lease' = [lease EXCEPT ![r] = Claimed(lease[r], o, proc[o].checked)]
  /\ proc'[o].pc = "recover" /\ proc'[o].lease = Claimed(lease[r], o, proc[o].checked)
  /\ proc'[o].revision = r /\ proc'[o].plan = proc[o].plan

LEMMA ClaimTyped ==
  ASSUME TypeOK, NEW o \in Owners, Planned(o), Claim(o)
  PROVE  /\ LocalTyped(o)
         /\ (proc'[o] = Off /\ lease' = lease) \/ Claims(o)
<1> DEFINE r == proc[o].revision
           claimed == Claimed(lease[r], o, proc[o].checked)
           m == [proc[o] EXCEPT !.pc = "recover", !.lease = claimed,
                                !.previous = lease[r], !.deferred = FALSE]
<1>1. r \in Revisions BY DEF Planned, Claim
<1>2. lease[r] \in LeaseRows BY <1>1, Shapes
<1>3. claimed \in LeaseRows
  BY <1>2, Shapes, LeaseAssumption DEF Claimed, LeaseRows, Locals
<1>4. m \in Locals /\ m.checked <= now /\ m.revision <= current
  BY <1>2, <1>3, Shapes DEF Locals
<1>5. CASE Claimable(lease[r], proc[o].checked)
  <2>1. proc' = [proc EXCEPT ![o] = m] BY <1>5, Shapes DEF Claim
  <2>2. m.pc = "recover" /\ m.lease = claimed /\ m.revision = r /\ m.plan = proc[o].plan
    BY Shapes DEF Locals
  <2> HIDE DEF m
  <2>3. LocalTyped(o) /\ proc'[o] = m BY <1>4, <2>1, Becomes
  <2> QED BY <1>5, <2>2, <2>3 DEF Claim, Claimable, Claims
<1>6. CASE ~Claimable(lease[r], proc[o].checked) BY <1>6, BecomesOff DEF Claim
<1> QED BY <1>5, <1>6

LEMMA ReleaseTyped ==
  ASSUME TypeOK, NEW o \in Owners, Planned(o), Release(o)
  PROVE  /\ LocalTyped(o)
         /\ proc'[o] = Off \/ (proc'[o].pc = "claim" /\ proc'[o].revision \in Revisions
                                /\ proc'[o].plan # {})
<1> DEFINE plan == proc[o].plan \ {Item(o)}
           m == [Off EXCEPT !.pc = "claim", !.checked = proc[o].checked,
                            !.revision = proc[o].revision, !.plan = plan]
<1>1. CASE proc[o].deferred /\ plan # {}
  <2>1. proc[o].revision \in Revisions BY DEF Planned, Release, Owning
  <2>2. plan \in SUBSET WorkItems BY Shapes DEF Locals
  <2>3. /\ m \in Locals /\ m.checked <= now /\ m.revision <= current
        /\ m.pc = "claim" /\ m.revision \in Revisions /\ m.plan # {}
    BY <1>1, <2>1, <2>2, Shapes, OffTyped DEF Off, Locals
  <2>4. proc' = [proc EXCEPT ![o] = m] BY <1>1 DEF Release
  <2> HIDE DEF m
  <2> QED BY <2>3, <2>4, Becomes
<1>2. CASE ~(proc[o].deferred /\ plan # {}) BY <1>2, BecomesOff DEF Release
<1> QED BY <1>1, <1>2

LEMMA LocalsTyped ==
  ASSUME TypeOK, NEW o \in Owners, Planned(o), Step(o)
  PROVE  LocalTyped(o)
BY BeginTyped, PlanTyped, ClaimTyped, ReleaseTyped, Moves, BecomesOff DEF Step, Crash

-----------------------------------------------------------------------------
(* What a step changes of the leases, the ledger and the facts.               *)

LeaseStep(o) ==
  LET r == proc[o].revision IN
  /\ lease' \in [Revisions -> LeaseRows]
  /\ \A s \in Revisions : s # r => lease'[s] = lease[s]
  /\ \/ lease' = lease
     \/ Claims(o) /\ proc[o].pc = "claim"
     \/ /\ Mine(o) /\ proc[o].pc = "release" /\ r \in Revisions
        /\ lease'[r].owner = lease[r].owner /\ lease'[r].epoch = lease[r].epoch

LEMMA LeaseSteps ==
  ASSUME TypeOK, NEW o \in Owners, Planned(o), Step(o)
  PROVE  LeaseStep(o)
<1>1. CASE UNCHANGED lease BY <1>1, Shapes DEF LeaseStep
<1>2. CASE Claim(o)
  <2>1. CASE Claims(o)
    <3>1. proc[o].pc = "claim" /\ proc[o].revision \in Revisions BY <1>2 DEF Claim, Planned
    <3>2. Claimed(lease[proc[o].revision], o, proc[o].checked) \in LeaseRows
      BY <3>1, Shapes, LeaseAssumption DEF Claimed, LeaseRows, Locals
    <3> QED BY <2>1, <3>1, <3>2, Shapes DEF Claims, LeaseStep
  <2> QED BY <1>1, <1>2, <2>1, ClaimTyped
<1>3. CASE Release(o)
  <2> DEFINE r == proc[o].revision
  <2>1. r \in Revisions /\ lease[r] \in LeaseRows BY <1>3, Shapes DEF Release, Planned, Owning
  <2>2. CASE Owns(lease[r], proc[o].lease)
    <3>1. lease' = [lease EXCEPT ![r] = [lease[r] EXCEPT !.until = now]]
      BY <1>3, <2>2 DEF Release, ReleasedAt
    <3>2. [lease[r] EXCEPT !.until = now] \in LeaseRows
      BY <2>1, Shapes, LeaseAssumption DEF LeaseRows
    <3>3. Mine(o) BY <2>2 DEF Owns, Mine, Row
    <3>4. lease'[r].owner = lease[r].owner /\ lease'[r].epoch = lease[r].epoch
      BY <2>1, <3>1, Shapes DEF LeaseRows
    <3> QED BY <1>3, <2>1, <3>1, <3>2, <3>3, <3>4, Shapes DEF LeaseStep, Release
  <2>3. CASE ~Owns(lease[r], proc[o].lease)
    BY <1>1, <1>3, <2>1, <2>3, Shapes DEF Release, ReleasedAt
  <2> QED BY <2>2, <2>3
<1> QED BY <1>1, <1>2, <1>3
        DEF Step, Begin, Plan, Recover, Reserve, Send, Answer, Settle, Fault, Crash

(* An attempt is added behind those that have an outcome, within both ceilings, *)
(* and not before the retry of the last one.                                    *)
Appends(o) ==
  LET rows == Rows(o)
      new == ledger'[proc[o].revision][Key(o)]
  IN  /\ proc[o].pc = "reserve" /\ ~Reserved(rows)
      /\ rows # <<>> => LastOf(rows).at <= proc[o].checked
      /\ Len(rows) + 1 <= MaximumAttempts /\ Spent + Slots(Key(o)) <= AccountCeiling
      /\ Len(new) = Len(rows) + 1 /\ \A i \in 1..Len(rows) : new[i] = rows[i]
      /\ new[Len(rows) + 1] =
           [state |-> "RESERVED", epoch |-> proc[o].lease.epoch, chunk |-> Item(o).chunk,
            reserved |-> proc[o].checked, at |-> proc[o].checked]
      /\ facts' = facts

(* The facts that a pass stores with a good answer. *)
Stores(o) ==
  LET piece == <<Key(o), Item(o).chunk>> IN
  \E bar \in Persisted(facts[piece][cohort.id], proc[o].checked, now) :
    facts' = [facts EXCEPT ![piece][cohort.id] = bar]

(* The last attempt gets its outcome, from the lease it was reserved under or *)
(* as one that nobody knows.                                                  *)
Marks(o) ==
  LET rows == Rows(o)
      new == ledger'[proc[o].revision][Key(o)]
      before == rows[Len(rows)]
      after == new[Len(rows)]
  IN  /\ rows # <<>> /\ Len(new) = Len(rows)
      /\ \A i \in 1..Len(rows) : i # Len(rows) => new[i] = rows[i]
      /\ before.state = "RESERVED" /\ after.state \in {"COMPLETE", "FAILED", "AMBIGUOUS"}
      /\ after.epoch = before.epoch /\ after.chunk = before.chunk
      /\ after.reserved = before.reserved
      /\ after.state # "AMBIGUOUS" =>
           proc[o].pc = "settle" /\ before.epoch = proc[o].lease.epoch /\ after.at = now
      /\ after.state = "AMBIGUOUS" => after.at = before.at
      /\ IF after.state = "COMPLETE"
         THEN Stores(o) /\ after.chunk = Item(o).chunk /\ after.reserved = proc[o].checked
         ELSE facts' = facts

LedgerStep(o) ==
  \/ ledger' = ledger /\ facts' = facts
  \/ /\ Verify(o) /\ proc[o].pc \in {"recover", "reserve", "settle"}
     /\ ledger' \in Ledgers
     /\ \A r \in Revisions, k \in Keys :
          r # proc[o].revision \/ k # Key(o) => ledger'[r][k] = ledger[r][k]
     /\ Appends(o) \/ Marks(o)

LEMMA RewriteTyped ==
  ASSUME TypeOK, NEW r \in Revisions, NEW k \in Keys, NEW new \in Seq(Attempts),
         ledger' = [ledger EXCEPT ![r][k] = new]
  PROVE  /\ ledger' \in Ledgers /\ ledger'[r][k] = new
         /\ \A s \in Revisions, j \in Keys : s # r \/ j # k => ledger'[s][j] = ledger[s][j]
BY Shapes DEF Ledgers

LEMMA MarkedIs ==
  ASSUME TypeOK, NEW o \in Owners, Planned(o), proc[o].pc \in Owning, Rows(o) # <<>>,
         NEW state \in States, NEW at \in 0..MaxTime, ledger' = Marked(o, state, at)
  PROVE  /\ ledger' \in Ledgers
         /\ \A r \in Revisions, k \in Keys :
              r # proc[o].revision \/ k # Key(o) => ledger'[r][k] = ledger[r][k]
         /\ LET rows == Rows(o)
                new == ledger'[proc[o].revision][Key(o)]
            IN  /\ Len(new) = Len(rows)
                /\ \A i \in 1..Len(rows) : i # Len(rows) => new[i] = rows[i]
                /\ new[Len(rows)].state = state /\ new[Len(rows)].epoch = rows[Len(rows)].epoch
                /\ new[Len(rows)].chunk = rows[Len(rows)].chunk
                /\ new[Len(rows)].reserved = rows[Len(rows)].reserved
                /\ new[Len(rows)].at = at
<1> DEFINE r == proc[o].revision
           k == Key(o)
           rows == Rows(o)
           n == Len(rows)
           after == [rows[n] EXCEPT !.state = state, !.at = at]
           new == [rows EXCEPT ![n] = after]
<1>1. /\ r \in Revisions /\ k \in Keys /\ rows \in Seq(Attempts) /\ rows = ledger[r][k]
  BY ItemTyped
<1>2. n \in 1..Len(rows) /\ rows[n] \in Attempts
  <2> HIDE DEF rows
  <2>1. rows # <<>> BY DEF rows
  <2>2. Len(rows) \in Nat \ {0} BY <1>1, <2>1, EmptySeq
  <2>3. n \in 1..Len(rows) BY <2>2
  <2> QED BY <1>1, <2>3, ElementOfSeq
<1>3. /\ after \in Attempts /\ after.state = state /\ after.at = at
      /\ after.epoch = rows[n].epoch /\ after.chunk = rows[n].chunk
      /\ after.reserved = rows[n].reserved
  BY <1>2 DEF Attempts
<1>4. ledger' = [ledger EXCEPT ![r][k] = new] BY <1>1, Shapes DEF Marked, Ledgers, Key
<1> HIDE DEF rows, after, r, k
<1>5. /\ new \in Seq(Attempts) /\ Len(new) = Len(rows)
      /\ \A i \in 1..Len(rows) : new[i] = IF i = n THEN after ELSE rows[i]
  BY <1>1, <1>2, <1>3, ExceptSeq
<1> HIDE DEF new
<1>6. /\ ledger' \in Ledgers /\ ledger'[r][k] = new
      /\ \A s \in Revisions, j \in Keys : s # r \/ j # k => ledger'[s][j] = ledger[s][j]
  BY <1>1, <1>4, <1>5, RewriteTyped
<1> QED BY <1>2, <1>3, <1>5, <1>6 DEF rows, r, k

(* An attempt is not repeated before its clock. *)
LEMMA RetryLater ==
  ASSUME NEW row \in Attempts, NEW n \in 1..MaximumAttempts
  PROVE  RetryAt(row, n) \in Nat /\ row.at <= RetryAt(row, n)
<1> DEFINE wait == RetryInitial * 2 ^ (n - 1)
<1>1. n - 1 \in 0..MaximumAttempts BY RolloverAssumption
<1>2. 2 ^ (n - 1) \in Nat BY <1>1, BackoffAssumption
<1>3. wait \in Nat
  <2> DEFINE p == 2 ^ (n - 1)
  <2> HIDE DEF p
  <2>1. p \in Nat BY <1>2 DEF p
  <2>2. RetryInitial * p \in Nat BY <2>1, RolloverAssumption
  <2> QED BY <2>2 DEF p
<1>4. row.at \in Nat BY RolloverAssumption DEF Attempts
<1>5. RetryAt(row, n) = row.at + IF wait < RetryMaximum THEN wait ELSE RetryMaximum
  BY DEF RetryAt
<1> HIDE DEF wait
<1> QED BY <1>3, <1>4, <1>5, RolloverAssumption

LEMMA SlotsTyped == ASSUME NEW k PROVE Slots(k) \in 1..3
BY DEF Slots

LEMMA ReserveAppends ==
  ASSUME IInv, NEW o \in Owners, Reserve(o), ledger' # ledger \/ proc'[o].pc = "send"
  PROVE  /\ Verify(o) /\ ledger' \in Ledgers /\ Appends(o)
         /\ \A r \in Revisions, k \in Keys :
              r # proc[o].revision \/ k # Key(o) => ledger'[r][k] = ledger[r][k]
<1>0. Planned(o) /\ TypeOK BY DEF IInv, Local
<1> DEFINE attempt == [state |-> "RESERVED", epoch |-> proc[o].lease.epoch,
                       chunk |-> Item(o).chunk, reserved |-> proc[o].checked,
                       at |-> proc[o].checked]
           rows == Rows(o)
<1>1. /\ Verify(o) /\ ~Reserved(rows) /\ ~(Len(rows) + 1 > MaximumAttempts)
      /\ ~(rows # <<>> /\ proc[o].checked < RetryAt(LastOf(rows), Len(rows)))
      /\ ~(Spent + Slots(Key(o)) > AccountCeiling)
      /\ facts' = facts /\ proc[o].pc = "reserve"
      /\ ledger' = [ledger EXCEPT ![proc[o].revision][Key(o)] =
                      Append(ledger[proc[o].revision][Key(o)], attempt)]
  BY <1>0, Shapes DEF Reserve, Key, Defer, Goto, Locals
<1>2. /\ rows \in Seq(Attempts) /\ rows = ledger[proc[o].revision][Key(o)]
      /\ proc[o].revision \in Revisions /\ Key(o) \in Keys /\ Len(rows) \in Nat
      /\ Item(o).chunk \in Nat
  BY <1>0, <1>1, ItemTyped DEF Owning
<1>3. attempt \in Attempts
  BY <1>0, <1>2, Shapes DEF Attempts, States, Locals, LeaseRows
<1>4. Len(rows) + 1 <= MaximumAttempts
  <2>1. ~(Len(rows) + 1 > MaximumAttempts) BY <1>1
  <2>2. MaximumAttempts \in Nat BY RolloverAssumption
  <2> HIDE DEF rows
  <2> QED BY <1>2, <2>1, <2>2
<1>5. Spent + Slots(Key(o)) <= AccountCeiling
  <2>1. Spent \in Nat BY RequestsFinite, FS_CardinalityType DEF Spent
  <2>2. Slots(Key(o)) \in Nat BY SlotsTyped
  <2> QED BY <1>1, <2>1, <2>2, RolloverAssumption
<1>6. rows # <<>> => LastOf(rows).at <= proc[o].checked
  <2> SUFFICES ASSUME rows # <<>> PROVE LastOf(rows).at <= proc[o].checked
    OBVIOUS
  <2> HIDE DEF rows
  <2>0. Len(rows) # 0 BY <1>2, EmptySeq
  <2>1. Len(rows) \in 1..MaximumAttempts
    <3>1. Len(rows) \in Nat BY <1>2
    <3>2. MaximumAttempts \in Nat BY RolloverAssumption
    <3> QED BY <1>4, <2>0, <3>1, <3>2
  <2>2. LastOf(rows) \in Attempts
    <3>1. Len(rows) \in 1..Len(rows) BY <2>1
    <3> QED BY <1>2, <3>1, ElementOfSeq DEF LastOf
  <2>3. RetryAt(LastOf(rows), Len(rows)) \in Nat
        /\ LastOf(rows).at <= RetryAt(LastOf(rows), Len(rows))
    BY <2>1, <2>2, RetryLater
  <2>4. ~(proc[o].checked < RetryAt(LastOf(rows), Len(rows))) BY <1>1 DEF rows
  <2>5. proc[o].checked \in Nat /\ LastOf(rows).at \in Nat
    BY <1>0, <2>2, Shapes DEF Locals, Attempts
  <2> QED BY <2>3, <2>4, <2>5
<1> HIDE DEF rows, attempt
<1>7. /\ Append(rows, attempt) \in Seq(Attempts) /\ Len(Append(rows, attempt)) = Len(rows) + 1
      /\ \A i \in 1..Len(rows) : Append(rows, attempt)[i] = rows[i]
      /\ Append(rows, attempt)[Len(rows) + 1] = attempt
  BY <1>2, <1>3, AppendProperties
<1>8. /\ ledger' \in Ledgers /\ ledger'[proc[o].revision][Key(o)] = Append(rows, attempt)
      /\ \A s \in Revisions, j \in Keys :
           s # proc[o].revision \/ j # Key(o) => ledger'[s][j] = ledger[s][j]
  BY <1>0, <1>1, <1>2, <1>7, RewriteTyped
<1> QED BY <1>1, <1>4, <1>5, <1>6, <1>7, <1>8 DEF LedgerStep, Appends, rows, attempt

LEMMA LedgerSteps ==
  ASSUME IInv, NEW o \in Owners, Step(o)
  PROVE  LedgerStep(o)
<1>1. CASE UNCHANGED <<ledger, facts>> BY <1>1 DEF LedgerStep
<1>2. Planned(o) /\ TypeOK BY DEF IInv, Local
<1>3. CASE Recover(o) /\ ledger' # ledger
  <2>1. /\ Verify(o) /\ Reserved(Rows(o)) /\ facts' = facts /\ proc[o].pc = "recover"
        /\ ledger' = Marked(o, "AMBIGUOUS", LastOf(Rows(o)).at)
    BY <1>3 DEF Recover
  <2>2. Rows(o) # <<>> /\ Rows(o)[Len(Rows(o))].state = "RESERVED" BY <2>1 DEF Reserved, LastOf
  <2>3. LastOf(Rows(o)).at \in 0..MaxTime
    <3>1. Rows(o) \in Seq(Attempts) BY <1>2, <2>1, ItemTyped DEF Owning
    <3>2. Len(Rows(o)) \in 1..Len(Rows(o)) BY <2>2, <3>1, EmptySeq
    <3>3. Rows(o)[Len(Rows(o))] \in Attempts BY <3>1, <3>2, ElementOfSeq
    <3> QED BY <3>3 DEF LastOf, Attempts
  <2>4. "AMBIGUOUS" \in States /\ proc[o].pc \in Owning BY <2>1 DEF States, Owning
  <2> QED BY <1>2, <2>1, <2>2, <2>3, <2>4, MarkedIs DEF LedgerStep, Marks, LastOf
<1>4. CASE Reserve(o) /\ ledger' # ledger
  BY <1>4, ReserveAppends DEF Reserve, LedgerStep
<1>5. CASE Settle(o) /\ ~UNCHANGED <<ledger, facts>>
  <2>1. proc[o].pc = "settle" /\ Verify(o) BY <1>5 DEF Settle
  <2>2. Mine(o) /\ proc[o].revision = current BY <2>1 DEF Verify, Valid, Owns, Mine, Row
  <2>3. /\ Rows(o) # <<>> /\ Rows(o)[Len(Rows(o))].state = "RESERVED"
        /\ Rows(o)[Len(Rows(o))].epoch = proc[o].lease.epoch
        /\ Rows(o)[Len(Rows(o))].chunk = Item(o).chunk
        /\ Rows(o)[Len(Rows(o))].reserved = proc[o].checked
    BY <2>1, <2>2 DEF IInv, Local, OwnReservation, LastOf
  <2>4. PICK state \in {"COMPLETE", "FAILED"} :
          /\ ledger' = Marked(o, state, now)
          /\ IF state = "COMPLETE" THEN Stores(o) ELSE facts' = facts
    <3>1. CASE ledger' = Marked(o, "COMPLETE", now) /\ Stores(o) BY <3>1
    <3>2. CASE ledger' = Marked(o, "FAILED", now) /\ facts' = facts BY <3>2
    <3> QED BY <1>5, <3>1, <3>2 DEF Settle, Stores, Key
  <2>5. state \in States /\ now \in 0..MaxTime /\ proc[o].pc \in Owning
    BY <1>2, <2>1, Shapes DEF States, Owning
  <2> QED BY <1>2, <2>1, <2>3, <2>4, <2>5, MarkedIs DEF LedgerStep, Marks
<1> QED BY <1>1, <1>3, <1>4, <1>5
        DEF Step, Begin, Plan, Claim, Recover, Reserve, Send, Answer, Release, Fault, Crash

-----------------------------------------------------------------------------
(* A step of one process keeps what the others know.                          *)

LEMMA Fenced ==
  ASSUME TypeOK, NEW o \in Owners, Verify(o)
  PROVE  Mine(o) /\ proc[o].revision = current /\ Row(o).until > now
BY DEF Verify, Valid, Owns, Mine, Row

(* Two processes never hold one revision's lease. *)
LEMMA Exclusive ==
  ASSUME IInv, NEW o \in Owners, NEW p \in Owners \ {o},
         proc[o].pc \in Owning, proc[p].pc \in Owning,
         proc[o].revision = proc[p].revision, Mine(o), Mine(p)
  PROVE  FALSE
BY DEF IInv, Local, LeaseKnown, Row

LEMMA StepKeeps ==
  ASSUME NEW o \in Owners, Step(o)
  PROVE  now' = now /\ current' = current /\ cohort' = cohort /\ splits' = splits
BY DEF Step, Begin, Plan, Claim, Recover, Reserve, Send, Answer, Settle, Release, Fault, Crash

(* A lease that is still its owner's after the step was so before, unchanged. *)
LEMMA OthersRow ==
  ASSUME IInv, NEW o \in Owners, LeaseStep(o), NEW p \in Owners \ {o}, proc[p].pc \in Owning,
         proc'[p] = proc[p]
  PROVE  /\ Row(p)'.epoch \in Nat /\ Row(p)'.epoch >= Row(p).epoch
         /\ Mine(p)' => Mine(p) /\ Row(p)' = Row(p)
         /\ Mine(p) /\ Row(p).until > now => Mine(p)'
<1> DEFINE r == proc[o].revision
<1>1. TypeOK /\ LeaseKnown(p) /\ LeaseKnown(o) /\ Planned(p) BY DEF IInv, Local
<1>2. /\ proc[p].revision \in Revisions /\ Row(p).epoch \in Nat
      /\ proc[p].lease.epoch \in 1..Row(p).epoch
      /\ Row(p)' = lease'[proc[p].revision]
  BY <1>1, Shapes DEF LeaseKnown, Planned, Row, LeaseRows
<1>3. CASE lease' = lease \/ proc[p].revision # r
  BY <1>2, <1>3 DEF LeaseStep, Row, Mine
<1>4. CASE Claims(o) /\ proc[p].revision = r
  <2>1. Row(p)'.epoch = Row(p).epoch + 1
    BY <1>1, <1>2, <1>4, Shapes DEF Claims, Claimed, Row, LeaseRows
  <2>2. Row(p).epoch = 0 \/ Row(p).until <= now
    <3>1. Row(p).until \in Nat BY <1>1, <1>2, Shapes, LeaseAssumption DEF Row, LeaseRows
    <3>2. proc[o].checked \in Nat /\ proc[o].checked <= now /\ now \in Nat
      BY <1>1, Shapes DEF Locals
    <3> QED BY <1>4, <3>1, <3>2 DEF Claims, Row
  <2>3. Row(p).until \in Nat /\ now \in Nat
    BY <1>1, <1>2, Shapes, LeaseAssumption DEF Row, LeaseRows
  <2>4. ~Mine(p)' BY <1>2, <2>1 DEF Mine
  <2> QED BY <1>2, <2>1, <2>2, <2>3, <2>4
<1>5. CASE Mine(o) /\ proc[o].pc = "release" /\ proc[p].revision = r /\ lease'[r].epoch = lease[r].epoch
  <2>1. ~Mine(p) BY <1>5, Exclusive DEF Owning
  <2> QED BY <1>2, <1>5, <2>1 DEF Mine, Row
<1> QED BY <1>3, <1>4, <1>5 DEF LeaseStep

LEMMA OthersKeepLocal ==
  ASSUME IInv, NEW o \in Owners, Step(o), NEW p \in Owners \ {o}
  PROVE  Local(p)'
<1>1. TypeOK /\ Planned(o) /\ Local(p) BY DEF IInv, Local
<1>2. LocalTyped(o) /\ LeaseStep(o) /\ LedgerStep(o)
  BY <1>1, LocalsTyped, LeaseSteps, LedgerSteps
<1>3. /\ proc'[p] = proc[p] /\ now' = now /\ current' = current
      /\ cohort' = cohort /\ splits' = splits
      /\ Item(p)' = Item(p) /\ Key(p)' = Key(p)
  BY <1>2, StepKeeps DEF LocalTyped, Item, Key
<1>4. Planned(p)' BY <1>1, <1>3 DEF Local, Planned
<1>5. ASSUME proc[p].pc \in Owning
      PROVE  LeaseKnown(p)' /\ StaysMissing(p)' /\ OwnReservation(p)'
  <2>1. /\ Row(p)'.epoch \in Nat /\ Row(p)'.epoch >= Row(p).epoch
        /\ Mine(p)' => Mine(p) /\ Row(p)' = Row(p)
        /\ Mine(p) /\ Row(p).until > now => Mine(p)'
    BY <1>2, <1>3, <1>5, OthersRow
  <2>2. Row(p).epoch \in Nat
    BY <1>1, <1>5, Shapes DEF Local, Planned, Row, LeaseRows
  <2>3. LeaseKnown(p)' BY <1>1, <1>3, <1>5, <2>1, <2>2 DEF Local, LeaseKnown
  (* Whoever writes the ledger or the facts holds the current revision's lease. *)
  <2>5. Mine(p) /\ ~(ledger' = ledger /\ facts' = facts) => proc[o].revision # proc[p].revision
    BY <1>1, <1>2, <1>5, Fenced, Exclusive DEF LedgerStep, Owning
  <2>6. ~(ledger' = ledger /\ facts' = facts) => proc[o].revision = current
    BY <1>1, <1>2, Fenced DEF LedgerStep
  <2>7. StaysMissing(p)'
    <3> SUFFICES ASSUME proc[p].pc = "reserve", Mine(p), proc[p].revision = current
                 PROVE  Missing(Key(p), Item(p).chunk, proc[p].checked)'
      BY <1>3, <2>1 DEF StaysMissing
    <3>1. Missing(Key(p), Item(p).chunk, proc[p].checked) BY <1>1 DEF Local, StaysMissing
    <3>2. facts' = facts BY <2>5, <2>6
    <3> QED BY <1>3, <3>1, <3>2 DEF Missing, Seen, Stale
  <2>8. OwnReservation(p)'
    <3> SUFFICES ASSUME proc[p].pc \in {"send", "await", "settle"}, Mine(p)
                 PROVE  Rows(p)' = Rows(p)
      BY <1>1, <1>3, <2>1 DEF Local, OwnReservation
    <3>1. proc[p].revision \in Revisions /\ Key(p) \in Keys
      BY <1>1, <1>5, ItemTyped DEF Local
    <3>2. ledger'[proc[p].revision][Key(p)] = ledger[proc[p].revision][Key(p)]
      BY <1>2, <2>5, <3>1 DEF LedgerStep
    <3> QED BY <1>3, <3>2 DEF Rows, Key
  <2> QED BY <2>3, <2>7, <2>8
<1>6. ASSUME proc[p].pc \notin Owning
      PROVE  LeaseKnown(p)' /\ StaysMissing(p)' /\ OwnReservation(p)'
  BY <1>3, <1>6 DEF Owning, LeaseKnown, StaysMissing, OwnReservation
<1> QED BY <1>4, <1>5, <1>6 DEF Local

-----------------------------------------------------------------------------
(* A step of a process keeps what it knows itself.                            *)

LEMMA OutsideKeeps ==
  ASSUME NEW o \in Owners, proc'[o].pc \in {"off", "plan", "claim"}, Planned(o)'
  PROVE  Local(o)'
BY DEF Local, LeaseKnown, StaysMissing, OwnReservation, Owning

LEMMA PassKeeps ==
  ASSUME IInv, NEW o \in Owners, Begin(o) \/ Plan(o) \/ Claim(o) \/ Release(o) \/ Crash(o)
  PROVE  Local(o)'
<1>1. TypeOK /\ Planned(o) BY DEF IInv, Local
<1>2. CASE proc'[o] = Off
  <2>1. proc'[o].pc = "off" BY <1>2 DEF Off
  <2> QED BY <2>1, OutsideKeeps DEF Planned, Owning
<1>3. CASE proc'[o].pc = "plan" BY <1>3, OutsideKeeps DEF Planned, Owning
<1>4. CASE proc'[o].pc = "claim" /\ proc'[o].revision \in Revisions /\ proc'[o].plan # {}
  BY <1>4, OutsideKeeps DEF Planned, Owning
<1>5. CASE Claims(o) /\ Claim(o)
  <2> DEFINE r == proc[o].revision
  <2>1. /\ r \in Revisions /\ proc[o].plan # {} /\ lease[r] \in LeaseRows
        /\ lease[r].epoch \in Nat
    BY <1>1, <1>5, Shapes DEF Claim, Planned, LeaseRows
  <2>2. /\ proc'[o].pc = "recover" /\ proc'[o].revision = r /\ proc'[o].plan = proc[o].plan
        /\ proc'[o].lease = Claimed(lease[r], o, proc[o].checked)
        /\ lease'[r] = Claimed(lease[r], o, proc[o].checked)
    BY <1>1, <1>5, <2>1, Shapes DEF Claims
  <2>3. Planned(o)' BY <2>1, <2>2 DEF Planned
  <2>4. LeaseKnown(o)' BY <2>1, <2>2 DEF LeaseKnown, Row, Mine, Claimed
  <2> QED BY <2>2, <2>3, <2>4 DEF Local, StaysMissing, OwnReservation
<1> QED BY <1>1, <1>2, <1>3, <1>4, <1>5, BeginTyped, PlanTyped, ClaimTyped, ReleaseTyped,
        BecomesOff DEF Crash

LEMMA WorkKeeps ==
  ASSUME IInv, NEW o \in Owners,
         Recover(o) \/ Reserve(o) \/ Send(o) \/ Answer(o) \/ Settle(o) \/ Fault(o)
  PROVE  Local(o)'
<1>1. TypeOK /\ Local(o) BY DEF IInv
<1>2. /\ LocalTyped(o) /\ SameWork(o)
      /\ proc[o].pc \in {"recover", "reserve", "send", "await", "settle"}
      /\ proc'[o].pc \in {"reserve", "send", "await", "settle", "release"}
      /\ proc'[o].pc = "reserve" => Recover(o) /\ Verify(o) /\ StillDue(o, Item(o))
      /\ proc'[o].pc = "send" => Reserve(o)
      /\ proc'[o].pc = "await" => proc[o].pc = "send"
      /\ proc'[o].pc = "settle" => proc[o].pc \in {"send", "await"}
  BY <1>1, Moves
<1>3. /\ lease' = lease /\ now' = now /\ current' = current
      /\ cohort' = cohort /\ splits' = splits
  BY DEF Recover, Reserve, Send, Answer, Settle, Fault
<1>4. Row(o)' = Row(o) /\ (Mine(o)' <=> Mine(o)) BY <1>2, <1>3 DEF SameWork, Row, Mine
<1>5. Planned(o)' BY <1>1, <1>2 DEF Local, Planned, SameWork, Owning
<1>6. LeaseKnown(o)' BY <1>1, <1>2, <1>4 DEF Local, LeaseKnown, SameWork, Owning
<1>7. StaysMissing(o)'
  <2> SUFFICES ASSUME proc'[o].pc = "reserve" PROVE Missing(Key(o), Item(o).chunk, proc[o].checked)'
    BY DEF StaysMissing
  <2>1. Recover(o) /\ StillDue(o, Item(o)) BY <1>2
  <2>2. Missing(Key(o), Item(o).chunk, proc[o].checked) BY <2>1, DueTyped DEF StillDue, Key
  <2>3. facts' = facts BY <2>1 DEF Recover
  <2> QED BY <1>2, <1>3, <2>2, <2>3 DEF SameWork, Missing, Seen, Stale
<1>8. proc'[o].pc = "send" => Appends(o) BY <1>2, ReserveAppends
<1>9. OwnReservation(o)'
  <2>1. CASE proc'[o].pc \in {"reserve", "release"} BY <2>1 DEF OwnReservation
  <2>2. CASE proc'[o].pc = "send"
    <3>1. Appends(o) BY <1>8, <2>2
    <3>2. Rows(o)' = ledger'[proc[o].revision][Key(o)] BY <1>2 DEF Rows, SameWork, Key
    <3>3. Len(Rows(o)) \in Nat BY <1>1, <1>2, ItemTyped DEF Local, Owning
    <3>4. /\ Len(Rows(o)') = Len(Rows(o)) + 1
          /\ LastOf(Rows(o)') = [state |-> "RESERVED", epoch |-> proc[o].lease.epoch,
                                 chunk |-> Item(o).chunk, reserved |-> proc[o].checked,
                                 at |-> proc[o].checked]
      BY <3>1, <3>2 DEF Appends, LastOf
    <3>5. Rows(o)' # <<>> BY <3>3, <3>4, Len(<<>>) = 0
    <3> QED BY <1>2, <3>4, <3>5 DEF OwnReservation, SameWork, LastOf
  <2>3. CASE proc'[o].pc \in {"await", "settle"}
    <3>1. proc[o].pc \in {"send", "await"} BY <1>2, <2>3
    <3>2. ledger' = ledger BY <3>1 DEF Recover, Reserve, Send, Answer, Settle, Fault, Goto
    <3>3. Rows(o)' = Rows(o) BY <1>2, <3>2 DEF Rows, SameWork
    <3> QED BY <1>1, <1>2, <1>4, <3>1, <3>3 DEF Local, OwnReservation, SameWork, LastOf
  <2> QED BY <1>2, <2>1, <2>2, <2>3
<1> QED BY <1>5, <1>6, <1>7, <1>9 DEF Local

LEMMA StepKeepsLocal ==
  ASSUME IInv, NEW o \in Owners, Step(o)
  PROVE  \A p \in Owners : Local(p)'
BY OthersKeepLocal, PassKeeps, WorkKeeps DEF Step

-----------------------------------------------------------------------------
(* A step keeps the ledger.                                                   *)

(* What a process that writes the ledger finds there. *)
LEMMA Writing ==
  ASSUME IInv, NEW o \in Owners, Step(o), ~(ledger' = ledger /\ facts' = facts)
  PROVE  /\ Verify(o) /\ proc[o].revision = current /\ Mine(o) /\ LeaseKnown(o)
         /\ Row(o).until > now
         /\ Key(o) \in Keys /\ Item(o).chunk \in Nat
         /\ Rows(o) = ledger[current][Key(o)] /\ Rows(o) \in Seq(Attempts)
         /\ Len(Rows(o)) \in Nat
         /\ ledger' \in Ledgers
         /\ \A r \in Revisions, k \in Keys :
              r # current \/ k # Key(o) => ledger'[r][k] = ledger[r][k]
         /\ proc[o].pc \in Owning
         /\ Appends(o) \/ Marks(o)
<1>1. TypeOK /\ Local(o) BY DEF IInv
<1>2. LedgerStep(o) BY LedgerSteps
<1>3. Verify(o) /\ proc[o].pc \in Owning BY <1>2 DEF LedgerStep, Owning
<1>4. Mine(o) /\ proc[o].revision = current /\ Row(o).until > now BY <1>1, <1>3, Fenced
<1>5. /\ Key(o) \in Keys /\ Item(o).chunk \in Nat /\ Rows(o) = ledger[current][Key(o)]
      /\ Rows(o) \in Seq(Attempts) /\ Len(Rows(o)) \in Nat
  BY <1>1, <1>3, <1>4, ItemTyped DEF Local
<1> QED BY <1>1, <1>2, <1>3, <1>4, <1>5 DEF LedgerStep, Local

(* The rows of an authorization before and after a step, one by one: all but the *)
(* last stay as they are, and at most one is added.                              *)
LEMMA RowsKept ==
  ASSUME IInv, NEW o \in Owners, Step(o), NEW r \in Revisions, NEW k \in Keys
  PROVE  /\ Len(ledger[r][k]) \in Nat /\ DOMAIN ledger[r][k] = 1..Len(ledger[r][k])
         /\ Len(ledger'[r][k]) \in Nat /\ DOMAIN ledger'[r][k] = 1..Len(ledger'[r][k])
         /\ Len(ledger'[r][k]) >= Len(ledger[r][k])
         /\ \A i \in 1..Len(ledger[r][k]) :
              /\ ledger'[r][k][i].chunk = ledger[r][k][i].chunk
              /\ ledger'[r][k][i].reserved = ledger[r][k][i].reserved
              /\ ledger'[r][k][i] # ledger[r][k][i] =>
                   /\ ledger[r][k][i].state = "RESERVED"
                   /\ r = current /\ k = Key(o) /\ i = Len(ledger[r][k]) /\ Marks(o)
<1>1. TypeOK BY DEF IInv
<1>2. ledger[r][k] \in Seq(Attempts) BY <1>1, Shapes DEF Ledgers
<1>3. Len(ledger[r][k]) \in Nat /\ DOMAIN ledger[r][k] = 1..Len(ledger[r][k])
  BY <1>2, LenProperties
<1>4. CASE ledger' = ledger BY <1>3, <1>4
<1>5. CASE ledger' # ledger
  <2>1. /\ ledger' \in Ledgers /\ (Appends(o) \/ Marks(o))
        /\ r # current \/ k # Key(o) => ledger'[r][k] = ledger[r][k]
        /\ Rows(o) = ledger[current][Key(o)] /\ proc[o].revision = current
    BY <1>5, Writing
  <2>2. ledger'[r][k] \in Seq(Attempts) BY <2>1 DEF Ledgers
  <2>3. Len(ledger'[r][k]) \in Nat /\ DOMAIN ledger'[r][k] = 1..Len(ledger'[r][k])
    BY <2>2, LenProperties
  <2>4. CASE r # current \/ k # Key(o) BY <1>3, <2>1, <2>4
  <2>5. CASE r = current /\ k = Key(o)
    <3>1. CASE Appends(o)
      <4>1. /\ Len(ledger'[r][k]) = Len(ledger[r][k]) + 1
            /\ \A i \in 1..Len(ledger[r][k]) : ledger'[r][k][i] = ledger[r][k][i]
        BY <2>1, <2>5, <3>1 DEF Appends
      <4>2. Len(ledger'[r][k]) >= Len(ledger[r][k]) BY <1>3, <4>1
      <4>3. \A i \in 1..Len(ledger[r][k]) :
              /\ ledger'[r][k][i].chunk = ledger[r][k][i].chunk
              /\ ledger'[r][k][i].reserved = ledger[r][k][i].reserved
              /\ ledger'[r][k][i] = ledger[r][k][i]
        BY <4>1
      <4> QED BY <1>3, <2>3, <4>2, <4>3, Zenon
    <3>2. CASE Marks(o)
      <4>1. /\ Len(ledger'[r][k]) = Len(ledger[r][k])
            /\ \A i \in 1..Len(ledger[r][k]) :
                 i # Len(ledger[r][k]) => ledger'[r][k][i] = ledger[r][k][i]
            /\ ledger'[r][k][Len(ledger[r][k])].chunk = ledger[r][k][Len(ledger[r][k])].chunk
            /\ ledger'[r][k][Len(ledger[r][k])].reserved = ledger[r][k][Len(ledger[r][k])].reserved
            /\ ledger[r][k][Len(ledger[r][k])].state = "RESERVED"
        BY <2>1, <2>5, <3>2 DEF Marks
      <4> QED BY <1>3, <2>3, <2>5, <3>2, <4>1
    <3> QED BY <2>1, <3>1, <3>2
  <2> QED BY <2>4, <2>5
<1> QED BY <1>4, <1>5

(* What persist_realtime_equity_bars_cursor leaves behind. *)
LEMMA PersistedIs ==
  ASSUME NEW old \in Bars, NEW observed \in 0..MaxTime, NEW t \in 0..MaxTime,
         NEW bar \in Persisted(old, observed, t)
  PROVE  /\ bar \in Bars /\ bar.kept
         /\ bar.updated = t \/ (old.kept /\ bar.updated = old.updated)
         /\ bar.observed = observed \/ (old.kept /\ bar.observed = old.observed)
<1> DEFINE new == [kept |-> TRUE, observed |-> observed, updated |-> t]
           again == [old EXCEPT !.updated = t]
<1>1. new \in Bars /\ new.kept /\ new.updated = t /\ new.observed = observed BY DEF Bars
<1>2. /\ again \in Bars /\ again.kept = old.kept /\ again.updated = t
      /\ again.observed = old.observed
  BY DEF Bars
<1> HIDE DEF new, again
<1>3. CASE ~old.kept BY <1>1, <1>3, Zenon DEF Persisted, new
<1>4. CASE old.kept
  <2>1. bar = again \/ bar = new \/ bar = old BY <1>4, Zenon DEF Persisted, new, again
  <2> QED BY <1>1, <1>2, <1>4, <2>1, Zenon
<1> QED BY <1>3, <1>4

(* The facts after a step: one bar is stored with the outcome of its attempt. *)
LEMMA FactStep ==
  ASSUME IInv, NEW o \in Owners, Step(o), facts' # facts
  PROVE  /\ Marks(o) /\ Key(o) \in Keys /\ Item(o).chunk \in Nat
         /\ <<Key(o), Item(o).chunk>> \in Pieces
         /\ ledger'[current][Key(o)][Len(Rows(o))].state = "COMPLETE"
         /\ \E bar \in Persisted(facts[<<Key(o), Item(o).chunk>>][cohort.id], proc[o].checked, now) :
              facts' = [facts EXCEPT ![<<Key(o), Item(o).chunk>>][cohort.id] = bar]
<1>1. TypeOK /\ Planned(o) BY DEF IInv, Local
<1>2. (Appends(o) \/ Marks(o)) /\ proc[o].revision = current /\ proc[o].pc \in Owning
  BY Writing
<1>3. Marks(o) BY <1>2 DEF Appends
<1>4. Stores(o) /\ ledger'[current][Key(o)][Len(Rows(o))].state = "COMPLETE"
  BY <1>2, <1>3 DEF Marks
<1>5. Key(o) \in Keys /\ Item(o).chunk \in Nat /\ <<Key(o), Item(o).chunk>> \in Pieces
  BY <1>1, <1>2, ItemTyped
<1> QED BY <1>3, <1>4, <1>5 DEF Stores

(* Facts stay, but for the bar that is stored. *)
LEMMA FactsTyped ==
  ASSUME IInv, NEW o \in Owners, Step(o)
  PROVE  /\ facts' \in [Pieces -> [Cohorts -> Bars]]
         /\ \A piece \in Pieces, h \in Cohorts : facts[piece][h].kept => facts'[piece][h].kept
<1>1. facts \in [Pieces -> [Cohorts -> Bars]] BY Shapes DEF IInv
<1>2. CASE facts' = facts BY <1>1, <1>2
<1>3. CASE facts' # facts
  <2> DEFINE piece == <<Key(o), Item(o).chunk>>
  <2>1. piece \in Pieces BY <1>3, FactStep
  <2>2. PICK bar \in Persisted(facts[piece][cohort.id], proc[o].checked, now) :
          facts' = [facts EXCEPT ![piece][cohort.id] = bar]
    BY <1>3, FactStep
  <2>3. /\ cohort.id \in Cohorts /\ facts[piece][cohort.id] \in Bars
        /\ proc[o].checked \in 0..MaxTime /\ now \in 0..MaxTime
    BY <1>1, <2>1, Shapes DEF IInv, Locals
  <2>4. bar \in Bars /\ bar.kept BY <2>3, PersistedIs
  <2> HIDE DEF piece
  <2> QED BY <1>1, <2>1, <2>2, <2>3, <2>4
<1> QED BY <1>2, <1>3

LEMMA StepTypeOK ==
  ASSUME IInv, NEW o \in Owners, Step(o)
  PROVE  TypeOK' /\ NoneAhead'
<1>1. TypeOK /\ Planned(o) BY DEF IInv, Local
<1>2. LocalTyped(o) /\ LeaseStep(o) /\ now' = now /\ current' = current
  BY <1>1, LocalsTyped, LeaseSteps, StepKeeps
<1>3. ledger' \in Ledgers
  <2>1. CASE ledger' = ledger BY <1>1, <2>1, Shapes
  <2> QED BY <2>1, Writing
<1>4. \A p \in Owners : proc'[p].checked <= now /\ proc'[p].revision <= current
  BY <1>1, <1>2, Shapes DEF LocalTyped
<1>5. ASSUME NEW r \in Revisions, NEW k \in Keys, NEW i \in DOMAIN ledger'[r][k],
             ledger'[r][k][i].state = "RESERVED"
      PROVE  i = Len(ledger'[r][k])
  <2> DEFINE n == Len(ledger[r][k])
  <2>1. /\ n \in Nat /\ DOMAIN ledger[r][k] = 1..n /\ Len(ledger'[r][k]) \in Nat
        /\ i \in 1..Len(ledger'[r][k])
    BY RowsKept
  <2>2. CASE ledger'[r][k] = ledger[r][k] BY <1>1, <1>5, <2>2 DEF TypeOK
  <2>3. CASE ledger'[r][k] # ledger[r][k]
    <3>1. /\ r = current /\ k = Key(o) /\ proc[o].revision = current
          /\ Rows(o) = ledger[r][k] /\ (Appends(o) \/ Marks(o))
      BY <2>3, Writing
    <3>2. \A j \in 1..n : ledger[r][k][j].state = "RESERVED" => j = n
      BY <1>1, <2>1 DEF TypeOK
    <3>3. CASE Appends(o)
      <4>1. /\ Len(ledger'[r][k]) = n + 1 /\ ~Reserved(ledger[r][k])
            /\ \A j \in 1..n : ledger'[r][k][j] = ledger[r][k][j]
        BY <3>1, <3>3 DEF Appends
      <4>2. n > 0 => ledger[r][k][n].state # "RESERVED"
        BY <4>1, EmptySeq DEF Reserved, LastOf
      <4> QED BY <1>5, <2>1, <3>2, <4>1, <4>2
    <3>4. CASE Marks(o)
      <4>1. /\ Len(ledger'[r][k]) = n /\ ledger'[r][k][n].state # "RESERVED"
            /\ \A j \in 1..n : j # n => ledger'[r][k][j] = ledger[r][k][j]
        BY <3>1, <3>4 DEF Marks
      <4> QED BY <1>5, <2>1, <3>2, <4>1
    <3> QED BY <3>1, <3>3, <3>4
  <2> QED BY <2>2, <2>3
<1>6. TypeOK'
  <2>1. cohort' = cohort /\ splits' = splits BY StepKeeps
  <2> QED BY <1>1, <1>2, <1>3, <1>4, <1>5, <2>1, FactsTyped DEF TypeOK, LocalTyped, LeaseStep, Ledgers
<1>7. NoneAhead'
  <2>1. ASSUME NEW r \in Revisions, NEW k \in Keys, r > current
        PROVE  ledger'[r][k] = ledger[r][k]
    <3>1. r # current BY <1>1, <2>1, Shapes
    <3> QED BY <3>1, Writing
  <2> QED BY <1>2, <2>1 DEF IInv, NoneAhead
<1> QED BY <1>6, <1>7

(* The slots of one attempt. *)
LEMMA SlotsOfAttempt ==
  ASSUME NEW x, NEW j, NEW n \in Nat
  PROVE  LET slots == {<<x, <<j, i>>>> : i \in 1..n}
         IN  IsFiniteSet(slots) /\ Cardinality(slots) <= n
<1> DEFINE slots == {<<x, <<j, i>>>> : i \in 1..n}
           f == [i \in 1..n |-> <<x, <<j, i>>>>]
<1>1. f \in Surjection(1..n, slots) BY DEF Surjection
<1>2. IsFiniteSet(1..n) /\ Cardinality(1..n) = n BY FS_Interval
<1> HIDE DEF slots, f
<1>3. IsFiniteSet(slots) /\ Cardinality(slots) <= Cardinality(1..n) BY <1>1, <1>2, FS_Surjection
<1> QED BY <1>2, <1>3 DEF slots

LEMMA StepBudget ==
  ASSUME IInv, NEW o \in Owners, Step(o)
  PROVE  BudgetHeld'
<1>1. TypeOK BY DEF IInv
<1>2. Cardinality(Requests) <= AccountCeiling /\ Cardinality(Requests) \in Nat
  BY RequestsFinite, FS_CardinalityType DEF IInv, BudgetHeld, Requests
<1>3. CASE ~Appends(o) \/ ledger' = ledger
  <2>1. ASSUME NEW r \in Revisions, NEW k \in Keys
        PROVE  Len(ledger'[r][k]) = Len(ledger[r][k])
    <3>1. CASE ledger'[r][k] = ledger[r][k] BY <3>1
    <3>2. CASE ledger'[r][k] # ledger[r][k]
      <4>1. /\ r = current /\ k = Key(o) /\ proc[o].revision = current
            /\ Rows(o) = ledger[r][k] /\ Marks(o)
        BY <1>3, <3>2, Writing
      <4> QED BY <4>1 DEF Marks
    <3> QED BY <3>1, <3>2
  <2>2. Requests' = Requests BY <2>1 DEF Requests
  <2> QED BY <1>2, <2>1, <2>2 DEF IInv, BudgetHeld, Requests
<1>4. CASE Appends(o) /\ ledger' # ledger
  <2> DEFINE k == Key(o)
             n == Len(ledger[current][k])
             new == {<<<<current, k>>, <<n + 1, i>>>> : i \in 1..Slots(k)}
  <2>1. /\ k \in Keys /\ n \in Nat /\ current \in Revisions /\ proc[o].revision = current
        /\ Rows(o) = ledger[current][k]
        /\ \A r \in Revisions, j \in Keys :
             r # current \/ j # k => ledger'[r][j] = ledger[r][j]
    BY <1>1, <1>4, Writing, Shapes
  <2>2. /\ Len(ledger'[current][k]) = n + 1 /\ n + 1 <= MaximumAttempts
        /\ Spent + Slots(k) <= AccountCeiling
    BY <1>4, <2>1 DEF Appends
  <2>3. Slots(k) \in Nat BY SlotsTyped
  <2>4. IsFiniteSet(new) /\ Cardinality(new) <= Slots(k) /\ Cardinality(new) \in Nat
    <3>1. IsFiniteSet(new) /\ Cardinality(new) <= Slots(k) BY <2>3, SlotsOfAttempt
    <3> QED BY <3>1, FS_CardinalityType
  <2>5. Requests' \subseteq Requests \cup new
    <3>1. ASSUME NEW x \in Requests', x \notin Requests PROVE x \in new
      <4>1. PICK r \in Revisions, j \in Keys, a \in 1..MaximumAttempts, i \in 1..3 :
              x = <<<<r, j>>, <<a, i>>>>
        BY <3>1 DEF Requests
      <4>2. a <= Len(ledger'[r][j]) /\ i <= Slots(j) BY <3>1, <4>1 DEF Requests
      <4>3. ~(a <= Len(ledger[r][j])) BY <3>1, <4>1, <4>2 DEF Requests
      <4>4. r = current /\ j = k BY <2>1, <4>2, <4>3
      <4>5. a = n + 1
        <5>1. a \in Int /\ a <= n + 1 /\ ~(a <= n) BY <2>2, <4>2, <4>3, <4>4
        <5> QED BY <2>1, <5>1
      <4>6. i \in 1..Slots(k) BY <2>3, <4>2, <4>4
      <4> QED BY <4>1, <4>4, <4>5, <4>6
    <3> QED BY <3>1
  <2>6. Cardinality(Requests') <= AccountCeiling
    <3> HIDE DEF new, k
    <3>1. /\ IsFiniteSet(Requests \cup new)
          /\ Cardinality(Requests \cup new)
              = Cardinality(Requests) + Cardinality(new) - Cardinality(Requests \cap new)
      BY <2>4, RequestsFinite, FS_Union
    <3>2. Cardinality(Requests \cap new) \in Nat
      BY RequestsFinite, FS_Intersection, FS_CardinalityType
    <3>3. Cardinality(Requests') <= Cardinality(Requests \cup new)
      BY <2>5, <3>1, FS_Subset
    <3>4. IsFiniteSet(Requests') BY <2>5, <3>1, FS_Subset
    <3>5. Cardinality(Requests') \in Nat /\ Cardinality(Requests \cup new) \in Nat
      BY <3>1, <3>4, FS_CardinalityType
    <3>6. AccountCeiling \in Nat BY RolloverAssumption
    <3> QED BY <1>2, <2>2, <2>3, <2>4, <3>1, <3>2, <3>3, <3>5, <3>6 DEF Spent
  <2>7. \A r \in Revisions, j \in Keys : Len(ledger'[r][j]) <= MaximumAttempts
    <3>1. ASSUME NEW r \in Revisions, NEW j \in Keys
          PROVE  Len(ledger'[r][j]) <= MaximumAttempts
      <4>1. CASE r = current /\ j = k BY <2>2, <4>1
      <4>2. CASE r # current \/ j # k BY <2>1, <4>2 DEF IInv, BudgetHeld
      <4> QED BY <4>1, <4>2
    <3> QED BY <3>1
  <2> QED BY <2>6, <2>7 DEF BudgetHeld, Requests
<1> QED BY <1>3, <1>4

LEMMA StepOrdered ==
  ASSUME IInv, NEW o \in Owners, Step(o)
  PROVE  Ordered'
<1>1. TypeOK /\ Ordered /\ now' = now BY StepKeeps DEF IInv
<1> SUFFICES ASSUME NEW r \in Revisions, NEW k \in Keys, NEW j \in DOMAIN ledger'[r][k]
             PROVE  /\ ledger'[r][k][j].reserved <= ledger'[r][k][j].at
                    /\ ledger'[r][k][j].at <= now
                    /\ \A i \in DOMAIN ledger'[r][k] :
                         i < j => ledger'[r][k][i].at <= ledger'[r][k][j].reserved
  BY <1>1 DEF Ordered
<1> DEFINE n == Len(ledger[r][k])
<1>2. /\ n \in Nat /\ DOMAIN ledger[r][k] = 1..n /\ DOMAIN ledger'[r][k] = 1..Len(ledger'[r][k])
  BY RowsKept
<1>3. \A i \in 1..n : ledger[r][k][i].reserved \in Nat /\ ledger[r][k][i].at \in Nat
  <2>1. ledger[r][k] \in Seq(Attempts) BY <1>1, Shapes DEF Ledgers
  <2>2. \A i \in 1..n : ledger[r][k][i] \in Attempts BY <2>1, ElementOfSeq
  <2> QED BY <2>2 DEF Attempts
<1>4. \A i \in 1..n : /\ ledger[r][k][i].reserved <= ledger[r][k][i].at
                      /\ ledger[r][k][i].at <= now
                      /\ \A l \in 1..n : l < i => ledger[r][k][l].at <= ledger[r][k][i].reserved
  BY <1>1, <1>2 DEF Ordered
<1>5. CASE ledger'[r][k] = ledger[r][k] BY <1>2, <1>4, <1>5
<1>6. CASE ledger'[r][k] # ledger[r][k]
  <2>1. /\ r = current /\ k = Key(o) /\ proc[o].revision = current
        /\ Rows(o) = ledger[r][k] /\ (Appends(o) \/ Marks(o))
    BY <1>6, Writing
  <2>2. proc[o].checked \in Nat /\ proc[o].checked <= now /\ now \in Nat
    BY <1>1, Shapes DEF Locals
  <2> DEFINE old == ledger[r][k]
             new == ledger'[r][k]
  <2>3. old \in Seq(Attempts) /\ (old # <<>> => n \in 1..n)
    <3>1. old \in Seq(Attempts) BY <1>1, Shapes DEF Ledgers
    <3> QED BY <1>2, <3>1, EmptySeq
  <2>4. ASSUME Appends(o)
        PROVE  /\ Len(new) = n + 1 /\ \A i \in 1..n : new[i] = old[i]
               /\ new[n + 1].reserved = proc[o].checked /\ new[n + 1].at = proc[o].checked
               /\ old # <<>> => old[n].at <= proc[o].checked
    BY <2>1, <2>4 DEF Appends, LastOf
  <2>5. ASSUME Marks(o)
        PROVE  /\ Len(new) = n /\ old # <<>> /\ \A i \in 1..n : i # n => new[i] = old[i]
               /\ new[n].reserved = old[n].reserved
               /\ new[n].at = now \/ new[n].at = old[n].at
    BY <2>1, <2>5 DEF Marks
  <2>6. /\ DOMAIN old = 1..n /\ DOMAIN new = 1..Len(new) /\ j \in 1..Len(new)
        /\ \A i \in 1..n : old[i].reserved \in Nat /\ old[i].at \in Nat
        /\ \A i \in 1..n : /\ old[i].reserved <= old[i].at /\ old[i].at <= now
                          /\ \A l \in 1..n : l < i => old[l].at <= old[i].reserved
    BY <1>2, <1>3, <1>4
  <2> SUFFICES /\ new[j].reserved <= new[j].at /\ new[j].at <= now
               /\ \A i \in 1..Len(new) : i < j => new[i].at <= new[j].reserved
    BY <2>6
  <2> HIDE DEF old, new, n
  <2>7. CASE Appends(o)
    <3>1. ASSUME NEW i \in 1..n PROVE old[i].at <= proc[o].checked
      <4>1. old # <<>> BY <1>2, <2>3, <2>6 DEF n, old
      <4>2. n \in 1..n /\ old[n].at <= proc[o].checked BY <2>3, <2>4, <2>7, <4>1
      <4>3. i < n => old[i].at <= old[n].reserved /\ old[n].reserved <= old[n].at
        BY <2>6, <4>2
      <4>4. old[i].at \in Nat /\ old[n].at \in Nat /\ old[n].reserved \in Nat BY <2>6, <4>2
      <4> QED BY <1>2, <2>2, <4>2, <4>3, <4>4
    <3>2. CASE j \in 1..n
      <4>1. \A i \in 1..Len(new) : i < j => i \in 1..n BY <1>2, <2>4, <2>7, <3>2
      <4> QED BY <2>4, <2>6, <2>7, <3>2, <4>1
    <3>3. CASE j = n + 1
      <4>1. \A i \in 1..Len(new) : i < j => i \in 1..n BY <1>2, <2>4, <2>7, <3>3
      <4>2. new[j].reserved = proc[o].checked /\ new[j].at = proc[o].checked
        BY <2>4, <2>7, <3>3
      <4> QED BY <2>2, <2>4, <2>7, <3>1, <4>1, <4>2
    <3> QED BY <1>2, <2>4, <2>6, <2>7, <3>2, <3>3
  <2>8. CASE Marks(o)
    <3>1. n \in 1..n BY <2>3, <2>5, <2>8
    <3>2. \A i \in 1..n : new[i].reserved = old[i].reserved BY <2>5, <2>8
    <3>3. \A i \in 1..n : i < j => new[i] = old[i]
      <4>1. j <= n BY <2>5, <2>6, <2>8
      <4> QED BY <1>2, <2>5, <2>6, <2>8, <4>1
    <3>4. new[j].reserved <= new[j].at /\ new[j].at <= now
      <4>1. CASE j = n
        <5>1. /\ old[n].reserved \in Nat /\ old[n].at \in Nat
              /\ old[n].reserved <= old[n].at /\ old[n].at <= now
          BY <2>6, <3>1
        <5>2. new[j].reserved = old[n].reserved /\ (new[j].at = now \/ new[j].at = old[n].at)
          BY <2>5, <2>8, <4>1
        <5> QED BY <2>2, <5>1, <5>2
      <4>2. CASE j # n BY <2>5, <2>6, <2>8, <4>2
      <4> QED BY <4>1, <4>2
    <3>5. ASSUME NEW i \in 1..n, i < j PROVE new[i].at <= new[j].reserved
      <4>1. j \in 1..n BY <2>5, <2>6, <2>8
      <4>2. old[i].at <= old[j].reserved BY <2>6, <3>5, <4>1
      <4> QED BY <3>2, <3>3, <3>5, <4>1, <4>2
    <3>6. Len(new) = n BY <2>5, <2>8
    <3> QED BY <3>4, <3>5, <3>6
  <2> QED BY <2>1, <2>7, <2>8
<1> QED BY <1>5, <1>6

(* An attempt that has its outcome is not touched again. *)
LEMMA OutcomeStays ==
  ASSUME IInv, NEW o \in Owners, Step(o), NEW r \in Revisions, NEW k \in Keys,
         NEW i \in DOMAIN ledger[r][k], ledger[r][k][i].state # "RESERVED"
  PROVE  i \in DOMAIN ledger'[r][k] /\ ledger'[r][k][i] = ledger[r][k][i]
<1>1. i \in 1..Len(ledger[r][k]) BY RowsKept
<1>2. ledger'[r][k][i] = ledger[r][k][i] BY <1>1, RowsKept
<1>3. /\ Len(ledger[r][k]) \in Nat /\ Len(ledger'[r][k]) \in Nat
      /\ Len(ledger'[r][k]) >= Len(ledger[r][k]) /\ DOMAIN ledger'[r][k] = 1..Len(ledger'[r][k])
  BY RowsKept
<1> QED BY <1>1, <1>2, <1>3

(* What an attempt brings with the step that records its outcome. *)
LEMMA NewlyBrought ==
  ASSUME IInv, NEW o \in Owners, Step(o), NEW r \in Revisions, NEW k \in Keys,
         NEW i \in DOMAIN ledger'[r][k], ledger'[r][k][i].state = "COMPLETE",
         ~(i \in DOMAIN ledger[r][k] /\ ledger'[r][k][i] = ledger[r][k][i])
  PROVE  /\ r = current /\ k = Key(o) /\ i = Len(ledger[r][k]) /\ i \in DOMAIN ledger[r][k]
         /\ Len(ledger'[r][k]) = Len(ledger[r][k]) /\ Marks(o)
         /\ ledger'[r][k][i].chunk = Item(o).chunk
         /\ ledger'[r][k][i].at = now /\ ledger'[r][k][i].reserved = proc[o].checked
<1> DEFINE n == Len(ledger[r][k])
<1>1. /\ n \in Nat /\ DOMAIN ledger[r][k] = 1..n /\ DOMAIN ledger'[r][k] = 1..Len(ledger'[r][k])
  BY RowsKept
<1>2. /\ r = current /\ k = Key(o) /\ proc[o].revision = current
      /\ Rows(o) = ledger[r][k] /\ (Appends(o) \/ Marks(o))
  <2>1. ledger'[r][k] # ledger[r][k] OBVIOUS
  <2> QED BY <2>1, Writing
<1>3. CASE Appends(o)
  <2>1. /\ Len(ledger'[r][k]) = n + 1 /\ \A l \in 1..n : ledger'[r][k][l] = ledger[r][k][l]
        /\ ledger'[r][k][n + 1].state = "RESERVED"
    BY <1>2, <1>3 DEF Appends
  <2>2. i \in 1..n \/ i = n + 1 BY <1>1, <2>1
  <2>3. i # n + 1 BY <2>1
  <2>4. i \in DOMAIN ledger[r][k] /\ ledger'[r][k][i] = ledger[r][k][i]
    BY <1>1, <2>1, <2>2, <2>3
  <2> QED BY <2>4
<1>4. CASE Marks(o)
  <2>1. /\ Len(ledger'[r][k]) = n
        /\ \A l \in 1..n : l # n => ledger'[r][k][l] = ledger[r][k][l]
    BY <1>2, <1>4 DEF Marks
  <2>2. i \in 1..n /\ i = n BY <1>1, <2>1
  <2>3. /\ ledger'[r][k][n].chunk = Item(o).chunk /\ ledger'[r][k][n].at = now
        /\ ledger'[r][k][n].reserved = proc[o].checked
    BY <1>2, <1>4, <2>2 DEF Marks
  <2> HIDE DEF n
  <2>4. i \in DOMAIN ledger[r][k] BY <1>1, <2>2
  <2> QED BY <1>2, <1>4, <2>1, <2>2, <2>3, <2>4 DEF n
<1> QED BY <1>2, <1>3, <1>4

LEMMA StepStored ==
  ASSUME IInv, NEW o \in Owners, Step(o)
  PROVE  Stored'
<1>1. TypeOK /\ Stored /\ current' = current /\ cohort' = cohort BY StepKeeps DEF IInv
<1>2. /\ facts' \in [Pieces -> [Cohorts -> Bars]] /\ cohort.id \in Cohorts
      /\ 1..cohort.id \subseteq Cohorts /\ cohort.id \in 1..cohort.id
      /\ \A piece \in Pieces, h \in Cohorts : facts[piece][h].kept => facts'[piece][h].kept
  BY <1>1, FactsTyped, Shapes, RolloverAssumption DEF Cohorts
<1> SUFFICES ASSUME NEW r \in Revisions, NEW k \in Keys, NEW i \in DOMAIN ledger'[r][k],
                    ledger'[r][k][i].state = "COMPLETE"
             PROVE  /\ <<k, ledger'[r][k][i].chunk>> \in Pieces
                    /\ \E h \in 1..cohort.id : facts'[<<k, ledger'[r][k][i].chunk>>][h].kept
                    /\ r = current => facts'[<<k, ledger'[r][k][i].chunk>>][cohort.id].kept
  BY <1>1 DEF Stored
<1>3. CASE i \in DOMAIN ledger[r][k] /\ ledger'[r][k][i] = ledger[r][k][i]
  <2> DEFINE piece == <<k, ledger[r][k][i].chunk>>
  <2>1. /\ piece \in Pieces /\ \E h \in 1..cohort.id : facts[piece][h].kept
        /\ r = current => facts[piece][cohort.id].kept
    BY <1>1, <1>3 DEF Stored
  <2>2. \E h \in 1..cohort.id : facts'[piece][h].kept BY <1>2, <2>1
  <2>3. r = current => facts'[piece][cohort.id].kept BY <1>2, <2>1
  <2> QED BY <1>3, <2>1, <2>2, <2>3
<1>4. CASE ~(i \in DOMAIN ledger[r][k] /\ ledger'[r][k][i] = ledger[r][k][i])
  <2>1. /\ r = current /\ k = Key(o) /\ Marks(o) /\ ledger'[r][k][i].chunk = Item(o).chunk
        /\ i = Len(ledger[r][k])
    BY <1>4, NewlyBrought
  <2>2. proc[o].revision = current /\ Rows(o) = ledger[r][k] /\ proc[o].pc \in Owning
        /\ Planned(o)
    <3>1. ledger' # ledger BY <1>4, <2>1, RowsKept
    <3> QED BY <2>1, <3>1, Writing DEF IInv, Local
  <2>3. <<Key(o), Item(o).chunk>> \in Pieces BY <1>1, <2>2, ItemTyped
  <2> DEFINE piece == <<Key(o), Item(o).chunk>>
  <2>4. Stores(o) BY <2>1, <2>2 DEF Marks
  <2>5. PICK bar \in Persisted(facts[piece][cohort.id], proc[o].checked, now) :
          facts' = [facts EXCEPT ![piece][cohort.id] = bar]
    BY <2>4 DEF Stores
  <2>6. /\ facts \in [Pieces -> [Cohorts -> Bars]] /\ facts[piece][cohort.id] \in Bars
        /\ proc[o].checked \in 0..MaxTime /\ now \in 0..MaxTime
    BY <1>1, <1>2, <2>3, Shapes DEF Locals
  <2>7. bar.kept BY <2>6, PersistedIs
  <2> HIDE DEF piece
  <2>8. facts'[piece][cohort.id].kept BY <1>2, <2>3, <2>5, <2>6, <2>7 DEF piece
  <2> QED BY <1>2, <2>1, <2>3, <2>8 DEF piece
<1> QED BY <1>3, <1>4

LEMMA StepWitnessed ==
  ASSUME IInv, NEW o \in Owners, Step(o)
  PROVE  Witnessed'
<1>1. TypeOK /\ Witnessed BY DEF IInv
<1> SUFFICES ASSUME NEW k \in Keys \ References, NEW c \in Nat, NEW h \in Cohorts,
                    <<k, c>> \in Pieces, facts'[<<k, c>>][h].kept
             PROVE  /\ \E r \in Revisions : \E i \in DOMAIN ledger'[r][k] :
                         Brought(r, k, c, i)'
                         /\ ledger'[r][k][i].reserved = facts'[<<k, c>>][h].observed
                    /\ \E r \in Revisions : \E i \in DOMAIN ledger'[r][k] :
                         Brought(r, k, c, i)' /\ ledger'[r][k][i].at = facts'[<<k, c>>][h].updated
  BY DEF Witnessed
<1> DEFINE old == facts[<<k, c>>][h]
           bar == facts'[<<k, c>>][h]
(* The witnesses of a bar that was there before. *)
<1>2. ASSUME old.kept, bar.observed = old.observed
      PROVE  \E r \in Revisions : \E i \in DOMAIN ledger'[r][k] :
               Brought(r, k, c, i)' /\ ledger'[r][k][i].reserved = bar.observed
  <2>1. PICK r \in Revisions : \E i \in DOMAIN ledger[r][k] :
          Brought(r, k, c, i) /\ ledger[r][k][i].reserved = old.observed
    BY <1>1, <1>2 DEF Witnessed
  <2>2. PICK i \in DOMAIN ledger[r][k] :
          Brought(r, k, c, i) /\ ledger[r][k][i].reserved = old.observed
    BY <2>1
  <2>3. i \in DOMAIN ledger'[r][k] /\ ledger'[r][k][i] = ledger[r][k][i] BY <2>2, OutcomeStays DEF Brought
  <2> QED BY <1>2, <2>2, <2>3 DEF Brought
<1>3. ASSUME old.kept, bar.updated = old.updated
      PROVE  \E r \in Revisions : \E i \in DOMAIN ledger'[r][k] :
               Brought(r, k, c, i)' /\ ledger'[r][k][i].at = bar.updated
  <2>1. PICK r \in Revisions : \E i \in DOMAIN ledger[r][k] :
          Brought(r, k, c, i) /\ ledger[r][k][i].at = old.updated
    BY <1>1, <1>3 DEF Witnessed
  <2>2. PICK i \in DOMAIN ledger[r][k] :
          Brought(r, k, c, i) /\ ledger[r][k][i].at = old.updated
    BY <2>1
  <2>3. i \in DOMAIN ledger'[r][k] /\ ledger'[r][k][i] = ledger[r][k][i] BY <2>2, OutcomeStays DEF Brought
  <2> QED BY <1>3, <2>2, <2>3 DEF Brought
<1>4. CASE bar = old BY <1>2, <1>3, <1>4
<1>5. CASE bar # old
  <2> DEFINE piece == <<Key(o), Item(o).chunk>>
  <2>1. facts' # facts BY <1>5
  <2>2. PICK stored \in Persisted(facts[piece][cohort.id], proc[o].checked, now) :
          facts' = [facts EXCEPT ![piece][cohort.id] = stored]
    BY <2>1, FactStep
  <2>3. /\ facts \in [Pieces -> [Cohorts -> Bars]] /\ cohort.id \in Cohorts
        /\ proc[o].checked \in 0..MaxTime /\ now \in 0..MaxTime /\ current \in Revisions
    BY <1>1, Shapes DEF Locals
  <2>4. piece \in Pieces BY <2>1, FactStep
  <2>5. k = Key(o) /\ c = Item(o).chunk /\ h = cohort.id /\ bar = stored
    <3>1. <<k, c>> = piece /\ h = cohort.id
      <4> HIDE DEF piece
      <4> QED BY <1>5, <2>2, <2>3
    <3>2. bar = stored
      <4>1. bar = facts'[piece][cohort.id] BY <3>1
      <4> HIDE DEF piece, bar
      <4> QED BY <2>2, <2>3, <2>4, <4>1
    <3> QED BY <3>1, <3>2
  <2>6. facts[piece][cohort.id] = old BY <2>5
  <2>7. old \in Bars BY <2>3
  <2>8. /\ bar.updated = now \/ (old.kept /\ bar.updated = old.updated)
        /\ bar.observed = proc[o].checked \/ (old.kept /\ bar.observed = old.observed)
    <3> HIDE DEF bar, old, piece
    <3> QED BY <2>2, <2>3, <2>5, <2>6, <2>7, PersistedIs
  <2>9. /\ Marks(o) /\ proc[o].revision = current /\ Rows(o) = ledger[current][k]
        /\ ledger'[current][k][Len(Rows(o))].state = "COMPLETE"
    BY <2>1, <2>5, FactStep, Writing
  <2> DEFINE n == Len(ledger[current][k])
  <2>10. n \in DOMAIN ledger'[current][k]
    <3>1. n # 0
      <4>1. ledger[current][k] # <<>> BY <2>9 DEF Marks
      <4> QED BY <1>1, <2>3, <4>1, Shapes, EmptySeq DEF Ledgers
    <3>2. Len(ledger'[current][k]) = n BY <2>5, <2>9 DEF Marks
    <3> QED BY <2>3, <3>1, <3>2, RowsKept
  <2>11. /\ ledger'[current][k][n].state = "COMPLETE" /\ ledger'[current][k][n].chunk = c
         /\ ledger'[current][k][n].at = now /\ ledger'[current][k][n].reserved = proc[o].checked
    BY <2>5, <2>9 DEF Marks
  <2> HIDE DEF bar, old, piece, n
  <2>12. \E r \in Revisions : \E i \in DOMAIN ledger'[r][k] :
           Brought(r, k, c, i)' /\ ledger'[r][k][i].reserved = bar.observed
    <3>1. CASE bar.observed = proc[o].checked BY <2>3, <2>10, <2>11, <3>1 DEF Brought
    <3>2. CASE old.kept /\ bar.observed = old.observed BY <1>2, <3>2
    <3> QED BY <2>8, <3>1, <3>2
  <2>13. \E r \in Revisions : \E i \in DOMAIN ledger'[r][k] :
           Brought(r, k, c, i)' /\ ledger'[r][k][i].at = bar.updated
    <3>1. CASE bar.updated = now BY <2>3, <2>10, <2>11, <3>1 DEF Brought
    <3>2. CASE old.kept /\ bar.updated = old.updated BY <1>3, <3>2
    <3> QED BY <2>8, <3>1, <3>2
  <2> QED BY <2>12, <2>13 DEF bar
<1> QED BY <1>4, <1>5

(* Why a piece that has been brought is missing as of a clock. *)
Reason(k, c, at, x, i) ==
  \/ \E split \in splits[k] : ledger[x][k][i].reserved < split.received /\ split.received <= at
  \/ x < current /\ (at < ledger[x][k][i].at \/ at < cohort.bound)

LEMMA MissingHasReason ==
  ASSUME IInv, NEW k \in Keys, NEW c \in Nat, NEW at \in 0..MaxTime, Missing(k, c, at),
         \A i \in DOMAIN ledger[current][k] : ledger[current][k][i].at <= at,
         NEW r \in Revisions, NEW l \in DOMAIN ledger[r][k], Brought(r, k, c, l)
  PROVE  /\ k \notin References
         /\ \E x \in Revisions : \E i \in DOMAIN ledger[x][k] :
              Brought(x, k, c, i) /\ Reason(k, c, at, x, i)
<1>1. /\ TypeOK /\ Stored /\ Witnessed /\ NoneAhead /\ Revisions \subseteq Nat
      /\ current \in Revisions /\ Cohorts \subseteq Nat
      /\ cohort.id \in Cohorts /\ 1..cohort.id \subseteq Cohorts /\ cohort.id \in 1..cohort.id
      /\ cohort.bound \in Nat /\ facts \in [Pieces -> [Cohorts -> Bars]]
  <2>1. TypeOK /\ Stored /\ Witnessed /\ NoneAhead BY DEF IInv
  <2>2. /\ Revisions \subseteq Nat /\ current \in Revisions /\ Cohorts \subseteq Nat
        /\ cohort.id \in Cohorts /\ cohort.bound \in Nat
        /\ facts \in [Pieces -> [Cohorts -> Bars]]
    BY <2>1, Shapes
  <2>3. 1..cohort.id \subseteq Cohorts /\ cohort.id \in 1..cohort.id
    BY <2>2, RolloverAssumption DEF Cohorts
  <2> QED BY <2>1, <2>2, <2>3
<1>2. \A x \in Revisions : DOMAIN ledger[x][k] # {} => x <= current
  <2>1. \A x \in Revisions : x > current => DOMAIN ledger[x][k] = {}
    BY <1>1, EmptySeq DEF NoneAhead
  <2> QED BY <1>1, <2>1
<1>3. <<k, c>> \in Pieces BY <1>1 DEF Stored, Brought
(* A bar of the cohort itself, or one that a former revision has brought. *)
<1>4. PICK h \in 1..cohort.id :
        facts[<<k, c>>][h].kept /\ (h = cohort.id \/ r < current)
  <2>1. CASE r = current
    <3>1. facts[<<k, c>>][cohort.id].kept BY <1>1, <2>1 DEF Stored, Brought
    <3> QED BY <1>1, <3>1
  <2>2. CASE r # current
    <3>1. r < current BY <1>1, <1>2, <2>2
    <3>2. \E h \in 1..cohort.id : facts[<<k, c>>][h].kept BY <1>1 DEF Stored, Brought
    <3> QED BY <3>1, <3>2
  <2> QED BY <2>1, <2>2
<1> DEFINE bar == facts[<<k, c>>][h]
<1>5. ~Seen(k, c, h, at) BY DEF Missing
<1>6. /\ k \notin References
      /\ ~(bar.updated <= at) \/ ~(h = cohort.id \/ cohort.bound <= at) \/ Stale(k, c, bar, at)
  BY <1>4, <1>5 DEF Seen
<1>7. bar \in Bars BY <1>1, <1>3
<1>8. CASE Stale(k, c, bar, at)
  <2>1. PICK split \in splits[k] : bar.observed < split.received /\ split.received <= at
    BY <1>8 DEF Stale
  <2>2. PICK x \in Revisions : \E i \in DOMAIN ledger[x][k] :
          Brought(x, k, c, i) /\ ledger[x][k][i].reserved = bar.observed
    BY <1>1, <1>3, <1>4, <1>6 DEF Witnessed
  <2>3. PICK i \in DOMAIN ledger[x][k] :
          Brought(x, k, c, i) /\ ledger[x][k][i].reserved = bar.observed
    BY <2>2
  <2>4. Reason(k, c, at, x, i) BY <2>1, <2>3 DEF Reason
  <2> QED BY <1>6, <2>3, <2>4
<1>9. CASE ~(bar.updated <= at)
  <2>1. PICK x \in Revisions : \E i \in DOMAIN ledger[x][k] :
          Brought(x, k, c, i) /\ ledger[x][k][i].at = bar.updated
    BY <1>1, <1>3, <1>4, <1>6 DEF Witnessed
  <2>2. PICK i \in DOMAIN ledger[x][k] :
          Brought(x, k, c, i) /\ ledger[x][k][i].at = bar.updated
    BY <2>1
  <2>3. x # current BY <1>9, <2>2
  <2>4. x < current BY <1>1, <1>2, <2>2, <2>3
  <2>5. at < ledger[x][k][i].at
    <3>1. bar.updated \in Nat /\ at \in Nat BY <1>7 DEF Bars
    <3> QED BY <1>9, <2>2, <3>1
  <2> QED BY <1>6, <2>2, <2>4, <2>5 DEF Reason
<1>10. CASE ~(h = cohort.id \/ cohort.bound <= at)
  <2>1. r < current /\ at < cohort.bound BY <1>1, <1>4, <1>10
  <2> QED BY <1>6, <2>1 DEF Reason
<1> QED BY <1>6, <1>8, <1>9, <1>10

LEMMA StepFetched ==
  ASSUME IInv, NEW o \in Owners, Step(o)
  PROVE  FetchedOnce'
<1>1. /\ TypeOK /\ NoneAhead /\ Ordered /\ FetchedOnce /\ current \in Revisions
      /\ Revisions \subseteq Nat
      /\ current' = current /\ cohort' = cohort /\ splits' = splits
  BY StepKeeps, Shapes DEF IInv
<1> SUFFICES ASSUME NEW k \in Keys, NEW r \in Revisions, NEW j \in DOMAIN ledger'[r][k],
                    NEW x \in Revisions, NEW i \in DOMAIN ledger'[x][k], Answered(k, r, j, x, i)'
             PROVE  /\ k \notin References
                    /\ \E y \in Revisions : \E l \in DOMAIN ledger'[y][k] :
                         Answered(k, r, j, y, l)' /\ Cause(k, r, j, y, l)'
  BY DEF FetchedOnce
<1> DEFINE n == Len(ledger[r][k])
           again == ledger'[r][k][j]
<1>2. /\ n \in Nat /\ DOMAIN ledger[r][k] = 1..n /\ DOMAIN ledger'[r][k] = 1..Len(ledger'[r][k])
      /\ \A l \in 1..n : /\ ledger'[r][k][l].chunk = ledger[r][k][l].chunk
                        /\ ledger'[r][k][l].reserved = ledger[r][k][l].reserved
  BY RowsKept
<1>3. x < r \/ (x = r /\ i < j) BY DEF Answered
<1>4. r <= current
  <2>1. CASE r > current
    <3>1. ledger[r][k] = <<>> /\ r # current BY <1>1, <2>1 DEF NoneAhead
    <3>2. ledger'[r][k] = <<>> BY <3>1, Writing
    <3> QED BY <3>2, EmptySeq
  <2> QED BY <1>1, <2>1
(* The answer was there before the step. *)
<1>5. i \in DOMAIN ledger[x][k] /\ ledger'[x][k][i] = ledger[x][k][i]
  <2> SUFFICES ASSUME ~(i \in DOMAIN ledger[x][k] /\ ledger'[x][k][i] = ledger[x][k][i])
               PROVE  FALSE
    OBVIOUS
  <2>1. /\ x = current /\ i = Len(ledger[x][k])
        /\ Len(ledger'[x][k]) = Len(ledger[x][k])
    BY NewlyBrought DEF Answered
  <2>2. x = r /\ i < j BY <1>1, <1>3, <1>4, <2>1
  <2> QED BY <1>2, <2>1, <2>2
<1>6. CASE j \in 1..n
  <2>1. Answered(k, r, j, x, i) BY <1>2, <1>5, <1>6 DEF Answered
  <2>2. k \notin References BY <1>1, <1>2, <1>5, <1>6, <2>1 DEF FetchedOnce
  <2>3. PICK y \in Revisions : \E l \in DOMAIN ledger[y][k] :
          Answered(k, r, j, y, l) /\ Cause(k, r, j, y, l)
    BY <1>1, <1>2, <1>5, <1>6, <2>1 DEF FetchedOnce
  <2>4. PICK l \in DOMAIN ledger[y][k] : Answered(k, r, j, y, l) /\ Cause(k, r, j, y, l)
    BY <2>3
  <2>5. l \in DOMAIN ledger'[y][k] /\ ledger'[y][k][l] = ledger[y][k][l]
    <3>1. ledger[y][k][l].state # "RESERVED" BY <2>4 DEF Answered
    <3> QED BY <2>4, <3>1, OutcomeStays
  <2>6. Answered(k, r, j, y, l)' BY <1>2, <1>6, <2>4, <2>5 DEF Answered
  <2>7. Cause(k, r, j, y, l)' BY <1>1, <1>2, <1>6, <2>4, <2>5 DEF Cause
  <2> QED BY <2>2, <2>5, <2>6, <2>7
<1>7. CASE j \notin 1..n
  <2>1. ledger'[r][k] # ledger[r][k] BY <1>2, <1>7
  <2>2. /\ r = current /\ k = Key(o) /\ proc[o].revision = current /\ Mine(o)
        /\ Rows(o) = ledger[r][k] /\ (Appends(o) \/ Marks(o)) /\ Item(o).chunk \in Nat
    BY <2>1, Writing
  <2>3. Appends(o) BY <1>2, <1>7, <2>2 DEF Marks
  <2>4. /\ proc[o].pc = "reserve" /\ Len(ledger'[r][k]) = n + 1
        /\ ledger'[r][k][n + 1].chunk = Item(o).chunk
        /\ ledger'[r][k][n + 1].reserved = proc[o].checked
        /\ ledger[r][k] # <<>> => ledger[r][k][n].at <= proc[o].checked
    BY <2>2, <2>3 DEF Appends, LastOf
  <2>5. j = n + 1 BY <1>2, <1>7, <2>4
  <2>6. Missing(k, Item(o).chunk, proc[o].checked) /\ proc[o].checked \in 0..MaxTime
    BY <1>1, <2>2, <2>4, Shapes DEF IInv, Local, StaysMissing, Locals
  <2>7. \A l \in 1..n : ledger[r][k][l].at <= proc[o].checked
    <3>1. SUFFICES ASSUME NEW l \in 1..n PROVE ledger[r][k][l].at <= proc[o].checked
      OBVIOUS
    <3>2. ledger[r][k] \in Seq(Attempts) BY <1>1, Shapes DEF Ledgers
    <3>3. ledger[r][k][n].at <= proc[o].checked BY <1>2, <2>4
    <3>4. /\ ledger[r][k][l].at \in Nat /\ ledger[r][k][n].at \in Nat
          /\ ledger[r][k][n].reserved \in Nat
      <4>1. ledger[r][k][l] \in Attempts /\ ledger[r][k][n] \in Attempts
        BY <1>2, <3>2, ElementOfSeq
      <4> QED BY <4>1 DEF Attempts
    <3>5. l < n => ledger[r][k][l].at <= ledger[r][k][n].reserved
                   /\ ledger[r][k][n].reserved <= ledger[r][k][n].at
      BY <1>1, <1>2 DEF Ordered
    <3>6. proc[o].checked \in Nat BY <2>6
    <3> QED BY <1>2, <3>3, <3>4, <3>5, <3>6
  <2>8. Brought(x, k, Item(o).chunk, i)
    BY <1>5, <2>4, <2>5 DEF Brought, Answered
  <2>9. /\ k \notin References
        /\ \E y \in Revisions : \E l \in DOMAIN ledger[y][k] :
             Brought(y, k, Item(o).chunk, l) /\ Reason(k, Item(o).chunk, proc[o].checked, y, l)
    BY <1>2, <1>5, <2>2, <2>6, <2>7, <2>8, MissingHasReason
  <2>10. PICK y \in Revisions : \E l \in DOMAIN ledger[y][k] :
           Brought(y, k, Item(o).chunk, l) /\ Reason(k, Item(o).chunk, proc[o].checked, y, l)
    BY <2>9
  <2>11. PICK l \in DOMAIN ledger[y][k] :
           Brought(y, k, Item(o).chunk, l) /\ Reason(k, Item(o).chunk, proc[o].checked, y, l)
    BY <2>10
  <2>12. l \in DOMAIN ledger'[y][k] /\ ledger'[y][k][l] = ledger[y][k][l]
    BY <2>2, <2>11, OutcomeStays DEF Brought
  <2>13. y < r \/ (y = r /\ l < j)
    <3>1. y <= current
      <4>1. y > current => DOMAIN ledger[y][k] = {} BY <1>1, EmptySeq DEF NoneAhead
      <4> QED BY <1>1, <4>1
    <3>2. y = r => l < j BY <1>2, <2>5
    <3> QED BY <1>1, <2>2, <3>1, <3>2
  <2>14. Answered(k, r, j, y, l)' BY <2>4, <2>5, <2>11, <2>12, <2>13 DEF Answered, Brought
  <2>15. Cause(k, r, j, y, l)' BY <1>1, <2>2, <2>4, <2>5, <2>11, <2>12 DEF Cause, Reason
  <2> QED BY <2>9, <2>12, <2>14, <2>15
<1> QED BY <1>6, <1>7

-----------------------------------------------------------------------------
(* The invariant.                                                            *)

LEMMA InitIInv == Init => IInv
<1> SUFFICES ASSUME Init PROVE IInv
  OBVIOUS
<1>1. TypeOK BY InitType
<1>2. \A r \in Revisions, k \in Keys : ledger[r][k] = <<>> /\ DOMAIN ledger[r][k] = {}
  BY EmptySeq DEF Init
<1>3. \A o \in Owners : proc[o].pc = "off" BY DEF Init, Off
<1>4. NoneAhead /\ Ordered /\ Stored /\ FetchedOnce
  BY <1>2 DEF NoneAhead, Ordered, Stored, FetchedOnce
<1>5. \A piece \in Pieces, h \in Cohorts : piece[1] \notin References => ~facts[piece][h].kept
  BY DEF Init, Absent
<1>6. Witnessed BY <1>5 DEF Witnessed
<1>7. BudgetHeld
  <2>1. Len(<<>>) = 0 OBVIOUS
  <2>2. {x \in (Revisions \X Keys) \X ((1..MaximumAttempts) \X (1..3)) :
           /\ x[2][1] <= Len(ledger[x[1][1]][x[1][2]])
           /\ x[2][2] <= Slots(x[1][2])} = {}
    BY <1>2, <2>1, RolloverAssumption
  <2>3. \A r \in Revisions, k \in Keys : Len(ledger[r][k]) <= MaximumAttempts
    BY <1>2, <2>1, RolloverAssumption
  <2>4. Cardinality({}) <= AccountCeiling BY FS_EmptySet, RolloverAssumption
  <2> QED BY <2>2, <2>3, <2>4 DEF BudgetHeld
<1>8. \A o \in Owners : Local(o)
  BY <1>3 DEF Local, Planned, LeaseKnown, StaysMissing, OwnReservation, Owning
<1> QED BY <1>1, <1>4, <1>6, <1>7, <1>8 DEF IInv

LEMMA WitnessedStays ==
  ASSUME Witnessed, UNCHANGED <<facts, ledger>>
  PROVE  Witnessed'
<1>1. \A r, k, c, i : Brought(r, k, c, i)' <=> Brought(r, k, c, i) BY DEF Brought
<1> SUFFICES ASSUME NEW k \in Keys \ References, NEW c \in Nat, NEW h \in Cohorts,
                    <<k, c>> \in Pieces, facts'[<<k, c>>][h].kept
             PROVE  /\ \E r \in Revisions : \E i \in DOMAIN ledger'[r][k] :
                         Brought(r, k, c, i)'
                         /\ ledger'[r][k][i].reserved = facts'[<<k, c>>][h].observed
                    /\ \E r \in Revisions : \E i \in DOMAIN ledger'[r][k] :
                         Brought(r, k, c, i)' /\ ledger'[r][k][i].at = facts'[<<k, c>>][h].updated
  BY DEF Witnessed
<1>2. facts[<<k, c>>][h].kept OBVIOUS
<1>3. \E r \in Revisions : \E i \in DOMAIN ledger[r][k] :
        Brought(r, k, c, i) /\ ledger[r][k][i].reserved = facts[<<k, c>>][h].observed
  BY <1>2 DEF Witnessed
<1>4. \E r \in Revisions : \E i \in DOMAIN ledger[r][k] :
        Brought(r, k, c, i) /\ ledger[r][k][i].at = facts[<<k, c>>][h].updated
  BY <1>2 DEF Witnessed
<1> QED BY <1>1, <1>3, <1>4

LEMMA ReviseIInv == IInv /\ Revise => IInv'
<1> SUFFICES ASSUME IInv, Revise PROVE IInv'
  OBVIOUS
<1>1. /\ current' = current + 1 /\ current' \in Revisions /\ current \in Nat
      /\ UNCHANGED <<now, facts, splits, lease, ledger, proc>>
  BY Shapes, RolloverAssumption DEF IInv, Revise, Revisions
<1>2. \A o \in Owners : proc[o].revision \in Nat /\ proc[o].revision <= current
  BY Shapes DEF IInv, Locals
<1>3. /\ cohort' \in [id : Cohorts, bound : 0..now]
      /\ cohort'.id \in Nat /\ cohort'.id >= cohort.id
      /\ cohort'.bound \in Nat /\ cohort'.bound >= cohort.bound
  <2>1. /\ cohort \in [id : Cohorts, bound : 0..now] /\ cohort.id \in Nat /\ cohort.bound \in Nat
        /\ cohort.id \in 1..MaxCohorts /\ MaxCohorts \in Nat /\ now \in Nat
    BY Shapes, RolloverAssumption DEF IInv, Cohorts
  <2>2. CASE cohort' = cohort BY <2>1, <2>2
  <2>3. CASE cohort' # cohort
    <3>1. PICK t \in cohort.bound..now :
            cohort.id < MaxCohorts /\ cohort' = [id |-> cohort.id + 1, bound |-> t]
      BY <2>3 DEF Revise
    <3>2. t \in 0..now /\ t \in Nat /\ t >= cohort.bound BY <2>1
    <3>3. cohort.id + 1 \in Cohorts BY <2>1, <3>1 DEF Cohorts
    <3> QED BY <2>1, <3>1, <3>2, <3>3
  <2> QED BY <2>2, <2>3
<1>4. TypeOK'
  <2>1. \A o \in Owners : proc[o].revision <= current' BY <1>1, <1>2
  <2> QED BY <1>1, <1>3, <2>1 DEF IInv, TypeOK
<1>5. NoneAhead' /\ Ordered' /\ BudgetHeld'
  BY <1>1, Shapes DEF IInv, NoneAhead, Ordered, BudgetHeld
<1>6. Stored'
  <2>1. \A h \in 1..cohort.id : h \in 1..cohort'.id BY <1>3, Shapes DEF IInv
  <2>2. \A k \in Keys : DOMAIN ledger[current'][k] = {}
    BY <1>1, EmptySeq DEF IInv, NoneAhead
  <2> QED BY <1>1, <2>1, <2>2 DEF IInv, Stored
<1>7. Witnessed' BY <1>1, WitnessedStays DEF IInv
<1>8. FetchedOnce'
  <2>1. ASSUME NEW k \in Keys, NEW r \in Revisions, NEW j \in DOMAIN ledger[r][k],
               NEW x \in Revisions, NEW i \in DOMAIN ledger[x][k], Cause(k, r, j, x, i)
        PROVE  Cause(k, r, j, x, i)'
    <3>1. ledger[r][k][j].reserved \in Nat /\ cohort.bound \in Nat
      <4>1. ledger[r][k] \in Seq(Attempts) BY Shapes DEF IInv, Ledgers
      <4>2. ledger[r][k][j] \in Attempts BY <4>1, ElementOfSeq, LenProperties
      <4> QED BY <4>2, Shapes DEF IInv, Attempts
    <3> QED BY <1>1, <1>3, <2>1, <3>1 DEF Cause
  <2>2. \A k \in Keys, r \in Revisions, x \in Revisions :
          \A j \in DOMAIN ledger[r][k] : \A i \in DOMAIN ledger[x][k] :
            Answered(k, r, j, x, i)' <=> Answered(k, r, j, x, i)
    BY <1>1 DEF Answered
  <2> QED BY <1>1, <2>1, <2>2 DEF IInv, FetchedOnce
<1>9. ASSUME NEW o \in Owners PROVE Local(o)'
  <2>1. proc'[o] = proc[o] /\ Item(o)' = Item(o) /\ Key(o)' = Key(o) /\ Rows(o)' = Rows(o)
        /\ Row(o)' = Row(o) /\ (Mine(o)' <=> Mine(o))
    BY <1>1 DEF Item, Key, Rows, Row, Mine
  <2>2. proc[o].revision # current' BY <1>1, <1>2
  <2>3. Planned(o)' /\ LeaseKnown(o)' /\ OwnReservation(o)'
    BY <2>1 DEF IInv, Local, Planned, LeaseKnown, OwnReservation
  <2>4. StaysMissing(o)' BY <2>1, <2>2 DEF StaysMissing
  <2> QED BY <2>3, <2>4 DEF Local
<1> QED BY <1>4, <1>5, <1>6, <1>7, <1>8, <1>9 DEF IInv

LEMMA SplitIInv == IInv /\ Split => IInv'
<1> SUFFICES ASSUME IInv, Split PROVE IInv'
  OBVIOUS
<1>1. UNCHANGED <<now, current, cohort, facts, lease, ledger, proc>> BY DEF Split
<1>0. PICK s \in Keys, t \in 0..now :
        \E before \in 1..Chunks[s] :
          splits' = [splits EXCEPT ![s] = splits[s] \cup {[before |-> before, received |-> t]}]
  BY DEF Split
<1>2. PICK before \in 1..Chunks[s] :
        splits' = [splits EXCEPT ![s] = splits[s] \cup {[before |-> before, received |-> t]}]
  BY <1>0
<1>3. /\ splits \in [Keys -> SUBSET [before : Nat, received : 0..now]]
      /\ [before |-> before, received |-> t] \in [before : Nat, received : 0..now]
  <2>1. before \in Nat BY RolloverAssumption DEF Keys
  <2> QED BY <2>1, Shapes DEF IInv
<1>4. /\ splits' \in [Keys -> SUBSET [before : Nat, received : 0..now]]
      /\ \A k \in Keys : splits[k] \subseteq splits'[k]
  BY <1>2, <1>3
<1>5. TypeOK' BY <1>1, <1>4 DEF IInv, TypeOK
<1>6. NoneAhead' /\ Ordered' /\ BudgetHeld' /\ Stored' /\ Witnessed'
  <2>1. NoneAhead' /\ Ordered' BY <1>1 DEF IInv, NoneAhead, Ordered
  <2>2. BudgetHeld' /\ Stored' BY <1>1 DEF IInv, BudgetHeld, Stored
  <2>3. Witnessed' BY <1>1, WitnessedStays DEF IInv
  <2> QED BY <2>1, <2>2, <2>3
<1>7. FetchedOnce'
  <2>1. \A k \in Keys, r \in Revisions, x \in Revisions :
          \A j \in DOMAIN ledger[r][k] : \A i \in DOMAIN ledger[x][k] :
            /\ Answered(k, r, j, x, i)' <=> Answered(k, r, j, x, i)
            /\ Cause(k, r, j, x, i) => Cause(k, r, j, x, i)'
    BY <1>1, <1>4 DEF Answered, Cause
  <2> QED BY <1>1, <2>1 DEF IInv, FetchedOnce
<1>8. ASSUME NEW o \in Owners PROVE Local(o)'
  <2>1. proc'[o] = proc[o] /\ Item(o)' = Item(o) /\ Key(o)' = Key(o) /\ Rows(o)' = Rows(o)
        /\ Row(o)' = Row(o) /\ (Mine(o)' <=> Mine(o))
    BY <1>1 DEF Item, Key, Rows, Row, Mine
  <2>2. Planned(o)' /\ LeaseKnown(o)' /\ OwnReservation(o)'
    BY <2>1 DEF IInv, Local, Planned, LeaseKnown, OwnReservation
  <2>3. StaysMissing(o)'
    <3> SUFFICES ASSUME proc[o].pc = "reserve", Mine(o), proc[o].revision = current
                 PROVE  Missing(Key(o), Item(o).chunk, proc[o].checked)'
      BY <1>1, <2>1 DEF StaysMissing
    <3>1. Missing(Key(o), Item(o).chunk, proc[o].checked) BY DEF IInv, Local, StaysMissing
    <3>2. Key(o) \in Keys BY ItemTyped DEF IInv, Local, Owning
    <3>3. splits[Key(o)] \subseteq splits'[Key(o)] BY <1>4, <3>2
    <3> QED BY <1>1, <2>1, <3>1, <3>3 DEF Missing, Seen, Stale
  <2> QED BY <2>2, <2>3 DEF Local
<1> QED BY <1>5, <1>6, <1>7, <1>8 DEF IInv

LEMMA ClockIInv ==
  ASSUME IInv, UNCHANGED <<current, cohort, facts, splits, lease, ledger, proc>>,
         now' \in 0..MaxTime, now <= now'
  PROVE  IInv'
<1>1. \A o \in Owners : proc[o].checked \in Nat /\ proc[o].checked <= now'
  BY Shapes DEF IInv, Locals
<1>2. now \in Nat /\ now' \in Nat BY Shapes DEF IInv
<1>3. TypeOK'
  <2>1. cohort \in [id : Cohorts, bound : 0..now'] BY <1>2, Shapes DEF IInv
  <2>2. splits \in [Keys -> SUBSET [before : Nat, received : 0..now']]
    <3>1. [before : Nat, received : 0..now] \subseteq [before : Nat, received : 0..now'] BY <1>2
    <3> QED BY <3>1, Shapes DEF IInv
  <2> QED BY <1>1, <2>1, <2>2 DEF IInv, TypeOK
<1>4. NoneAhead' /\ BudgetHeld' /\ Stored' /\ Witnessed'
  BY WitnessedStays DEF IInv, NoneAhead, BudgetHeld, Stored, Brought
<1>5. FetchedOnce' BY DEF IInv, FetchedOnce, Answered, Cause
<1>6. Ordered'
  <2>1. ASSUME NEW r \in Revisions, NEW k \in Keys, NEW j \in DOMAIN ledger[r][k]
        PROVE  ledger[r][k][j].at <= now'
    <3>1. ledger[r][k] \in Seq(Attempts) BY Shapes DEF IInv, Ledgers
    <3>2. ledger[r][k][j] \in Attempts BY <3>1, ElementOfSeq, LenProperties
    <3>3. ledger[r][k][j].at \in Nat /\ ledger[r][k][j].at <= now
      BY <3>2 DEF IInv, Ordered, Attempts
    <3> QED BY <1>2, <3>3
  <2> QED BY <2>1 DEF IInv, Ordered
<1>7. ASSUME NEW o \in Owners PROVE Local(o)'
  <2>1. Item(o)' = Item(o) /\ Key(o)' = Key(o) /\ Rows(o)' = Rows(o)
        /\ Row(o)' = Row(o) /\ (Mine(o)' <=> Mine(o))
    BY DEF Item, Key, Rows, Row, Mine
  <2>2. Planned(o)' /\ LeaseKnown(o)' /\ OwnReservation(o)'
    BY <2>1 DEF IInv, Local, Planned, LeaseKnown, OwnReservation
  <2>3. StaysMissing(o)' BY <2>1 DEF IInv, Local, StaysMissing, Missing, Seen, Stale
  <2> QED BY <2>2, <2>3 DEF Local
<1> QED BY <1>3, <1>4, <1>5, <1>6, <1>7 DEF IInv

LEMMA NextIInv == IInv /\ [Next]_vars => IInv'
<1>1. ASSUME IInv, NEW o \in Owners, Step(o) PROVE IInv'
  BY <1>1, StepTypeOK, StepOrdered, StepStored, StepWitnessed, StepBudget, StepFetched,
     StepKeepsLocal DEF IInv
<1>2. ASSUME IInv, Tick \/ UNCHANGED vars PROVE IInv'
  <2>1. now \in Nat /\ now \in 0..MaxTime /\ MaxTime \in Nat BY <1>2, Shapes DEF IInv
  <2>2. now' = now \/ (now < MaxTime /\ now' = now + 1) BY <1>2 DEF Tick, vars
  <2>3. now' \in 0..MaxTime /\ now <= now' BY <2>1, <2>2
  <2>4. UNCHANGED <<current, cohort, facts, splits, lease, ledger, proc>> BY <1>2 DEF Tick, vars
  <2> QED BY <1>2, <2>3, <2>4, ClockIInv
<1> QED BY <1>1, <1>2, ReviseIInv, SplitIInv DEF Next

THEOREM Invariance == Spec => []IInv
BY InitIInv, NextIInv, PTL DEF Spec

-----------------------------------------------------------------------------
(* Theorems.                                                                 *)

(* Every variable keeps its type, a pass never works for a revision ahead of  *)
(* the current one, and only the last attempt of an action lacks an outcome:  *)
(* an attempt is reserved once its predecessor has one                        *)
(* (_reserve_rollover_requests_cursor).                                       *)
THEOREM TypeCorrect == Spec => []TypeOK
<1>1. IInv => TypeOK BY DEF IInv
<1> QED BY <1>1, Invariance, PTL

(* No sequence of crashes, retries and revisions exceeds the attempts of an   *)
(* authorization or the account's ceiling: what is spent is counted in the    *)
(* transaction that reserves all slots of an attempt, whatever became of the  *)
(* rows (reserve_coordinated_provider_request_cursor).                        *)
THEOREM CeilingsHeld == Spec => []BudgetHeld
<1>1. IInv => BudgetHeld BY DEF IInv
<1> QED BY <1>1, Invariance, PTL

(* Nothing is fetched twice without a cause, for any number of processes,      *)
(* revisions, cohorts, splits and clocks: reference facts never, and bars only *)
(* after a split was received, or by a pass that plans a later revision as of  *)
(* a clock too old to see an answer (plan_equity_rollover_cursor reads as of   *)
(* the clock of the pass; load_equity_history_cursor).                         *)
THEOREM RepeatsHaveACause == Spec => []FetchedOnce
<1>1. IInv => FetchedOnce BY DEF IInv
<1> QED BY <1>1, Invariance, PTL

(* An outcome is recorded once, under the lease of the reservation, and by    *)
(* anyone else only as AMBIGUOUS; rows are never removed.                     *)
THEOREM OutcomesOfTheirLease == Spec => OutcomeOfItsLease
<1> DEFINE Kept ==
      \A r \in Revisions, k \in Keys :
        /\ Len(ledger'[r][k]) >= Len(ledger[r][k])
        /\ \A i \in DOMAIN ledger[r][k] :
             LET before == ledger[r][k][i]
                 after == ledger'[r][k][i]
             IN  after # before =>
                   /\ before.state = "RESERVED" /\ after.epoch = before.epoch
                   /\ after.state # "AMBIGUOUS" =>
                        lease[r].epoch = before.epoch /\ lease[r].until > now
<1>1. ASSUME IInv, NEW o \in Owners, Step(o) PROVE Kept
  <2>1. ASSUME NEW r \in Revisions, NEW k \in Keys, NEW i \in DOMAIN ledger[r][k],
               ledger'[r][k][i] # ledger[r][k][i]
        PROVE  /\ ledger[r][k][i].state = "RESERVED"
               /\ ledger'[r][k][i].epoch = ledger[r][k][i].epoch
               /\ ledger'[r][k][i].state # "AMBIGUOUS" =>
                    lease[r].epoch = ledger[r][k][i].epoch /\ lease[r].until > now
    <3>1. r = current /\ k = Key(o) /\ i = Len(ledger[r][k]) /\ Marks(o)
      BY <1>1, <2>1, RowsKept
    <3>2. /\ proc[o].revision = current /\ Rows(o) = ledger[r][k]
          /\ Mine(o) /\ Row(o).until > now
      BY <1>1, <2>1, <3>1, Writing
    <3> QED BY <3>1, <3>2 DEF Marks, Mine, Row
  <2> QED BY <1>1, <2>1, RowsKept
<1>2. ASSUME IInv, UNCHANGED ledger PROVE Kept
  <2>1. \A r \in Revisions, k \in Keys : Len(ledger[r][k]) \in Nat
    BY <1>2, Shapes, LenProperties DEF IInv, Ledgers
  <2> QED BY <1>2, <2>1
<1>3. IInv /\ [Next]_vars => Kept BY <1>1, <1>2 DEF Next, Revise, Split, Tick, vars
<1>4. IInv /\ [Next]_vars => [Kept]_vars BY <1>3
<1> QED BY <1>4, Invariance, PTL DEF Spec, OutcomeOfItsLease
=============================================================================
