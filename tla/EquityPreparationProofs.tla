---------------------- MODULE EquityPreparationProofs ----------------------
(* What EquityPreparation keeps for any members, stages, processes and        *)
(* bounds: the desired state is well formed and evolves, whichever            *)
(* transaction is composed of its operators.                                  *)
EXTENDS EquityPreparation, SequenceTheorems, WellFoundedInduction, TLAPS

Readiness == {"WARMING", "READY", "FAILED"}
Plan == [1..Stages -> Rows]
Partial(T) == UNION {[S -> T] : S \in SUBSET Members}

Revision ==
  [session : Nat, recorded : Nat, source : Nat, members : SUBSET Members,
   snapshot : SUBSET Members, ready : Partial(Readiness), work : Partial(Plan),
   reserved : Partial(Nat), used : Partial(Nat)]
Desired == [revisions : Seq(Revision), current : Nat]

(* The rows of a member: who owns one, and that stages are prepared in order. *)
Owned(w) == \A k \in 1..Stages : w[k].status = "RUNNING" <=> w[k].owner # None
InOrder(w) ==
  \A k \in 1..Stages : \A j \in 1..(k - 1) :
    w[k].status # "PENDING" => w[j].status = "COMPLETE"

(* A revision with the source cohort base. *)
Fits(v, base) ==
  /\ v.session # 0 /\ v.members \in Intents /\ v.snapshot \subseteq v.members
  /\ v.ready \in [v.members -> Readiness]
  /\ v.work \in [v.members \ base -> Plan]
  /\ v.reserved \in [v.members \ base -> Nat] /\ v.used \in [v.members \ base -> Nat]
  /\ \A m \in v.members \ base : Owned(v.work[m]) /\ InOrder(v.work[m])

(* The readiness of a member says what its work says. *)
Agrees(v, m) ==
  /\ v.ready[m] = "READY" => Prepared(v, m)
  /\ v.ready[m] = "FAILED" <=> \E k \in 1..Stages : v.work[m][k].status = "BLOCKED"

(* A source is an earlier revision that has a snapshot. *)
Rooted(d, r) ==
  LET source == d.revisions[r].source IN
  source < r /\ (source # 0 => d.revisions[source].snapshot # {})

Agreement(d) ==
  \A r \in DOMAIN d.revisions : \A m \in DOMAIN d.revisions[r].work \ Dropped(d) :
    Agrees(d.revisions[r], m)

WellFormed(d) ==
  /\ d \in Desired /\ d.current \in DOMAIN d.revisions
  /\ \A r \in DOMAIN d.revisions :
       Rooted(d, r) /\ Fits(d.revisions[r], SourceBase(d, d.revisions[r].source))
  /\ Agreement(d)

(* The work a process has claimed, which stays where it is. *)
Holds(x, d) ==
  /\ x.revision \in DOMAIN d.revisions
  /\ x.member \in DOMAIN d.revisions[x.revision].work
  /\ x.stage \in 1..Stages /\ x.mark \in Nat

Places == [pc : {"off", "claimed", "fetch"}, checked : Nat, reading : Nat, revision : Nat,
           member : Members \cup {None}, stage : Nat, mark : Nat]

Processes ==
  /\ claims \in Nat /\ proc \in [Owners -> Places]
  /\ \A o \in Owners : /\ proc[o].checked <= now /\ proc[o].reading <= 2 * claims
                       /\ proc[o].pc # "off" => Holds(proc[o], desired)

PlansOK == plans \subseteq [session : Nat, revision : DOMAIN desired.revisions]

IInv ==
  /\ now \in 0..MaxTime /\ WellFormed(desired) /\ WithinBound(desired)
  /\ PlansOK /\ Processes


-----------------------------------------------------------------------------
(* Data.                                                                     *)

LEMMA SessionType == ASSUME NEW t \in Nat PROVE Session(t) \in Nat \ {0}
  BY DesiredAssumption, SMT DEF Session

LEMMA IntentFacts == Members \in Intents /\ Base \subseteq Members /\ \A c \in Intents : c \subseteq Members /\ Base \subseteq c
  BY DesiredAssumption DEF Members

LEMMA PartialFacts ==
  ASSUME NEW T, NEW S \in SUBSET Members, NEW f \in [S -> T] PROVE f \in Partial(T)
  BY DEF Partial

(* Replacing a revision.                                                     *)

Patch(d, r, v) == [d EXCEPT !.revisions[r] = v]

LEMMA PatchFacts ==
  ASSUME NEW d \in Desired, NEW r \in DOMAIN d.revisions, NEW v \in Revision
  PROVE  /\ Patch(d, r, v) \in Desired /\ Patch(d, r, v).current = d.current
         /\ DOMAIN Patch(d, r, v).revisions = DOMAIN d.revisions
         /\ Len(Patch(d, r, v).revisions) = Len(d.revisions)
         /\ Patch(d, r, v).revisions[r] = v
         /\ \A i \in DOMAIN d.revisions \ {r} : Patch(d, r, v).revisions[i] = d.revisions[i]
<1> DEFINE q == d.revisions
           w == [q EXCEPT ![r] = v]
<1>1. q \in Seq(Revision) /\ DOMAIN q = 1..Len(q) /\ Len(q) \in Nat BY DEF Desired
<1>2. \A i \in 1..Len(q) : q[i] \in Revision BY <1>1
<1>3. w \in [1..Len(q) -> Revision] BY <1>1, <1>2
<1>4. w \in Seq(Revision) /\ Len(w) = Len(q) BY <1>1, <1>3
<1>5. /\ w[r] = v /\ \A i \in DOMAIN q \ {r} : w[i] = q[i] BY <1>1
<1>6. Patch(d, r, v) = [revisions |-> w, current |-> d.current] BY DEF Patch, Desired
<1> HIDE DEF w
<1>7. QED BY <1>1, <1>3, <1>4, <1>5, <1>6 DEF Desired

(* What no transaction undoes: what a revision was recorded with, a snapshot *)
(* that was made, and the order of the current revisions.                    *)

Static(u, v) ==
  /\ v.session = u.session /\ v.recorded = u.recorded
  /\ v.source = u.source /\ v.members = u.members
  /\ u.snapshot # {} => v.snapshot = u.snapshot

Ahead(u, v) ==
  \/ v.session > u.session
  \/ v.session = u.session /\ v.recorded >= u.recorded

Evolves(d, e) ==
  /\ DOMAIN d.revisions \subseteq DOMAIN e.revisions
  /\ \A r \in DOMAIN d.revisions : Static(d.revisions[r], e.revisions[r])
  /\ Ahead(d.revisions[d.current], e.revisions[e.current])

LEMMA Shape ==
  ASSUME NEW d, WellFormed(d)
  PROVE  /\ d \in Desired /\ d.current \in DOMAIN d.revisions
         /\ DOMAIN d.revisions = 1..Len(d.revisions) /\ Len(d.revisions) \in Nat
         /\ \A r \in DOMAIN d.revisions :
              /\ d.revisions[r] \in Revision
              /\ d.revisions[r].session \in Nat /\ d.revisions[r].recorded \in Nat
              /\ d.revisions[r].source \in Nat
              /\ d.revisions[r].source # 0 => d.revisions[r].source \in DOMAIN d.revisions
<1>1. d \in Desired /\ d.current \in DOMAIN d.revisions BY DEF WellFormed
<1>2. d.revisions \in Seq(Revision) BY <1>1 DEF Desired
<1>3. DOMAIN d.revisions = 1..Len(d.revisions) /\ Len(d.revisions) \in Nat BY <1>2
<1>4. \A r \in DOMAIN d.revisions : d.revisions[r] \in Revision BY <1>2, <1>3
<1>5. \A r \in DOMAIN d.revisions : d.revisions[r].source < r BY DEF WellFormed, Rooted
<1>6. ASSUME NEW r \in DOMAIN d.revisions
      PROVE  /\ d.revisions[r].session \in Nat /\ d.revisions[r].recorded \in Nat
             /\ d.revisions[r].source \in Nat
             /\ d.revisions[r].source # 0 => d.revisions[r].source \in DOMAIN d.revisions
  <2>1. /\ d.revisions[r].session \in Nat /\ d.revisions[r].recorded \in Nat
        /\ d.revisions[r].source \in Nat
    BY <1>4 DEF Revision
  <2>2. QED BY <2>1, <1>3, <1>5
<1>7. QED BY <1>1, <1>3, <1>4, <1>6

LEMMA EvolvesReflexive == ASSUME NEW d, WellFormed(d) PROVE Evolves(d, d)
  BY Shape DEF Evolves, Static, Ahead

LEMMA EvolvesTransitive ==
  ASSUME NEW c, NEW d, NEW e, WellFormed(c), WellFormed(d), WellFormed(e),
         Evolves(c, d), Evolves(d, e)
  PROVE  Evolves(c, e)
<1>1. /\ DOMAIN c.revisions \subseteq DOMAIN e.revisions
      /\ \A r \in DOMAIN c.revisions : Static(c.revisions[r], e.revisions[r])
  BY DEF Evolves, Static
<1> DEFINE u == c.revisions[c.current]
           v == d.revisions[d.current]
           w == e.revisions[e.current]
<1>2. /\ u.session \in Nat /\ v.session \in Nat /\ w.session \in Nat
      /\ u.recorded \in Nat /\ v.recorded \in Nat /\ w.recorded \in Nat
  BY Shape
<1>3. Ahead(u, v) /\ Ahead(v, w) BY DEF Evolves
<1>4. Ahead(u, w)
  <2> HIDE DEF u, v, w
  <2>1. QED BY <1>2, <1>3 DEF Ahead
<1>5. QED BY <1>1, <1>4 DEF Evolves

LEMMA SourceBaseKept ==
  ASSUME NEW d, NEW e, WellFormed(d), Evolves(d, e), NEW r \in DOMAIN d.revisions
  PROVE  SourceBase(e, e.revisions[r].source) = SourceBase(d, d.revisions[r].source)
<1> DEFINE s == d.revisions[r].source
<1>1. e.revisions[r].source = s BY DEF Evolves, Static
<1>2. s # 0 => s \in DOMAIN d.revisions /\ d.revisions[s].snapshot # {} BY Shape DEF WellFormed, Rooted
<1>3. s # 0 => e.revisions[s].snapshot = d.revisions[s].snapshot BY <1>2 DEF Evolves, Static
<1>4. QED BY <1>1, <1>3 DEF SourceBase

LEMMA InDropped ==
  ASSUME NEW d, NEW r \in DOMAIN d.revisions, d.revisions[r].snapshot # {}
  PROVE  SourceBase(d, d.revisions[r].source) \ d.revisions[r].snapshot \subseteq Dropped(d)
  BY DEF Dropped

LEMMA OfDropped ==
  ASSUME NEW d, NEW m \in Dropped(d)
  PROVE  \E r \in DOMAIN d.revisions :
           /\ d.revisions[r].snapshot # {}
           /\ m \in SourceBase(d, d.revisions[r].source) \ d.revisions[r].snapshot
  BY DEF Dropped

LEMMA DroppedGrows ==
  ASSUME NEW d, NEW e, WellFormed(d), Evolves(d, e) PROVE Dropped(d) \subseteq Dropped(e)
<1> SUFFICES ASSUME NEW m \in Dropped(d) PROVE m \in Dropped(e) OBVIOUS
<1>1. PICK r \in DOMAIN d.revisions :
           /\ d.revisions[r].snapshot # {}
           /\ m \in SourceBase(d, d.revisions[r].source) \ d.revisions[r].snapshot
  BY OfDropped
<1>2. r \in DOMAIN e.revisions /\ e.revisions[r].snapshot = d.revisions[r].snapshot
  BY <1>1 DEF Evolves, Static
<1>3. SourceBase(e, e.revisions[r].source) = SourceBase(d, d.revisions[r].source) BY SourceBaseKept
<1>4. QED BY <1>1, <1>2, <1>3, InDropped


LEMMA PatchEvolves ==
  ASSUME NEW d, WellFormed(d), NEW r \in DOMAIN d.revisions, NEW v \in Revision,
         Static(d.revisions[r], v)
  PROVE  /\ Evolves(d, Patch(d, r, v))
         /\ \A i \in DOMAIN d.revisions : Static(d.revisions[i], Patch(d, r, v).revisions[i])
<1> DEFINE e == Patch(d, r, v)
<1>1. d \in Desired BY Shape
<1>2. /\ e.current = d.current /\ DOMAIN e.revisions = DOMAIN d.revisions
      /\ e.revisions[r] = v
      /\ \A i \in DOMAIN d.revisions \ {r} : e.revisions[i] = d.revisions[i]
  BY <1>1, PatchFacts
<1> HIDE DEF e
<1>3. \A i \in DOMAIN d.revisions : Static(d.revisions[i], e.revisions[i])
  BY <1>2 DEF Static
<1>4. d.current \in DOMAIN d.revisions BY Shape
<1>5. /\ d.revisions[d.current].session \in Nat /\ d.revisions[d.current].recorded \in Nat
  BY <1>4, Shape
<1>6. /\ e.revisions[e.current].session = d.revisions[d.current].session
      /\ e.revisions[e.current].recorded = d.revisions[d.current].recorded
  BY <1>2, <1>3, <1>4 DEF Static
<1>7. Ahead(d.revisions[d.current], e.revisions[e.current]) BY <1>5, <1>6 DEF Ahead
<1>8. QED BY <1>2, <1>3, <1>7 DEF Evolves, e

(* A revision can be replaced by one that fits where it is.                   *)
LEMMA PatchKeeps ==
  ASSUME NEW d, WellFormed(d), NEW r \in DOMAIN d.revisions, NEW v \in Revision,
         Static(d.revisions[r], v), Fits(v, SourceBase(d, v.source)),
         \A m \in DOMAIN v.work \ Dropped(d) : Agrees(v, m)
  PROVE  WellFormed(Patch(d, r, v)) /\ Evolves(d, Patch(d, r, v))
<1> DEFINE e == Patch(d, r, v)
<1>1. d \in Desired BY Shape
<1>2. /\ e \in Desired /\ e.current = d.current /\ DOMAIN e.revisions = DOMAIN d.revisions
      /\ e.revisions[r] = v
      /\ \A i \in DOMAIN d.revisions \ {r} : e.revisions[i] = d.revisions[i]
  BY <1>1, PatchFacts
<1> HIDE DEF e
<1>3. \A i \in DOMAIN d.revisions : Static(d.revisions[i], e.revisions[i])
  BY PatchEvolves DEF e
<1>4. Evolves(d, e) BY PatchEvolves DEF e
<1>5. ASSUME NEW i \in DOMAIN d.revisions
      PROVE  Rooted(e, i) /\ Fits(e.revisions[i], SourceBase(e, e.revisions[i].source))
  <2>1. Rooted(d, i) /\ Fits(d.revisions[i], SourceBase(d, d.revisions[i].source)) BY DEF WellFormed
  <2>2. e.revisions[i].source = d.revisions[i].source BY <1>3 DEF Static
  <2>3. SourceBase(e, e.revisions[i].source) = SourceBase(d, d.revisions[i].source)
    BY <1>4, SourceBaseKept
  <2>4. Rooted(e, i)
    <3>1. d.revisions[i].source # 0 => d.revisions[i].source \in DOMAIN d.revisions BY Shape
    <3>2. QED BY <3>1, <2>1, <2>2, <1>3 DEF Rooted, Static
  <2>5. Fits(e.revisions[i], SourceBase(e, e.revisions[i].source))
    <3>1. CASE i = r
      <4>1. v.source = d.revisions[i].source BY <3>1 DEF Static
      <4>2. QED BY <3>1, <4>1, <2>3, <1>2
    <3>2. CASE i # r BY <3>2, <2>1, <2>2, <2>3, <1>2
    <3>3. QED BY <3>1, <3>2
  <2>6. QED BY <2>4, <2>5
<1>6. Agreement(e)
  <2> SUFFICES ASSUME NEW i \in DOMAIN d.revisions, NEW m \in DOMAIN e.revisions[i].work \ Dropped(e)
               PROVE  Agrees(e.revisions[i], m)
    BY <1>2 DEF Agreement
  <2>1. m \notin Dropped(d) BY <1>4, DroppedGrows
  <2>2. CASE i = r BY <2>1, <2>2, <1>2
  <2>3. CASE i # r
    <3>1. e.revisions[i] = d.revisions[i] BY <2>3, <1>2
    <3>2. QED BY <3>1, <2>1 DEF WellFormed, Agreement
  <2>4. QED BY <2>2, <2>3
<1>7. e.current \in DOMAIN e.revisions BY <1>2, Shape
<1>8. WellFormed(e) BY <1>2, <1>5, <1>6, <1>7 DEF WellFormed
<1>9. QED BY <1>4, <1>8 DEF e

(* The parts of a revision of a well-formed state.                            *)
LEMMA RevisionFacts ==
  ASSUME NEW d, WellFormed(d), NEW r \in DOMAIN d.revisions
  PROVE  LET v == d.revisions[r]
             base == SourceBase(d, v.source)
         IN  /\ v \in Revision /\ Fits(v, base) /\ v.members \subseteq Members
             /\ DOMAIN v.ready = v.members /\ DOMAIN v.work = v.members \ base
             /\ \A m \in v.members : v.ready[m] \in Readiness
             /\ \A m \in v.members \ base : v.work[m] \in Plan
<1> DEFINE v == d.revisions[r]
           base == SourceBase(d, v.source)
<1>1. v \in Revision BY Shape
<1>2. Fits(v, base) BY DEF WellFormed
<1>3. v.members \subseteq Members BY <1>2, IntentFacts DEF Fits
<1>4. v.ready \in [v.members -> Readiness] /\ v.work \in [v.members \ base -> Plan] BY <1>2 DEF Fits
<1>5. QED BY <1>1, <1>2, <1>3, <1>4

(* Changing readiness, work, use or snapshot of a revision.                   *)
Variant(u, ready, work, reserved, used, snapshot) ==
  [u EXCEPT !.ready = ready, !.work = work, !.reserved = reserved, !.used = used,
            !.snapshot = snapshot]

Suits(u, ready, work, reserved, used, snapshot) ==
  /\ ready \in [u.members -> Readiness] /\ work \in [DOMAIN u.work -> Plan]
  /\ reserved \in [DOMAIN u.work -> Nat] /\ used \in [DOMAIN u.work -> Nat]
  /\ snapshot \subseteq u.members /\ (u.snapshot # {} => snapshot = u.snapshot)
  /\ \A m \in DOMAIN u.work : Owned(work[m]) /\ InOrder(work[m])

LEMMA VariantFacts ==
  ASSUME NEW d, WellFormed(d), NEW r \in DOMAIN d.revisions,
         NEW ready, NEW work, NEW reserved, NEW used, NEW snapshot,
         Suits(d.revisions[r], ready, work, reserved, used, snapshot),
         NEW v, v = Variant(d.revisions[r], ready, work, reserved, used, snapshot)
  PROVE  /\ v \in Revision /\ Static(d.revisions[r], v) /\ Fits(v, SourceBase(d, v.source))
         /\ v.ready = ready /\ v.work = work /\ v.snapshot = snapshot
         /\ v.reserved = reserved /\ v.used = used
<1> DEFINE u == d.revisions[r]
           base == SourceBase(d, u.source)
<1>1. /\ u \in Revision /\ Fits(u, base) /\ u.members \subseteq Members
      /\ DOMAIN u.work = u.members \ base
  BY RevisionFacts
<1>0. /\ ready \in [u.members -> Readiness] /\ work \in [DOMAIN u.work -> Plan]
      /\ reserved \in [DOMAIN u.work -> Nat] /\ used \in [DOMAIN u.work -> Nat]
      /\ snapshot \in SUBSET u.members /\ (u.snapshot # {} => snapshot = u.snapshot)
      /\ \A m \in DOMAIN u.work : Owned(work[m]) /\ InOrder(work[m])
  BY DEF Suits
<1>2. /\ ready \in Partial(Readiness) /\ work \in Partial(Plan)
      /\ reserved \in Partial(Nat) /\ used \in Partial(Nat)
  BY <1>0, <1>1, PartialFacts
<1>3. /\ v \in Revision
      /\ v.ready = ready /\ v.work = work /\ v.snapshot = snapshot
      /\ v.reserved = reserved /\ v.used = used
      /\ v.session = u.session /\ v.recorded = u.recorded
      /\ v.source = u.source /\ v.members = u.members
  BY <1>0, <1>1, <1>2 DEF Revision, Variant
<1>4. Static(u, v) BY <1>0, <1>3 DEF Static
<1>5. Fits(v, base)
  <2>1. \A m \in u.members \ base : Owned(work[m]) /\ InOrder(work[m]) BY <1>0, <1>1
  <2> HIDE DEF base
  <2>2. QED BY <1>0, <1>1, <1>3, <2>1 DEF Fits
<1>6. QED BY <1>3, <1>4, <1>5

(* What is left alone by a change of revision r. *)
Around(d, e, r) ==
  /\ e.current = d.current /\ DOMAIN e.revisions = DOMAIN d.revisions
  /\ Len(e.revisions) = Len(d.revisions)
  /\ \A i \in DOMAIN d.revisions \ {r} : e.revisions[i] = d.revisions[i]

Tells(ready, work, S) ==
  \A m \in S :
    /\ ready[m] = "READY" => \A k \in 1..Stages : work[m][k].status = "COMPLETE"
    /\ ready[m] = "FAILED" <=> \E k \in 1..Stages : work[m][k].status = "BLOCKED"

Adapts(d, r, v) ==
  /\ v \in Revision /\ Static(d.revisions[r], v) /\ Fits(v, SourceBase(d, v.source))
  /\ \A m \in DOMAIN v.work \ Dropped(d) : Agrees(v, m)

LEMMA Replaced ==
  ASSUME NEW d, WellFormed(d), NEW r \in DOMAIN d.revisions, NEW v, Adapts(d, r, v),
         NEW e, e = Patch(d, r, v)
  PROVE  WellFormed(e) /\ Evolves(d, e) /\ Around(d, e, r) /\ e.revisions[r] = v
<1>1. /\ v \in Revision /\ Static(d.revisions[r], v) /\ Fits(v, SourceBase(d, v.source))
      /\ \A m \in DOMAIN v.work \ Dropped(d) : Agrees(v, m)
  BY DEF Adapts
<1>2. WellFormed(e) /\ Evolves(d, e) BY <1>1, PatchKeeps
<1>3. d \in Desired BY Shape
<1>4. Around(d, e, r) /\ e.revisions[r] = v BY <1>1, <1>3, PatchFacts DEF Around
<1>5. QED BY <1>2, <1>4

Alters(d, r, ready, work, reserved, used, snapshot, v) ==
  /\ Suits(d.revisions[r], ready, work, reserved, used, snapshot)
  /\ Tells(ready, work, DOMAIN d.revisions[r].work \ Dropped(d))
  /\ v = Variant(d.revisions[r], ready, work, reserved, used, snapshot)

LEMMA Change ==
  ASSUME NEW d, WellFormed(d), NEW r \in DOMAIN d.revisions,
         NEW ready, NEW work, NEW reserved, NEW used, NEW snapshot, NEW v,
         Alters(d, r, ready, work, reserved, used, snapshot, v)
  PROVE  /\ Adapts(d, r, v)
         /\ v.ready = ready /\ v.work = work /\ v.snapshot = snapshot
         /\ v.reserved = reserved /\ v.used = used
<1> DEFINE u == d.revisions[r]
<1>0. /\ Suits(u, ready, work, reserved, used, snapshot)
      /\ v = Variant(u, ready, work, reserved, used, snapshot)
  BY DEF Alters
<1>1. /\ v \in Revision /\ Static(u, v) /\ Fits(v, SourceBase(d, v.source))
      /\ v.ready = ready /\ v.work = work /\ v.snapshot = snapshot
      /\ v.reserved = reserved /\ v.used = used
  BY <1>0, VariantFacts
<1>2. DOMAIN work = DOMAIN u.work BY <1>0 DEF Suits
<1>3. \A m \in DOMAIN v.work \ Dropped(d) : Agrees(v, m)
  BY <1>1, <1>2 DEF Agrees, Prepared, Tells, Alters
<1>4. QED BY <1>1, <1>3 DEF Adapts

-----------------------------------------------------------------------------
(* The memberships that are made, and what they are made of.                  *)

MadeOfPrepared(d, e) ==
  \A r \in DOMAIN e.revisions :
    \/ r \in DOMAIN d.revisions /\ d.revisions[r].snapshot # {}
    \/ \A m \in (e.revisions[r].snapshot \cap DOMAIN e.revisions[r].work) \ Dropped(e) :
         Prepared(e.revisions[r], m)

(* What a transaction may do to a revision on the way.                        *)
Allowed(c, d, e, r) ==
  \/ /\ r \in DOMAIN d.revisions /\ e.revisions[r].work = d.revisions[r].work
     /\ e.revisions[r].snapshot \in {d.revisions[r].snapshot, Having(d.revisions[r], "READY")}
  \/ e.revisions[r].snapshot = {}
  \/ r \in DOMAIN c.revisions /\ c.revisions[r].snapshot # {}

LEMMA MadeComposes ==
  ASSUME NEW c, NEW d, NEW e, WellFormed(d), Evolves(d, e), MadeOfPrepared(c, d),
         \A r \in DOMAIN e.revisions : Allowed(c, d, e, r)
  PROVE  MadeOfPrepared(c, e)
<1> SUFFICES ASSUME NEW r \in DOMAIN e.revisions,
                    ~(r \in DOMAIN c.revisions /\ c.revisions[r].snapshot # {}),
                    NEW m \in (e.revisions[r].snapshot \cap DOMAIN e.revisions[r].work) \ Dropped(e)
             PROVE  Prepared(e.revisions[r], m)
  BY DEF MadeOfPrepared
<1>1. /\ r \in DOMAIN d.revisions /\ e.revisions[r].work = d.revisions[r].work
      /\ e.revisions[r].snapshot \in {d.revisions[r].snapshot, Having(d.revisions[r], "READY")}
  BY DEF Allowed
<1>2. m \notin Dropped(d) /\ m \in DOMAIN d.revisions[r].work BY <1>1, DroppedGrows
<1>3. Prepared(d.revisions[r], m)
  <2>1. CASE m \in d.revisions[r].snapshot BY <1>1, <1>2, <2>1 DEF MadeOfPrepared
  <2>2. CASE m \in Having(d.revisions[r], "READY")
    <3>1. Agrees(d.revisions[r], m) BY <1>1, <1>2 DEF WellFormed, Agreement
    <3>2. QED BY <2>2, <3>1 DEF Agrees, Having
  <2>3. QED BY <1>1, <2>1, <2>2
<1>4. QED BY <1>1, <1>3 DEF Prepared

LEMMA MadeOfNone == ASSUME NEW d, WellFormed(d), NEW e, WellFormed(e), 
                           DOMAIN e.revisions = DOMAIN d.revisions,
                           \A r \in DOMAIN d.revisions : e.revisions[r].snapshot = d.revisions[r].snapshot
                    PROVE MadeOfPrepared(d, e)
  BY DEF MadeOfPrepared

-----------------------------------------------------------------------------
(* The history of the revisions: what they were recorded with, which never    *)
(* changes, and the order of them.                                            *)

Sess(d, i) == d.revisions[i].session
Rec(d, i) == d.revisions[i].recorded
Src(d, i) == d.revisions[i].source
Mem(d, i) == d.revisions[i].members
IsServed(d, i) == d.revisions[i].snapshot # {}

AtMost(d, i, j) == i = j \/ Later(d, j, i)

(* The revisions that were the last of all when they were recorded.           *)
Leaders(d) == {x \in DOMAIN d.revisions : \A i \in DOMAIN d.revisions : i < x => Later(d, x, i)}

(* The readings of a process are even, those of the operator and of the       *)
(* controller odd.                                                            *)
Even(n) == \E k \in Nat : n = 2 * k

IsPromotion(d, i) == Src(d, i) # 0 /\ Even(Rec(d, i))
IsForwarded(d, i) == Src(d, i) # 0 /\ ~Even(Rec(d, i))

LEMMA EvenFacts == \A k \in Nat : Even(2 * k) /\ ~Even(2 * k + 1)
<1> SUFFICES ASSUME NEW k \in Nat PROVE Even(2 * k) /\ ~Even(2 * k + 1) OBVIOUS
<1>1. \A j \in Nat : 2 * k + 1 # 2 * j OBVIOUS
<1>2. QED BY <1>1 DEF Even

LEMMA HistoryFacts ==
  ASSUME NEW d, WellFormed(d)
  PROVE  /\ DOMAIN d.revisions = 1..Len(d.revisions) /\ Len(d.revisions) \in Nat
         /\ d.current \in DOMAIN d.revisions
         /\ \A i \in DOMAIN d.revisions :
              /\ i \in Nat /\ i # 0 /\ Sess(d, i) \in Nat /\ Rec(d, i) \in Nat /\ Src(d, i) \in Nat
              /\ Src(d, i) < i
              /\ Src(d, i) # 0 => Src(d, i) \in DOMAIN d.revisions /\ IsServed(d, Src(d, i))
<1>1. /\ DOMAIN d.revisions = 1..Len(d.revisions) /\ Len(d.revisions) \in Nat
      /\ d.current \in DOMAIN d.revisions
  BY Shape
<1>2. ASSUME NEW i \in DOMAIN d.revisions
      PROVE  /\ i \in Nat /\ i # 0 /\ Sess(d, i) \in Nat /\ Rec(d, i) \in Nat /\ Src(d, i) \in Nat
             /\ Src(d, i) # 0 => Src(d, i) \in DOMAIN d.revisions
  <2>1. i \in Nat /\ i # 0 BY <1>1
  <2>2. QED BY <2>1, Shape DEF Sess, Rec, Src
<1>3. ASSUME NEW i \in DOMAIN d.revisions
      PROVE  Src(d, i) < i /\ (Src(d, i) # 0 => IsServed(d, Src(d, i)))
  <2>1. Rooted(d, i) BY DEF WellFormed
  <2>2. QED BY <2>1 DEF Rooted, Src, IsServed
<1>4. QED BY <1>1, <1>2, <1>3

(* The order of the revisions.                                                *)
LEMMA LaterDef ==
  ASSUME NEW d, NEW i, NEW j
  PROVE  Later(d, i, j) <=> \/ Sess(d, i) > Sess(d, j)
                            \/ Sess(d, i) = Sess(d, j) /\ Rec(d, i) > Rec(d, j)
                            \/ Sess(d, i) = Sess(d, j) /\ Rec(d, i) = Rec(d, j) /\ i > j
  BY DEF Later, Sess, Rec

Numbered(d) ==
  \A i \in DOMAIN d.revisions : i \in Nat /\ Sess(d, i) \in Nat /\ Rec(d, i) \in Nat

LEMMA OrderFacts ==
  ASSUME NEW d, WellFormed(d)
  PROVE  \A i, j \in DOMAIN d.revisions :
           /\ AtMost(d, i, i)
           /\ AtMost(d, i, j) \/ AtMost(d, j, i)
           /\ AtMost(d, i, j) /\ AtMost(d, j, i) => i = j
           /\ AtMost(d, i, j) => Sess(d, i) <= Sess(d, j)
           /\ Sess(d, i) < Sess(d, j) => AtMost(d, i, j) /\ ~Later(d, i, j)
           /\ Sess(d, i) = Sess(d, j) /\ Rec(d, i) < Rec(d, j) => AtMost(d, i, j)
           /\ Sess(d, i) = Sess(d, j) /\ Rec(d, i) <= Rec(d, j) /\ i < j => AtMost(d, i, j)
           /\ ~Later(d, i, j) <=> AtMost(d, i, j)
           /\ Later(d, i, j) => i # j /\ AtMost(d, j, i)
           /\ Sess(d, i) = Sess(d, j) /\ AtMost(d, i, j) => Rec(d, i) <= Rec(d, j)
<1> SUFFICES ASSUME NEW i \in DOMAIN d.revisions, NEW j \in DOMAIN d.revisions
             PROVE  /\ AtMost(d, i, i)
                    /\ AtMost(d, i, j) \/ AtMost(d, j, i)
                    /\ AtMost(d, i, j) /\ AtMost(d, j, i) => i = j
                    /\ AtMost(d, i, j) => Sess(d, i) <= Sess(d, j)
                    /\ Sess(d, i) < Sess(d, j) => AtMost(d, i, j) /\ ~Later(d, i, j)
                    /\ Sess(d, i) = Sess(d, j) /\ Rec(d, i) < Rec(d, j) => AtMost(d, i, j)
                    /\ Sess(d, i) = Sess(d, j) /\ Rec(d, i) <= Rec(d, j) /\ i < j => AtMost(d, i, j)
                    /\ ~Later(d, i, j) <=> AtMost(d, i, j)
                    /\ Later(d, i, j) => i # j /\ AtMost(d, j, i)
                    /\ Sess(d, i) = Sess(d, j) /\ AtMost(d, i, j) => Rec(d, i) <= Rec(d, j)
  OBVIOUS
<1>1. /\ i \in Nat /\ Sess(d, i) \in Nat /\ Rec(d, i) \in Nat
      /\ j \in Nat /\ Sess(d, j) \in Nat /\ Rec(d, j) \in Nat
  BY HistoryFacts
<1>2. QED BY <1>1, LaterDef DEF AtMost

LEMMA OrderTransitive ==
  ASSUME NEW d, WellFormed(d), NEW i \in DOMAIN d.revisions, NEW j \in DOMAIN d.revisions,
         NEW k \in DOMAIN d.revisions, AtMost(d, i, j), AtMost(d, j, k)
  PROVE  AtMost(d, i, k)
<1>1. /\ i \in Nat /\ Sess(d, i) \in Nat /\ Rec(d, i) \in Nat
      /\ j \in Nat /\ Sess(d, j) \in Nat /\ Rec(d, j) \in Nat
      /\ k \in Nat /\ Sess(d, k) \in Nat /\ Rec(d, k) \in Nat
  BY HistoryFacts
<1>2. QED BY <1>1, LaterDef DEF AtMost

(* A later state has the same history, and perhaps more.                      *)
LEMMA HistoryKept ==
  ASSUME NEW d, NEW e, Evolves(d, e)
  PROVE  /\ DOMAIN d.revisions \subseteq DOMAIN e.revisions
         /\ \A i \in DOMAIN d.revisions :
              /\ Sess(e, i) = Sess(d, i) /\ Rec(e, i) = Rec(d, i)
              /\ Src(e, i) = Src(d, i) /\ Mem(e, i) = Mem(d, i)
              /\ IsPromotion(e, i) <=> IsPromotion(d, i)
              /\ IsForwarded(e, i) <=> IsForwarded(d, i)
              /\ IsServed(d, i) => IsServed(e, i)
  BY DEF Evolves, Static, Sess, Rec, Src, Mem, IsServed, IsPromotion, IsForwarded

LEMMA OrderKept ==
  ASSUME NEW d, NEW e, Evolves(d, e), NEW i \in DOMAIN d.revisions, NEW j \in DOMAIN d.revisions
  PROVE  (Later(e, i, j) <=> Later(d, i, j)) /\ (AtMost(e, i, j) <=> AtMost(d, i, j))
<1>1. Later(e, i, j) <=> Later(d, i, j) BY HistoryKept, LaterDef
<1>2. Later(e, j, i) <=> Later(d, j, i) BY HistoryKept, LaterDef
<1>3. QED BY <1>1, <1>2 DEF AtMost

LEMMA LeadersKept ==
  ASSUME NEW d, NEW e, WellFormed(d), WellFormed(e), Evolves(d, e), NEW x \in DOMAIN d.revisions
  PROVE  x \in Leaders(e) <=> x \in Leaders(d)
<1>1. \A i \in DOMAIN e.revisions : i < x => i \in DOMAIN d.revisions
  BY HistoryFacts
<1>2. DOMAIN d.revisions \subseteq DOMAIN e.revisions BY HistoryKept
<1>3. \A i \in DOMAIN d.revisions : Later(e, x, i) <=> Later(d, x, i) BY OrderKept
<1>4. QED BY <1>1, <1>2, <1>3 DEF Leaders

-----------------------------------------------------------------------------
(* The origin of a revision.                                                  *)

Lineage(f, d) ==
  \A r \in DOMAIN d.revisions : f[r] = IF Src(d, r) = 0 THEN r ELSE f[Src(d, r)]

LEMMA NatLeast ==
  ASSUME NEW S \in SUBSET Nat, S # {}
  PROVE  \E x \in S : \A y \in S : x <= y
<1>1. IsWellFoundedOn(OpToRel(<, Nat), Nat) BY NatLessThanWellFounded
<1>2. PICK x \in S : \A y \in S : ~ (<<y, x>> \in OpToRel(<, Nat)) BY <1>1, WFMin
<1>3. \A y \in S : ~(y < x) BY <1>2 DEF OpToRel
<1> QED BY <1>3

(* f traces the revisions up to n to their origins. *)
Traces(f, d, n) ==
  /\ f = [r \in DOMAIN d.revisions |-> f[r]]
  /\ \A r \in DOMAIN d.revisions : r <= n => f[r] = IF Src(d, r) = 0 THEN r ELSE f[Src(d, r)]

TracedFurther(g, d, n) ==
  [r \in DOMAIN d.revisions |-> IF r < n THEN g[r] ELSE IF Src(d, r) = 0 THEN r ELSE g[Src(d, r)]]

LEMMA TracesFurther ==
  ASSUME NEW d, WellFormed(d), NEW n \in Nat, n # 0, NEW g, Traces(g, d, n - 1),
         NEW h, h = TracedFurther(g, d, n)
  PROVE  Traces(h, d, n)
<1>1. \A r \in DOMAIN d.revisions :
        /\ r \in Nat /\ Src(d, r) \in Nat /\ Src(d, r) < r
        /\ Src(d, r) # 0 => Src(d, r) \in DOMAIN d.revisions
  BY HistoryFacts
<1>2. h = [r \in DOMAIN d.revisions |-> h[r]] BY DEF TracedFurther
<1>3. ASSUME NEW r \in DOMAIN d.revisions, r <= n
      PROVE  h[r] = IF Src(d, r) = 0 THEN r ELSE h[Src(d, r)]
  <2>1. h[r] = IF r < n THEN g[r] ELSE IF Src(d, r) = 0 THEN r ELSE g[Src(d, r)] BY DEF TracedFurther
  <2>2. Src(d, r) # 0 => h[Src(d, r)] = g[Src(d, r)] BY <1>1, <1>3 DEF TracedFurther
  <2>3. r < n => r <= n - 1 BY <1>1
  <2>4. r < n => g[r] = IF Src(d, r) = 0 THEN r ELSE g[Src(d, r)] BY <2>3 DEF Traces
  <2>5. QED BY <2>1, <2>2, <2>4
<1>4. QED BY <1>2, <1>3 DEF Traces

LEMMA TraceExists ==
  ASSUME NEW d, WellFormed(d) PROVE \A n \in Nat : \E f : Traces(f, d, n)
<1> DEFINE Missing == {n \in Nat : ~ \E f : Traces(f, d, n)}
<1>1. SUFFICES ASSUME Missing # {} PROVE FALSE OBVIOUS
<1>2. PICK n \in Missing : \A k \in Missing : n <= k
  <2>1. Missing \in SUBSET Nat OBVIOUS
  <2> HIDE DEF Missing
  <2>2. QED BY <2>1, <1>1, NatLeast
<1>3. n # 0
  <2>1. PICK f : f = [r \in DOMAIN d.revisions |-> r] OBVIOUS
  <2>2. \A r \in DOMAIN d.revisions : ~(r <= 0) BY HistoryFacts
  <2>3. f = [r \in DOMAIN d.revisions |-> f[r]] BY <2>1
  <2>4. Traces(f, d, 0) BY <2>2, <2>3 DEF Traces
  <2>5. QED BY <2>4
<1>4. PICK g : Traces(g, d, n - 1)
  <2>1. n - 1 \in Nat /\ n - 1 < n BY <1>3
  <2>2. QED BY <2>1, <1>2
<1>5. PICK h : h = TracedFurther(g, d, n) OBVIOUS
<1>6. Traces(h, d, n) BY <1>3, <1>4, <1>5, TracesFurther
<1>7. QED BY <1>6

LEMMA OriginTraces == ASSUME WellFormed(desired) PROVE Lineage(Origin, desired)
<1> DEFINE R == DOMAIN desired.revisions
           q == desired.revisions
<1>1. PICK f : Traces(f, desired, Len(q)) BY TraceExists, Shape
<1>2. f = [r \in R |-> IF q[r].source = 0 THEN r ELSE f[q[r].source]]
  <2>1. \A r \in R : r <= Len(q) BY Shape
  <2>2. \A r \in R : f[r] = IF q[r].source = 0 THEN r ELSE f[q[r].source]
    BY <1>1, <2>1 DEF Traces, Src
  <2>3. f = [r \in R |-> f[r]] BY <1>1 DEF Traces
  <2>4. QED BY <2>2, <2>3
<1>3. Origin = CHOOSE g : g = [r \in R |-> IF q[r].source = 0 THEN r ELSE g[q[r].source]]
  BY DEF Origin
<1>4. Origin = [r \in R |-> IF q[r].source = 0 THEN r ELSE Origin[q[r].source]]
  <2> HIDE DEF R, q
  <2>1. QED BY Zenon, <1>2, <1>3
<1>5. QED BY <1>4 DEF Lineage, Src

(* A revision is carried from one of its session or of an earlier one.        *)
Sourced(d) ==
  \A i \in DOMAIN d.revisions :
    Src(d, i) # 0 => Sess(d, Src(d, i)) <= Sess(d, i) /\ Mem(d, Src(d, i)) = Mem(d, i)

LEMMA OriginFacts ==
  ASSUME NEW d, WellFormed(d), Sourced(d), NEW f, Lineage(f, d)
  PROVE  \A i \in DOMAIN d.revisions : f[i] \in DOMAIN d.revisions /\ Sess(d, f[i]) <= Sess(d, i)
<1> DEFINE Bad == {i \in DOMAIN d.revisions :
                     ~(f[i] \in DOMAIN d.revisions /\ Sess(d, f[i]) <= Sess(d, i))}
<1>1. SUFFICES ASSUME Bad # {} PROVE FALSE OBVIOUS
<1>2. PICK i \in Bad : \A j \in Bad : i <= j
  <2>1. Bad \in SUBSET Nat BY HistoryFacts
  <2> HIDE DEF Bad
  <2>2. QED BY <2>1, <1>1, NatLeast
<1>3. /\ i \in Nat /\ Sess(d, i) \in Nat /\ Src(d, i) \in Nat /\ Src(d, i) < i
      /\ Src(d, i) # 0 => Src(d, i) \in DOMAIN d.revisions
  BY HistoryFacts
<1>4. CASE Src(d, i) = 0 BY <1>3, <1>4 DEF Lineage
<1>5. CASE Src(d, i) # 0
  <2>1. PICK y \in DOMAIN d.revisions : y = Src(d, i) BY <1>3, <1>5
  <2>2. y < i BY <2>1, <1>3
  <2>3. y \notin Bad BY <2>2, <1>2, HistoryFacts
  <2>4. f[i] = f[y] BY <2>1, <1>5 DEF Lineage
  <2>5. f[y] \in DOMAIN d.revisions /\ Sess(d, f[y]) <= Sess(d, y) BY <2>3
  <2>6. Sess(d, y) <= Sess(d, i) BY <2>1, <1>5 DEF Sourced
  <2>7. Sess(d, y) \in Nat /\ Sess(d, f[y]) \in Nat BY <2>5, HistoryFacts
  <2>8. QED BY <2>4, <2>5, <2>6, <2>7, <1>3
<1>6. QED BY <1>4, <1>5

-----------------------------------------------------------------------------
(* What a transaction does to the history: nothing, or a revision is added.   *)

(* A row that runs did so before, but for those of q.                         *)
RowsKept(d, e, q) ==
  \A r \in DOMAIN d.revisions : \A m \in DOMAIN d.revisions[r].work : \A k \in 1..Stages :
    LET row == e.revisions[r].work[m][k] IN
    row.status = "RUNNING" /\ row.owner # q => row = d.revisions[r].work[m][k]

(* No revision is added, and only those in S get a snapshot.                  *)
Passes(d, e, q, S) ==
  /\ Evolves(d, e) /\ DOMAIN e.revisions = DOMAIN d.revisions
  /\ Len(e.revisions) = Len(d.revisions) /\ e.current = d.current
  /\ RowsKept(d, e, q)
  /\ \A i \in DOMAIN d.revisions : IsServed(e, i) /\ ~IsServed(d, i) => i \in S

(* x is added, of session s and from y, and is the current one if it is the last. *)
Adds(d, e, x, s, y, at) ==
  /\ x = Len(d.revisions) + 1 /\ DOMAIN e.revisions = DOMAIN d.revisions \cup {x}
  /\ Sess(e, x) = s /\ Src(e, x) = y /\ Rec(e, x) = at
  /\ \A i \in DOMAIN d.revisions :
       ~(Sess(d, i) = s /\ Src(d, i) = y /\ Mem(d, i) = Mem(e, x))
  /\ e.current = IF Later(e, x, d.current) THEN x ELSE d.current

(* x is of session s and from y, whether it was there before or is added.     *)
Grows(d, e, S, x, s, y, at) ==
  /\ x \in DOMAIN e.revisions /\ Sess(e, x) = s /\ Src(e, x) = y
  /\ Evolves(d, e) /\ RowsKept(d, e, None)
  /\ \A i \in DOMAIN e.revisions :
       IsServed(e, i) /\ ~(i \in DOMAIN d.revisions /\ IsServed(d, i)) => i \in S
  /\ \/ DOMAIN e.revisions = DOMAIN d.revisions /\ e.current = d.current
     \/ Adds(d, e, x, s, y, at)

LEMMA WorkDomainKept ==
  ASSUME NEW d, NEW e, WellFormed(d), WellFormed(e), Evolves(d, e), NEW r \in DOMAIN d.revisions
  PROVE  r \in DOMAIN e.revisions /\ DOMAIN e.revisions[r].work = DOMAIN d.revisions[r].work
<1>1. r \in DOMAIN e.revisions /\ e.revisions[r].members = d.revisions[r].members
  BY DEF Evolves, Static
<1>2. SourceBase(e, e.revisions[r].source) = SourceBase(d, d.revisions[r].source) BY SourceBaseKept
<1>3. DOMAIN e.revisions[r].work = e.revisions[r].members \ SourceBase(e, e.revisions[r].source)
  BY <1>1, RevisionFacts
<1>4. DOMAIN d.revisions[r].work = d.revisions[r].members \ SourceBase(d, d.revisions[r].source)
  BY RevisionFacts
<1>5. QED BY <1>1, <1>2, <1>3, <1>4

LEMMA RowsKeptThen ==
  ASSUME NEW c, NEW d, NEW e, NEW q, WellFormed(c), WellFormed(d), Evolves(c, d),
         RowsKept(c, d, q), RowsKept(d, e, q)
  PROVE  RowsKept(c, e, q)
<1> SUFFICES ASSUME NEW r \in DOMAIN c.revisions, NEW m \in DOMAIN c.revisions[r].work,
                    NEW k \in 1..Stages, e.revisions[r].work[m][k].status = "RUNNING",
                    e.revisions[r].work[m][k].owner # q
             PROVE  e.revisions[r].work[m][k] = c.revisions[r].work[m][k]
  BY Zenon DEF RowsKept
<1>1. r \in DOMAIN d.revisions /\ m \in DOMAIN d.revisions[r].work BY WorkDomainKept
<1>2. e.revisions[r].work[m][k] = d.revisions[r].work[m][k] BY Zenon, <1>1 DEF RowsKept
<1>3. d.revisions[r].work[m][k] = c.revisions[r].work[m][k] BY Zenon, <1>2 DEF RowsKept
<1>4. QED BY <1>2, <1>3

LEMMA PassesNothing == ASSUME NEW d, WellFormed(d), NEW q, NEW S PROVE Passes(d, d, q, S)
<1>1. Evolves(d, d) BY EvolvesReflexive
<1>2. RowsKept(d, d, q) BY DEF RowsKept
<1>3. QED BY <1>1, <1>2 DEF Passes

LEMMA PassesThen ==
  ASSUME NEW c, NEW d, NEW e, WellFormed(c), WellFormed(d), WellFormed(e), NEW q, NEW S,
         Passes(c, d, q, S), Passes(d, e, q, S)
  PROVE  Passes(c, e, q, S)
<1>1. Evolves(c, e) BY EvolvesTransitive DEF Passes
<1>2. RowsKept(c, e, q) BY RowsKeptThen DEF Passes
<1>3. QED BY <1>1, <1>2 DEF Passes

LEMMA PassesWider ==
  ASSUME NEW d, NEW e, NEW q, NEW S, NEW T, Passes(d, e, q, S), S \subseteq T
  PROVE  Passes(d, e, q, T)
  BY DEF Passes

(* A pass before or after leaves a transaction what it is.                    *)
LEMMA PassesGrow ==
  ASSUME NEW c, NEW d, NEW e, WellFormed(c), WellFormed(d), WellFormed(e),
         NEW S, NEW x, NEW s, NEW y, NEW at,
         Passes(c, d, None, S), Grows(d, e, S, x, s, y, at)
  PROVE  Grows(c, e, S, x, s, y, at)
<1>1. Evolves(c, e) BY EvolvesTransitive DEF Passes, Grows
<1>2. RowsKept(c, e, None) BY RowsKeptThen DEF Passes, Grows
<1>3. /\ DOMAIN d.revisions = DOMAIN c.revisions /\ Len(d.revisions) = Len(c.revisions)
      /\ d.current = c.current
      /\ \A i \in DOMAIN c.revisions : IsServed(d, i) /\ ~IsServed(c, i) => i \in S
  BY DEF Passes
<1>4. \A i \in DOMAIN c.revisions :
        Sess(d, i) = Sess(c, i) /\ Src(d, i) = Src(c, i) /\ Mem(d, i) = Mem(c, i)
  BY HistoryKept DEF Passes
<1>5. Adds(d, e, x, s, y, at) => Adds(c, e, x, s, y, at) BY <1>3, <1>4 DEF Adds
<1>6. QED BY <1>1, <1>2, <1>3, <1>5 DEF Grows

LEMMA GrowsPass ==
  ASSUME NEW c, NEW d, NEW e, WellFormed(c), WellFormed(d), WellFormed(e),
         NEW S, NEW x, NEW s, NEW y, NEW at,
         Grows(c, d, S, x, s, y, at), Passes(d, e, None, S)
  PROVE  Grows(c, e, S, x, s, y, at)
<1>1. Evolves(c, e) BY EvolvesTransitive DEF Passes, Grows
<1>2. RowsKept(c, e, None) BY RowsKeptThen DEF Passes, Grows
<1>3. /\ DOMAIN e.revisions = DOMAIN d.revisions /\ Len(e.revisions) = Len(d.revisions)
      /\ e.current = d.current /\ Evolves(d, e)
      /\ \A i \in DOMAIN d.revisions : IsServed(e, i) /\ ~IsServed(d, i) => i \in S
  BY DEF Passes
<1>4. \A i \in DOMAIN d.revisions :
        /\ Sess(e, i) = Sess(d, i) /\ Src(e, i) = Src(d, i) /\ Mem(e, i) = Mem(d, i)
        /\ Rec(e, i) = Rec(d, i)
  BY <1>3, HistoryKept
<1>5. x \in DOMAIN d.revisions BY DEF Grows
<1>6. ASSUME Adds(c, d, x, s, y, at) PROVE Adds(c, e, x, s, y, at)
  <2>1. c.current \in DOMAIN d.revisions BY HistoryFacts DEF Grows, Evolves
  <2>2. Later(e, x, c.current) <=> Later(d, x, c.current) BY <1>3, <1>5, <2>1, OrderKept
  <2>3. QED BY <1>3, <1>4, <1>5, <1>6, <2>2 DEF Adds
<1>7. QED BY <1>1, <1>2, <1>3, <1>4, <1>5, <1>6 DEF Grows

-----------------------------------------------------------------------------
(* The operators of the desired state.                                        *)

Sealed(d, r) == [d EXCEPT !.revisions[r].snapshot = Having(d.revisions[r], "READY")]

LEMMA SealedFacts ==
  ASSUME NEW d, WellFormed(d), NEW r \in DOMAIN d.revisions, d.revisions[r].snapshot = {},
         NEW e, e = Sealed(d, r)
  PROVE  /\ WellFormed(e) /\ Evolves(d, e) /\ Around(d, e, r)
         /\ e.revisions[r].ready = d.revisions[r].ready /\ e.revisions[r].work = d.revisions[r].work
         /\ e.revisions[r].snapshot = Having(d.revisions[r], "READY")
<1> DEFINE u == d.revisions[r]
           snapshot == Having(u, "READY")
<1>1. /\ u \in Revision /\ Fits(u, SourceBase(d, u.source))
      /\ DOMAIN u.work = u.members \ SourceBase(d, u.source)
  BY RevisionFacts
<1>2. snapshot \in SUBSET u.members BY DEF Having
<1>3. /\ u.ready \in [u.members -> Readiness] /\ u.work \in [DOMAIN u.work -> Plan]
      /\ u.reserved \in [DOMAIN u.work -> Nat] /\ u.used \in [DOMAIN u.work -> Nat]
      /\ \A m \in DOMAIN u.work : Owned(u.work[m]) /\ InOrder(u.work[m])
  BY <1>1 DEF Fits
<1>4. Tells(u.ready, u.work, DOMAIN u.work \ Dropped(d))
  BY DEF WellFormed, Agreement, Agrees, Prepared, Tells
<1>5. PICK v : v = Variant(u, u.ready, u.work, u.reserved, u.used, snapshot) OBVIOUS
<1>6. v = [u EXCEPT !.snapshot = snapshot] BY <1>1, <1>5 DEF Revision, Variant
<1>7. e = Patch(d, r, v) BY <1>6 DEF Patch, Sealed
<1>8. Suits(u, u.ready, u.work, u.reserved, u.used, snapshot) BY <1>2, <1>3 DEF Suits
<1> HIDE DEF snapshot
<1>9. Adapts(d, r, v) /\ v.ready = u.ready /\ v.work = u.work /\ v.snapshot = snapshot
  <2>1. Alters(d, r, u.ready, u.work, u.reserved, u.used, snapshot, v)
    BY <1>4, <1>5, <1>8 DEF Alters
  <2>2. QED BY <2>1, Change
<1>10. QED BY <1>7, <1>9, Replaced DEF snapshot


(* A snapshot is made of what is READY, or nothing changes. *)
Settles(d, e, r) ==
  /\ Around(d, e, r)
  /\ e.revisions[r].ready = d.revisions[r].ready /\ e.revisions[r].work = d.revisions[r].work
  /\ e.revisions[r].snapshot \in {d.revisions[r].snapshot, Having(d.revisions[r], "READY")}
  /\ d.revisions[r].snapshot # {} => e = d

LEMMA ReconciledFacts ==
  ASSUME NEW d, WellFormed(d), NEW r \in DOMAIN d.revisions,
         NEW at, NEW partial, NEW fresh, NEW e, e = Reconciled(d, r, at, partial, fresh)
  PROVE  WellFormed(e) /\ Evolves(d, e) /\ Settles(d, e, r)
<1>1. e = d \/ (d.revisions[r].snapshot = {} /\ e = Sealed(d, r)) BY DEF Reconciled, Sealed
<1>2. CASE e = d
  <2>1. Settles(d, d, r) BY DEF Settles, Around
  <2>2. Evolves(d, d) BY EvolvesReflexive
  <2>3. QED BY <1>2, <2>1, <2>2
<1>3. CASE d.revisions[r].snapshot = {} /\ e = Sealed(d, r)
  BY <1>3, SealedFacts DEF Settles
<1>4. QED BY <1>1, <1>2, <1>3

LEMMA SettlesAllowed ==
  ASSUME NEW c, NEW d, NEW e, WellFormed(d), NEW r \in DOMAIN d.revisions, Settles(d, e, r),
         NEW i \in DOMAIN e.revisions
  PROVE  Allowed(c, d, e, i)
<1>1. CASE i = r BY <1>1 DEF Allowed, Settles, Around
<1>2. CASE i # r BY <1>2 DEF Allowed, Settles, Around
<1>3. QED BY <1>1, <1>2

(* None of the members of a revision has work to do.                          *)
NoneWarming(d, r) == \A m \in Mem(d, r) : d.revisions[r].ready[m] # "WARMING"

LEMMA ReconciledPasses ==
  ASSUME NEW d, WellFormed(d), NEW r \in DOMAIN d.revisions,
         NEW at, NEW partial, NEW fresh, NEW e, e = Reconciled(d, r, at, partial, fresh),
         NEW S, r \in S
  PROVE  /\ Passes(d, e, None, S)
         /\ IsServed(e, r) /\ ~IsServed(d, r) =>
              at >= Activation(Sess(d, r)) /\ (partial \/ NoneWarming(e, r))
<1>1. WellFormed(e) /\ Evolves(d, e) /\ Settles(d, e, r) BY ReconciledFacts
<1>2. RowsKept(d, e, None)
  <2>1. \A i \in DOMAIN d.revisions : e.revisions[i].work = d.revisions[i].work
    BY <1>1 DEF Settles, Around
  <2>2. QED BY <2>1 DEF RowsKept
<1>3. Passes(d, e, None, S) BY <1>1, <1>2 DEF Passes, Settles, Around, IsServed
<1>4. ASSUME IsServed(e, r), ~IsServed(d, r)
      PROVE  at >= Activation(Sess(d, r)) /\ (partial \/ NoneWarming(e, r))
  <2>1. e # d BY <1>4
  <2>2. Materializes(d, r, at, partial, fresh) BY Zenon, <2>1 DEF Reconciled
  <2>3. at >= Activation(Sess(d, r)) /\ (partial \/ Having(d.revisions[r], "WARMING") = {})
    BY <2>2 DEF Materializes, Sess
  <2>4. e.revisions[r].ready = d.revisions[r].ready /\ Mem(e, r) = d.revisions[r].members
    BY <1>1, HistoryKept DEF Settles, Mem
  <2>5. Having(d.revisions[r], "WARMING") = {} => NoneWarming(e, r)
    BY <2>4 DEF Having, NoneWarming
  <2>6. QED BY <2>3, <2>5
<1>5. QED BY <1>3, <1>4

(* A member with no stage left becomes READY. *)
Readied(d, r, m) == [d EXCEPT !.revisions[r].ready[m] = "READY"]

LEMMA RereadFacts ==
  ASSUME NEW d, WellFormed(d), NEW r \in DOMAIN d.revisions,
         NEW ready \in [d.revisions[r].members -> Readiness],
         Tells(ready, d.revisions[r].work, DOMAIN d.revisions[r].work \ Dropped(d)),
         NEW v, v = [d.revisions[r] EXCEPT !.ready = ready]
  PROVE  Adapts(d, r, v) /\ v.work = d.revisions[r].work /\ v.snapshot = d.revisions[r].snapshot
<1> DEFINE u == d.revisions[r]
<1>1. /\ u \in Revision /\ Fits(u, SourceBase(d, u.source))
      /\ DOMAIN u.work = u.members \ SourceBase(d, u.source)
  BY RevisionFacts
<1>2. v = Variant(u, ready, u.work, u.reserved, u.used, u.snapshot) BY <1>1 DEF Revision, Variant
<1>3. Suits(u, ready, u.work, u.reserved, u.used, u.snapshot) BY <1>1 DEF Suits, Fits
<1>4. Alters(d, r, ready, u.work, u.reserved, u.used, u.snapshot, v) BY <1>2, <1>3 DEF Alters
<1>5. QED BY <1>4, Change

LEMMA ReadiedFacts ==
  ASSUME NEW d, WellFormed(d), NEW r \in DOMAIN d.revisions,
         NEW m \in DOMAIN d.revisions[r].work, Prepared(d.revisions[r], m),
         NEW e, e = Readied(d, r, m)
  PROVE  /\ WellFormed(e) /\ Evolves(d, e) /\ Around(d, e, r)
         /\ e.revisions[r].work = d.revisions[r].work
         /\ e.revisions[r].snapshot = d.revisions[r].snapshot
<1> DEFINE u == d.revisions[r]
           ready == [u.ready EXCEPT ![m] = "READY"]
<1>1. /\ u \in Revision /\ Fits(u, SourceBase(d, u.source))
      /\ DOMAIN u.work = u.members \ SourceBase(d, u.source)
  BY RevisionFacts
<1>2. ready \in [u.members -> Readiness] BY <1>1 DEF Fits, Readiness
<1>3. ready[m] = "READY" /\ \A n \in DOMAIN u.work \ {m} : ready[n] = u.ready[n]
  BY <1>1 DEF Fits
<1>4. Tells(ready, u.work, DOMAIN u.work \ Dropped(d))
  <2> HIDE DEF ready
  <2> SUFFICES ASSUME NEW n \in DOMAIN u.work \ Dropped(d)
               PROVE  /\ ready[n] = "READY" => \A k \in 1..Stages : u.work[n][k].status = "COMPLETE"
                      /\ ready[n] = "FAILED" <=> \E k \in 1..Stages : u.work[n][k].status = "BLOCKED"
    BY DEF Tells
  <2>1. CASE n = m BY <2>1, <1>3 DEF Prepared
  <2>2. CASE n # m
    <3>1. Agrees(u, n) BY DEF WellFormed, Agreement
    <3>2. QED BY <2>2, <3>1, <1>3 DEF Agrees, Prepared
  <2>3. QED BY <2>1, <2>2
<1>5. PICK v : v = [u EXCEPT !.ready = ready] OBVIOUS
<1>6. e = Patch(d, r, v) BY <1>5 DEF Patch, Readied
<1> HIDE DEF ready
<1>7. Adapts(d, r, v) /\ v.work = u.work /\ v.snapshot = u.snapshot
  BY <1>2, <1>4, <1>5, RereadFacts
<1>8. QED BY <1>6, <1>7, Replaced

LEMMA ReadiedPasses ==
  ASSUME NEW d, WellFormed(d), NEW r \in DOMAIN d.revisions,
         NEW m \in DOMAIN d.revisions[r].work, Prepared(d.revisions[r], m),
         NEW e, e = Readied(d, r, m), NEW S
  PROVE  Passes(d, e, None, S)
<1>1. /\ WellFormed(e) /\ Evolves(d, e) /\ Around(d, e, r)
      /\ e.revisions[r].work = d.revisions[r].work
      /\ e.revisions[r].snapshot = d.revisions[r].snapshot
  BY ReadiedFacts
<1>2. \A i \in DOMAIN d.revisions :
        /\ e.revisions[i].work = d.revisions[i].work
        /\ e.revisions[i].snapshot = d.revisions[i].snapshot
  BY <1>1 DEF Around
<1>3. QED BY <1>1, <1>2 DEF Passes, RowsKept, Around, IsServed

(* Readiness and progress of another revision are copied over those of p. *)
LEMMA CarriedRowFacts ==
  ASSUME NEW row \in Rows, NEW c, c = CarriedRow(row)
  PROVE  /\ c \in Rows /\ c.owner = None /\ c.status # "RUNNING"
         /\ c.status = "COMPLETE" <=> row.status = "COMPLETE"
         /\ c.status = "BLOCKED" <=> row.status = "BLOCKED"
         /\ c.status = "PENDING" <=> row.status = "PENDING"
<1> DEFINE status == IF row.status = "RUNNING" THEN "RETRY" ELSE row.status
<1>1. c = [status |-> status, owner |-> None, until |-> 0, mark |-> row.mark]
  BY DEF Rows, CarriedRow
<1>2. 0 \in 0..(MaxTime + LeaseSeconds) BY DesiredAssumption, PreparationAssumption
<1>3. status \in {"PENDING", "RUNNING", "RETRY", "COMPLETE", "BLOCKED"} /\ row.mark \in Nat
  BY DEF Rows
<1>4. c \in Rows BY <1>1, <1>2, <1>3 DEF Rows
<1>5. c.owner = None /\ c.status = status BY <1>1
<1>6. QED BY <1>4, <1>5

CarriedPlan(w) == [k \in 1..Stages |-> CarriedRow(w[k])]

LEMMA CarriedPlanFacts ==
  ASSUME NEW w \in Plan, InOrder(w), NEW c, c = CarriedPlan(w)
  PROVE  /\ c \in Plan /\ Owned(c) /\ InOrder(c)
         /\ \A k \in 1..Stages : c[k].status = "COMPLETE" <=> w[k].status = "COMPLETE"
         /\ \A k \in 1..Stages : c[k].status = "BLOCKED" <=> w[k].status = "BLOCKED"
<1>1. \A k \in 1..Stages : w[k] \in Rows /\ c[k] = CarriedRow(w[k]) BY DEF Plan, CarriedPlan
<1>2. \A k \in 1..Stages :
        /\ c[k] \in Rows /\ c[k].owner = None /\ c[k].status # "RUNNING"
        /\ c[k].status = "COMPLETE" <=> w[k].status = "COMPLETE"
        /\ c[k].status = "BLOCKED" <=> w[k].status = "BLOCKED"
        /\ c[k].status = "PENDING" <=> w[k].status = "PENDING"
  BY <1>1, CarriedRowFacts
<1>3. c \in Plan
  <2>1. c = [k \in 1..Stages |-> c[k]] BY DEF CarriedPlan
  <2>2. QED BY <1>2, <2>1 DEF Plan
<1>4. Owned(c) BY <1>2 DEF Owned
<1>5. InOrder(c)
  <2>1. \A k \in 1..Stages : \A j \in 1..(k - 1) : j \in 1..Stages BY DesiredAssumption
  <2>2. QED BY <1>2, <2>1 DEF InOrder
<1>6. QED BY <1>2, <1>3, <1>4, <1>5

(* p is recorded from r, with the members of r. *)
Follows(d, r, p) ==
  /\ p \in DOMAIN d.revisions /\ p # r
  /\ d.revisions[p].source = r /\ d.revisions[p].members = d.revisions[r].members

LEMMA CarriedFacts ==
  ASSUME NEW d, WellFormed(d), NEW r \in DOMAIN d.revisions, NEW p, Follows(d, r, p),
         NEW e, e = Carried(d, r, p)
  PROVE  /\ WellFormed(e) /\ Evolves(d, e) /\ Around(d, e, p)
         /\ e.revisions[p].snapshot = d.revisions[p].snapshot
         /\ \A m \in DOMAIN d.revisions[p].work : \A k \in 1..Stages :
              \/ e.revisions[p].work[m][k] = d.revisions[p].work[m][k]
              \/ e.revisions[p].work[m][k].status # "RUNNING"
<1> DEFINE from == d.revisions[r]
           to == d.revisions[p]
           both == DOMAIN to.work \cap DOMAIN from.work
           ready == [m \in to.members |-> IF m \in from.members THEN from.ready[m] ELSE to.ready[m]]
           work == [m \in DOMAIN to.work |-> IF m \in both THEN CarriedPlan(from.work[m]) ELSE to.work[m]]
           used == [m \in DOMAIN to.work |-> IF m \in both THEN from.used[m] ELSE to.used[m]]
<1>1. /\ p \in DOMAIN d.revisions /\ to.source = r /\ to.members = from.members BY DEF Follows
<1>2. /\ from \in Revision /\ Fits(from, SourceBase(d, from.source))
      /\ DOMAIN from.work = from.members \ SourceBase(d, from.source)
      /\ DOMAIN from.ready = from.members
      /\ \A m \in from.members : from.ready[m] \in Readiness
  BY RevisionFacts
<1>3. /\ to \in Revision /\ Fits(to, SourceBase(d, to.source))
      /\ DOMAIN to.work = to.members \ SourceBase(d, to.source)
      /\ DOMAIN to.ready = to.members
      /\ \A m \in to.members : to.ready[m] \in Readiness
  BY <1>1, RevisionFacts
<1>4. r # 0 /\ from.snapshot # {}
  <2>1. r # 0 BY Shape
  <2>2. QED BY <2>1, <1>1 DEF WellFormed, Rooted
<1>5. DOMAIN to.work = to.members \ from.snapshot BY <1>1, <1>3, <1>4 DEF SourceBase
<1>6. \A m \in DOMAIN to.work \ Dropped(d) : m \in both
  BY <1>1, <1>2, <1>4, <1>5, InDropped
<1>7. ready \in [to.members -> Readiness] BY <1>1, <1>2
<1>8. \A m \in DOMAIN from.work : from.work[m] \in Plan /\ InOrder(from.work[m]) /\ from.used[m] \in Nat
  BY <1>2 DEF Fits
<1>9. \A m \in DOMAIN to.work :
        /\ to.work[m] \in Plan /\ Owned(to.work[m]) /\ InOrder(to.work[m]) /\ to.used[m] \in Nat
  BY <1>3 DEF Fits
<1>10. \A m \in both :
         /\ work[m] \in Plan /\ Owned(work[m]) /\ InOrder(work[m])
         /\ \A k \in 1..Stages : work[m][k].status = "COMPLETE" <=> from.work[m][k].status = "COMPLETE"
         /\ \A k \in 1..Stages : work[m][k].status = "BLOCKED" <=> from.work[m][k].status = "BLOCKED"
  <2> SUFFICES ASSUME NEW m \in both
               PROVE  /\ work[m] \in Plan /\ Owned(work[m]) /\ InOrder(work[m])
                      /\ \A k \in 1..Stages : work[m][k].status = "COMPLETE" <=> from.work[m][k].status = "COMPLETE"
                      /\ \A k \in 1..Stages : work[m][k].status = "BLOCKED" <=> from.work[m][k].status = "BLOCKED"
    BY Zenon
  <2>1. work[m] = CarriedPlan(from.work[m]) OBVIOUS
  <2>2. from.work[m] \in Plan /\ InOrder(from.work[m]) BY <1>8
  <2> HIDE DEF work, from
  <2>3. QED BY <2>1, <2>2, CarriedPlanFacts
<1>11. \A m \in DOMAIN to.work \ both : work[m] = to.work[m] OBVIOUS
<1>23. ASSUME NEW m \in DOMAIN to.work, NEW k \in 1..Stages
       PROVE  work[m][k] = to.work[m][k] \/ work[m][k].status # "RUNNING"
  <2>1. CASE m \in both
    <3>1. work[m] = CarriedPlan(from.work[m]) /\ from.work[m] \in Plan BY <2>1, <1>8
    <3>2. PICK w : w = from.work[m] OBVIOUS
    <3> HIDE DEF work, from
    <3>3. work[m][k] = CarriedRow(w[k]) BY <3>1, <3>2 DEF CarriedPlan
    <3>4. w[k] \in Rows BY <3>1, <3>2 DEF Plan
    <3>5. QED BY <3>3, <3>4, CarriedRowFacts
  <2>2. CASE m \notin both BY <2>2, <1>11
  <2>3. QED BY <2>1, <2>2
<1>12. \A m \in DOMAIN to.work : work[m] \in Plan /\ Owned(work[m]) /\ InOrder(work[m])
  <2> HIDE DEF work, both
  <2>1. QED BY <1>9, <1>10, <1>11
<1>13. work \in [DOMAIN to.work -> Plan]
  <2>1. DOMAIN work = DOMAIN to.work /\ work = [m \in DOMAIN to.work |-> work[m]] OBVIOUS
  <2> HIDE DEF work
  <2>2. QED BY <1>12, <2>1
<1>14. used \in [DOMAIN to.work -> Nat] BY <1>8, <1>9
<1>15. Tells(ready, work, DOMAIN to.work \ Dropped(d))
  <2> SUFFICES ASSUME NEW m \in DOMAIN to.work \ Dropped(d)
               PROVE  /\ ready[m] = "READY" => \A k \in 1..Stages : work[m][k].status = "COMPLETE"
                      /\ ready[m] = "FAILED" <=> \E k \in 1..Stages : work[m][k].status = "BLOCKED"
    BY Zenon DEF Tells
  <2>1. m \in both BY <1>6
  <2>2. Agrees(from, m) BY <2>1 DEF WellFormed, Agreement
  <2>3. ready[m] = from.ready[m] BY <2>1, <1>1, <1>2
  <2> HIDE DEF work, ready, both
  <2>4. QED BY <2>1, <2>2, <2>3, <1>10 DEF Agrees, Prepared
<1>16. Suits(to, ready, work, to.reserved, used, to.snapshot)
  <2>1. to.reserved \in [DOMAIN to.work -> Nat] /\ to.snapshot \subseteq to.members BY <1>3 DEF Fits
  <2> HIDE DEF work, ready, used, to
  <2>2. QED BY <2>1, <1>7, <1>12, <1>13, <1>14 DEF Suits
<1>17. PICK v : v = Variant(to, ready, work, to.reserved, used, to.snapshot) OBVIOUS
<1>18. v = [to EXCEPT !.ready = ready, !.work = work, !.used = used]
  <2> HIDE DEF work, ready, used
  <2>1. QED BY <1>3, <1>17 DEF Revision, Variant
<1>19. e = Patch(d, p, v)
  BY <1>18 DEF Patch, Carried, CarriedPlan
<1> HIDE DEF ready, work, used, both
<1>20. PICK x, y, z : x = ready /\ y = work /\ z = used OBVIOUS
<1>21. Adapts(d, p, v) /\ v.snapshot = to.snapshot /\ v.work = y
  <2>1. Alters(d, p, x, y, to.reserved, z, to.snapshot, v)
    BY <1>15, <1>16, <1>17, <1>20 DEF Alters
  <2>2. QED BY <1>1, <2>1, Change
<1>22. /\ WellFormed(e) /\ Evolves(d, e) /\ Around(d, e, p)
       /\ e.revisions[p].snapshot = to.snapshot /\ e.revisions[p].work = work
  BY <1>1, <1>19, <1>20, <1>21, Replaced
<1>24. QED BY <1>22, <1>23

LEMMA CarriedPasses ==
  ASSUME NEW d, WellFormed(d), NEW r \in DOMAIN d.revisions, NEW p, Follows(d, r, p),
         NEW e, e = Carried(d, r, p), NEW S
  PROVE  Passes(d, e, None, S)
<1>1. /\ WellFormed(e) /\ Evolves(d, e) /\ Around(d, e, p)
      /\ e.revisions[p].snapshot = d.revisions[p].snapshot
      /\ \A m \in DOMAIN d.revisions[p].work : \A k \in 1..Stages :
           \/ e.revisions[p].work[m][k] = d.revisions[p].work[m][k]
           \/ e.revisions[p].work[m][k].status # "RUNNING"
  BY CarriedFacts
<1>2. \A i \in DOMAIN d.revisions : e.revisions[i].snapshot = d.revisions[i].snapshot
  BY <1>1 DEF Around
<1>3. RowsKept(d, e, None)
  <2>1. \A i \in DOMAIN d.revisions \ {p} : e.revisions[i].work = d.revisions[i].work
    BY <1>1 DEF Around
  <2>2. QED BY <1>1, <2>1 DEF RowsKept
<1>4. QED BY <1>1, <1>2, <1>3 DEF Passes, Around, IsServed

(* A revision can be recorded of members an operator may ask for, from a      *)
(* source that has a snapshot.                                                *)
Recordable(d, s, source, members, at) ==
  /\ s \in Nat \ {0} /\ at \in Nat /\ members \in Intents
  /\ source # 0 => source \in DOMAIN d.revisions /\ d.revisions[source].snapshot # {}

LEMMA PendingFacts == Pending \in Rows /\ Pending.status = "PENDING" /\ Pending.owner = None
<1>1. 0 \in 0..(MaxTime + LeaseSeconds) BY DesiredAssumption, PreparationAssumption
<1>2. QED BY <1>1 DEF Pending, Rows

LEMMA NewRevisionFacts ==
  ASSUME NEW d, NEW s, NEW source, NEW members, NEW at, source \in Nat,
         Recordable(d, s, source, members, at),
         NEW v, v = NewRevision(d, s, source, members, at)
  PROVE  /\ v \in Revision /\ Fits(v, SourceBase(d, source))
         /\ v.session = s /\ v.recorded = at /\ v.source = source /\ v.members = members
         /\ v.snapshot = {} /\ \A m \in DOMAIN v.work : Agrees(v, m)
<1> DEFINE base == SourceBase(d, source)
           ready == [m \in members |-> IF m \in base THEN "READY" ELSE "WARMING"]
           work == [m \in members \ base |-> [k \in 1..Stages |-> Pending]]
           zero == [m \in members \ base |-> 0]
<1>1. v = [session |-> s, recorded |-> at, source |-> source, members |-> members,
           snapshot |-> {}, ready |-> ready, work |-> work, reserved |-> zero, used |-> zero]
  BY DEF NewRevision
<1>2. s \in Nat \ {0} /\ at \in Nat /\ members \in Intents /\ members \in SUBSET Members
  BY IntentFacts DEF Recordable
<1>3. [k \in 1..Stages |-> Pending] \in Plan BY PendingFacts DEF Plan
<1>4. /\ ready \in [members -> Readiness] /\ work \in [members \ base -> Plan]
      /\ zero \in [members \ base -> Nat]
  BY <1>3 DEF Readiness
<1>5. ready \in Partial(Readiness) /\ work \in Partial(Plan) /\ zero \in Partial(Nat)
  <2>1. members \ base \in SUBSET Members BY <1>2
  <2> HIDE DEF ready, work, zero, base
  <2>2. QED BY <2>1, <1>2, <1>4, PartialFacts
<1>6. \A m \in members \ base : \A k \in 1..Stages :
        work[m][k].status = "PENDING" /\ work[m][k].owner = None
  BY PendingFacts
<1>7. \A m \in members \ base : Owned(work[m]) /\ InOrder(work[m])
  <2> HIDE DEF work, base
  <2>1. QED BY <1>6 DEF Owned, InOrder
<1>8. \A m \in members \ base : ready[m] = "WARMING" OBVIOUS
<1>9. DOMAIN work = members \ base OBVIOUS
<1> HIDE DEF ready, work, zero, base
<1>10. v \in Revision BY <1>1, <1>2, <1>5 DEF Revision
<1>11. /\ v.session = s /\ v.recorded = at /\ v.source = source /\ v.members = members
       /\ v.snapshot = {} /\ v.ready = ready /\ v.work = work /\ v.reserved = zero /\ v.used = zero
  BY <1>1
<1>12. Fits(v, base) BY <1>2, <1>4, <1>7, <1>11 DEF Fits
<1>13. \A m \in DOMAIN v.work : Agrees(v, m)
  <2> SUFFICES ASSUME NEW m \in members \ base PROVE Agrees(v, m) BY <1>9, <1>11
  <2>1. v.ready[m] = "WARMING" BY <1>8, <1>11
  <2>2. \A k \in 1..Stages : v.work[m][k].status = "PENDING" BY <1>6, <1>11
  <2>3. QED BY <2>1, <2>2 DEF Agrees
<1>14. QED BY <1>10, <1>11, <1>12, <1>13 DEF base

Recording(d, v) == [d EXCEPT !.revisions = Append(@, v)]

(* A revision without a snapshot is added, and nothing else changes. *)
Extends(d, e, v) ==
  /\ e.current = d.current /\ DOMAIN e.revisions = DOMAIN d.revisions \cup {Len(d.revisions) + 1}
  /\ Len(e.revisions) = Len(d.revisions) + 1
  /\ \A i \in DOMAIN d.revisions : e.revisions[i] = d.revisions[i]
  /\ e.revisions[Len(d.revisions) + 1] = v

LEMMA RecordingFacts ==
  ASSUME NEW d, WellFormed(d), NEW v \in Revision, NEW e, e = Recording(d, v)
  PROVE  e \in Desired /\ Extends(d, e, v)
<1>1. /\ d.revisions \in Seq(Revision) /\ d.current \in Nat /\ d = [revisions |-> d.revisions, current |-> d.current]
      /\ DOMAIN d.revisions = 1..Len(d.revisions) /\ Len(d.revisions) \in Nat
  BY Shape DEF Desired
<1> DEFINE q == Append(d.revisions, v)
<1>2. /\ q \in Seq(Revision) /\ Len(q) = Len(d.revisions) + 1 /\ DOMAIN q = 1..(Len(d.revisions) + 1)
      /\ \A i \in DOMAIN d.revisions : q[i] = d.revisions[i]
      /\ q[Len(d.revisions) + 1] = v
  BY <1>1
<1>3. e = [revisions |-> q, current |-> d.current] BY <1>1 DEF Recording
<1>4. 1..(Len(d.revisions) + 1) = 1..Len(d.revisions) \cup {Len(d.revisions) + 1} BY <1>1
<1> HIDE DEF q
<1>5. QED BY <1>1, <1>2, <1>3, <1>4 DEF Desired, Extends

LEMMA ExtendsKeeps ==
  ASSUME NEW d, WellFormed(d), NEW v \in Revision, NEW e \in Desired, Extends(d, e, v),
         v.snapshot = {}, Fits(v, SourceBase(d, v.source)), \A m \in DOMAIN v.work : Agrees(v, m),
         v.source # 0 => v.source \in DOMAIN d.revisions /\ d.revisions[v.source].snapshot # {}
  PROVE  WellFormed(e) /\ Evolves(d, e)
<1> DEFINE n == Len(d.revisions) + 1
<1>1. /\ DOMAIN d.revisions = 1..Len(d.revisions) /\ Len(d.revisions) \in Nat
      /\ d.current \in DOMAIN d.revisions
      /\ d.revisions[d.current].session \in Nat /\ d.revisions[d.current].recorded \in Nat
  BY Shape
<1>2. /\ e.current = d.current /\ DOMAIN e.revisions = DOMAIN d.revisions \cup {n}
      /\ \A i \in DOMAIN d.revisions : e.revisions[i] = d.revisions[i]
      /\ e.revisions[n] = v
  BY DEF Extends
<1>3. n \notin DOMAIN d.revisions BY <1>1
<1>4. Evolves(d, e)
  <2>1. \A i \in DOMAIN d.revisions : Static(d.revisions[i], e.revisions[i]) BY <1>2 DEF Static
  <2>2. e.revisions[e.current] = d.revisions[d.current] BY <1>1, <1>2
  <2>3. Ahead(d.revisions[d.current], e.revisions[e.current]) BY <1>1, <2>2 DEF Ahead
  <2>4. QED BY <1>2, <2>1, <2>3 DEF Evolves
<1>5. SourceBase(e, v.source) = SourceBase(d, v.source) BY <1>2 DEF SourceBase
<1>6. Rooted(e, n) /\ Fits(e.revisions[n], SourceBase(e, e.revisions[n].source))
  <2>1. v.source \in Nat BY DEF Revision
  <2>2. v.source < n BY <2>1, <1>1
  <2>3. v.source # 0 => e.revisions[v.source].snapshot # {} BY <1>2
  <2>4. Rooted(e, n) BY <2>2, <2>3, <1>2 DEF Rooted
  <2>5. QED BY <2>4, <1>2, <1>5
<1>7. ASSUME NEW i \in DOMAIN d.revisions
      PROVE  Rooted(e, i) /\ Fits(e.revisions[i], SourceBase(e, e.revisions[i].source))
  <2>1. Rooted(d, i) /\ Fits(d.revisions[i], SourceBase(d, d.revisions[i].source)) BY DEF WellFormed
  <2>2. e.revisions[i] = d.revisions[i] BY <1>2
  <2>3. SourceBase(e, e.revisions[i].source) = SourceBase(d, d.revisions[i].source)
    BY <1>4, SourceBaseKept
  <2>4. d.revisions[i].source # 0 => d.revisions[i].source \in DOMAIN d.revisions BY Shape
  <2>5. Rooted(e, i) BY <2>1, <2>2, <2>4, <1>2 DEF Rooted
  <2>6. QED BY <2>1, <2>2, <2>3, <2>5
<1>8. Agreement(e)
  <2> SUFFICES ASSUME NEW i \in DOMAIN e.revisions, NEW m \in DOMAIN e.revisions[i].work \ Dropped(e)
               PROVE  Agrees(e.revisions[i], m)
    BY DEF Agreement
  <2>1. m \notin Dropped(d) BY <1>4, DroppedGrows
  <2>2. CASE i = n BY <2>2, <1>2
  <2>3. CASE i \in DOMAIN d.revisions
    <3>1. e.revisions[i] = d.revisions[i] BY <2>3, <1>2
    <3>2. QED BY <2>1, <2>3, <3>1 DEF WellFormed, Agreement
  <2>4. QED BY <2>2, <2>3, <1>2
<1>9. e.current \in DOMAIN e.revisions BY <1>1, <1>2
<1>10. \A i \in DOMAIN e.revisions : Rooted(e, i) /\ Fits(e.revisions[i], SourceBase(e, e.revisions[i].source))
  BY <1>2, <1>6, <1>7
<1>11. QED BY <1>4, <1>8, <1>9, <1>10 DEF WellFormed

(* The pointer to the current revision. *)
Pointing(d, r) == [d EXCEPT !.current = IF Later(d, r, d.current) THEN r ELSE d.current]

LEMMA PointingFacts ==
  ASSUME NEW d, WellFormed(d), NEW r \in DOMAIN d.revisions, NEW e, e = Pointing(d, r)
  PROVE  WellFormed(e) /\ Evolves(d, e) /\ e.revisions = d.revisions
<1> DEFINE c == IF Later(d, r, d.current) THEN r ELSE d.current
<1>1. /\ d.current \in DOMAIN d.revisions /\ d \in Desired
      /\ \A i \in DOMAIN d.revisions : d.revisions[i].session \in Nat /\ d.revisions[i].recorded \in Nat
  BY Shape
<1>2. c \in DOMAIN d.revisions BY <1>1
<1>3. Ahead(d.revisions[d.current], d.revisions[c])
  <2>1. CASE Later(d, r, d.current) BY <2>1, <1>1 DEF Later, Ahead
  <2>2. CASE ~Later(d, r, d.current) BY <2>2, <1>1 DEF Ahead
  <2>3. QED BY <2>1, <2>2
<1> HIDE DEF c
<1>4. DOMAIN d.revisions \subseteq Nat BY Shape
<1>5. e = [revisions |-> d.revisions, current |-> c] /\ c \in Nat
  BY <1>1, <1>2, <1>4 DEF Pointing, c, Desired
<1>6. e \in Desired /\ e.revisions = d.revisions /\ e.current = c BY <1>1, <1>5 DEF Desired
<1>7. Evolves(d, e) BY <1>3, <1>6 DEF Evolves, Static
<1>8. Dropped(e) = Dropped(d) BY <1>6 DEF Dropped, SourceBase
<1>9. Agreement(e) BY <1>6, <1>8 DEF WellFormed, Agreement
<1>10. \A i \in DOMAIN e.revisions : Rooted(e, i) /\ Fits(e.revisions[i], SourceBase(e, e.revisions[i].source))
  BY <1>6 DEF WellFormed, Rooted, SourceBase
<1>11. QED BY <1>2, <1>6, <1>7, <1>9, <1>10 DEF WellFormed

(* r is a revision of these members, and what was recorded is as it was. *)
Records(d, e, r, s, source, members) ==
  /\ r \in DOMAIN e.revisions /\ e.revisions[r].session = s
  /\ e.revisions[r].source = source /\ e.revisions[r].members = members
  /\ \A i \in DOMAIN d.revisions : e.revisions[i] = d.revisions[i]
  /\ \A i \in DOMAIN e.revisions \ DOMAIN d.revisions : e.revisions[i].snapshot = {}

LEMMA RecordedFacts ==
  ASSUME NEW d, WellFormed(d), NEW s, NEW source, NEW members, NEW at, source \in Nat,
         Recordable(d, s, source, members, at),
         NEW n, n = Recorded(d, s, source, members, at)
  PROVE  /\ WellFormed(n.desired) /\ Evolves(d, n.desired)
         /\ Records(d, n.desired, n.revision, s, source, members)
<1> DEFINE same == Same(d, s, source, members)
<1>1. CASE same # {}
  <2> DEFINE r == CHOOSE i \in same : TRUE
  <2>1. r \in same BY <1>1
  <2>2. /\ r \in DOMAIN d.revisions /\ d.revisions[r].session = s
        /\ d.revisions[r].source = source /\ d.revisions[r].members = members
    BY <2>1 DEF Same
  <2>3. n = [revision |-> r, desired |-> Pointing(d, r)] BY <1>1 DEF Recorded, Pointing
  <2> HIDE DEF r
  <2>4. PICK e : e = Pointing(d, r) OBVIOUS
  <2>5. WellFormed(e) /\ Evolves(d, e) /\ e.revisions = d.revisions BY <2>2, <2>4, PointingFacts
  <2>6. Records(d, e, r, s, source, members) BY <2>2, <2>5 DEF Records
  <2>7. n.revision = r /\ n.desired = e BY <2>3, <2>4
  <2>8. QED BY <2>5, <2>6, <2>7
<1>2. CASE same = {}
  <2> DEFINE r == Len(d.revisions) + 1
  <2>1. PICK v : v = NewRevision(d, s, source, members, at) OBVIOUS
  <2>2. /\ v \in Revision /\ Fits(v, SourceBase(d, source))
        /\ v.session = s /\ v.recorded = at /\ v.source = source /\ v.members = members
        /\ v.snapshot = {} /\ \A m \in DOMAIN v.work : Agrees(v, m)
    BY <2>1, NewRevisionFacts
  <2>3. PICK f : f = Recording(d, v) OBVIOUS
  <2>4. f \in Desired /\ Extends(d, f, v) BY <2>2, <2>3, RecordingFacts
  <2>5. WellFormed(f) /\ Evolves(d, f)
    <3>1. source # 0 => source \in DOMAIN d.revisions /\ d.revisions[source].snapshot # {}
      BY DEF Recordable
    <3>2. QED BY <2>2, <2>4, <3>1, ExtendsKeeps
  <2>6. n = [revision |-> r, desired |-> [f EXCEPT !.current = IF Later(f, r, d.current) THEN r ELSE d.current]]
    BY <1>2, <2>1, <2>3 DEF Recorded, Recording
  <2>7. /\ f.current = d.current /\ DOMAIN f.revisions = DOMAIN d.revisions \cup {r}
        /\ \A i \in DOMAIN d.revisions : f.revisions[i] = d.revisions[i]
        /\ f.revisions[r] = v
    BY <2>4 DEF Extends
  <2>8. n = [revision |-> r, desired |-> Pointing(f, r)] BY <2>6, <2>7 DEF Pointing
  <2> HIDE DEF r
  <2>9. PICK e : e = Pointing(f, r) OBVIOUS
  <2>10. r \in DOMAIN f.revisions BY <2>7
  <2>11. WellFormed(e) /\ Evolves(f, e) /\ e.revisions = f.revisions
    BY <2>5, <2>9, <2>10, PointingFacts
  <2>12. Evolves(d, e) BY <2>5, <2>11, EvolvesTransitive
  <2>13. Records(d, e, r, s, source, members) BY <2>2, <2>7, <2>10, <2>11 DEF Records
  <2>14. n.revision = r /\ n.desired = e BY <2>8, <2>9
  <2>15. QED BY <2>11, <2>12, <2>13, <2>14
<1>3. QED BY <1>1, <1>2

(* The current revision is the last of all.                                   *)
Latest(d) == \A i \in DOMAIN d.revisions : AtMost(d, i, d.current)

LEMMA RecordedGrows ==
  ASSUME NEW d, WellFormed(d), Latest(d),
         NEW s, NEW source, NEW members, NEW at, source \in Nat,
         Recordable(d, s, source, members, at),
         NEW n, n = Recorded(d, s, source, members, at), NEW S
  PROVE  /\ Grows(d, n.desired, S, n.revision, s, source, at)
         /\ Mem(n.desired, n.revision) = members
<1>1. /\ WellFormed(n.desired) /\ Evolves(d, n.desired)
      /\ Records(d, n.desired, n.revision, s, source, members)
  BY RecordedFacts
<1> DEFINE same == Same(d, s, source, members)
           e == n.desired
           x == n.revision
<1>2. /\ x \in DOMAIN e.revisions /\ Sess(e, x) = s /\ Src(e, x) = source /\ Mem(e, x) = members
      /\ \A i \in DOMAIN d.revisions : e.revisions[i] = d.revisions[i]
      /\ \A i \in DOMAIN e.revisions \ DOMAIN d.revisions : e.revisions[i].snapshot = {}
  BY <1>1 DEF Records, Sess, Src, Mem
<1>3. RowsKept(d, e, None) BY <1>2 DEF RowsKept
<1>4. \A i \in DOMAIN e.revisions :
        ~(IsServed(e, i) /\ ~(i \in DOMAIN d.revisions /\ IsServed(d, i)))
  BY <1>2 DEF IsServed
<1>5. CASE same # {}
  <2> DEFINE r == CHOOSE i \in same : TRUE
  <2>1. r \in same BY <1>5
  <2>2. r \in DOMAIN d.revisions BY <2>1 DEF Same
  <2>3. ~Later(d, r, d.current) BY <2>2, OrderFacts, HistoryFacts DEF Latest
  <2>4. n = [revision |-> r, desired |-> [d EXCEPT !.current = IF Later(d, r, d.current) THEN r ELSE d.current]]
    BY <1>5 DEF Recorded
  <2> HIDE DEF r
  <2>5. d = [revisions |-> d.revisions, current |-> d.current] BY Shape DEF Desired
  <2>6. e.revisions = d.revisions /\ e.current = d.current BY <2>3, <2>4, <2>5
  <2>7. QED BY <1>1, <1>2, <1>3, <1>4, <2>6 DEF Grows
<1>6. CASE same = {}
  <2>1. PICK y : y = Len(d.revisions) + 1 OBVIOUS
  <2>2. PICK v : v = NewRevision(d, s, source, members, at) OBVIOUS
  <2>3. PICK f : f = Recording(d, v) OBVIOUS
  <2>4. v \in Revision /\ v.recorded = at BY <2>2, NewRevisionFacts
  <2>5. Extends(d, f, v) BY <2>3, <2>4, RecordingFacts
  <2>6. f.current = d.current /\ DOMAIN f.revisions = DOMAIN d.revisions \cup {y} /\ f.revisions[y] = v
    BY <2>1, <2>5 DEF Extends
  <2>7. n = [revision |-> y, desired |-> [f EXCEPT !.current = IF Later(f, y, d.current) THEN y ELSE d.current]]
    BY <1>6, <2>1, <2>2, <2>3 DEF Recorded, Recording
  <2>8. f = [revisions |-> f.revisions, current |-> f.current]
    BY <2>3, <2>4, RecordingFacts DEF Desired
  <2>9. /\ x = y /\ e.revisions = f.revisions
        /\ e.current = IF Later(f, y, d.current) THEN y ELSE d.current
    BY <2>7, <2>8
  <2>10. Later(e, y, d.current) <=> Later(f, y, d.current) BY <2>9 DEF Later
  <2>11. \A i \in DOMAIN d.revisions :
           ~(Sess(d, i) = s /\ Src(d, i) = source /\ Mem(d, i) = members)
    BY <1>6 DEF Same, Sess, Src, Mem
  <2>12. Rec(e, y) = at BY <2>4, <2>6, <2>9 DEF Rec
  <2> HIDE DEF e, x
  <2>13. Adds(d, e, x, s, source, at)
    BY <1>2, <2>1, <2>6, <2>9, <2>10, <2>11, <2>12 DEF Adds
  <2>14. QED BY <1>1, <1>2, <1>3, <1>4, <2>13 DEF Grows, e, x
<1>7. QED BY <1>2, <1>5, <1>6

LEMMA LatestPasses ==
  ASSUME NEW d, NEW e, WellFormed(d), WellFormed(e), NEW q, NEW S, Passes(d, e, q, S), Latest(d)
  PROVE  Latest(e)
<1>1. Evolves(d, e) /\ DOMAIN e.revisions = DOMAIN d.revisions /\ e.current = d.current BY DEF Passes
<1>2. d.current \in DOMAIN d.revisions BY HistoryFacts
<1>3. QED BY <1>1, <1>2, OrderKept DEF Latest

-----------------------------------------------------------------------------
(* Transactions: compositions of the operators.                               *)

Transacts(c, e) == WellFormed(e) /\ Evolves(c, e) /\ MadeOfPrepared(c, e)

LEMMA TransactsNothing == ASSUME NEW c, WellFormed(c) PROVE Transacts(c, c)
<1>1. Evolves(c, c) BY EvolvesReflexive
<1>2. MadeOfPrepared(c, c) BY MadeOfNone
<1>3. QED BY <1>1, <1>2 DEF Transacts

LEMMA TransactsThen ==
  ASSUME NEW c, WellFormed(c), NEW d, Transacts(c, d), NEW e, WellFormed(e), Evolves(d, e),
         \A i \in DOMAIN e.revisions : Allowed(c, d, e, i)
  PROVE  Transacts(c, e)
<1>1. WellFormed(d) /\ Evolves(c, d) /\ MadeOfPrepared(c, d) BY DEF Transacts
<1>2. Evolves(c, e) BY <1>1, EvolvesTransitive
<1>3. MadeOfPrepared(c, e) BY <1>1, MadeComposes
<1>4. QED BY <1>2, <1>3 DEF Transacts

LEMMA TransactsReconciled ==
  ASSUME NEW c, WellFormed(c), NEW d, Transacts(c, d), NEW r \in DOMAIN d.revisions,
         NEW at, NEW partial, NEW fresh, NEW e, e = Reconciled(d, r, at, partial, fresh)
  PROVE  Transacts(c, e) /\ Settles(d, e, r)
<1>1. WellFormed(d) BY DEF Transacts
<1>2. WellFormed(e) /\ Evolves(d, e) /\ Settles(d, e, r) BY <1>1, ReconciledFacts
<1>3. \A i \in DOMAIN e.revisions : Allowed(c, d, e, i) BY <1>1, <1>2, SettlesAllowed
<1>4. QED BY <1>2, <1>3, TransactsThen

LEMMA TransactsRecorded ==
  ASSUME NEW c, WellFormed(c), NEW d, Transacts(c, d),
         NEW s, NEW source, NEW members, NEW at, source \in Nat,
         Recordable(d, s, source, members, at),
         NEW n, n = Recorded(d, s, source, members, at)
  PROVE  Transacts(c, n.desired) /\ Records(d, n.desired, n.revision, s, source, members)
<1>1. WellFormed(d) BY DEF Transacts
<1>2. /\ WellFormed(n.desired) /\ Evolves(d, n.desired)
      /\ Records(d, n.desired, n.revision, s, source, members)
  BY <1>1, RecordedFacts
<1>3. \A i \in DOMAIN n.desired.revisions : Allowed(c, d, n.desired, i)
  BY <1>2 DEF Records, Allowed
<1>4. QED BY <1>1, <1>2, <1>3, TransactsThen

LEMMA PromotedFacts ==
  ASSUME NEW d, WellFormed(d), NEW r \in DOMAIN d.revisions, NEW m \in DOMAIN d.revisions[r].work,
         Prepared(d.revisions[r], m), NEW checked, NEW at \in Nat, NEW fresh,
         NEW e, e = Promoted(d, r, m, checked, at, fresh)
  PROVE  Transacts(d, e)
<1> DEFINE s == d.revisions[r].session
           members == d.revisions[r].members
<1>1. PICK active : active = IF checked >= Activation(s)
                             THEN Reconciled(d, r, Activation(s), TRUE, fresh) ELSE d
  OBVIOUS
<1>2. Transacts(d, d) BY TransactsNothing
<1>3. /\ Transacts(d, active) /\ r \in DOMAIN active.revisions
      /\ active.revisions[r].work = d.revisions[r].work
      /\ DOMAIN active.revisions = DOMAIN d.revisions
      /\ \A i \in DOMAIN d.revisions \ {r} : active.revisions[i] = d.revisions[i]
  <2>1. CASE checked >= Activation(s)
    <3>1. active = Reconciled(d, r, Activation(s), TRUE, fresh) BY <1>1, <2>1
    <3>2. Transacts(d, active) /\ Settles(d, active, r) BY <1>2, <3>1, TransactsReconciled
    <3>3. QED BY <3>2 DEF Settles, Around
  <2>2. CASE ~(checked >= Activation(s)) BY <1>1, <1>2, <2>2
  <2>3. QED BY <2>1, <2>2
<1>4. PICK ready : ready = Readied(active, r, m) OBVIOUS
<1>5. WellFormed(active) BY <1>3 DEF Transacts
<1>6. /\ WellFormed(ready) /\ Evolves(active, ready) /\ Around(active, ready, r)
      /\ ready.revisions[r].work = active.revisions[r].work
      /\ ready.revisions[r].snapshot = active.revisions[r].snapshot
  <2>1. m \in DOMAIN active.revisions[r].work /\ Prepared(active.revisions[r], m)
    BY <1>3 DEF Prepared
  <2>2. QED BY <1>3, <1>4, <1>5, <2>1, ReadiedFacts
<1>7. Transacts(d, ready)
  <2>1. \A i \in DOMAIN ready.revisions : Allowed(d, active, ready, i)
    BY <1>6 DEF Allowed, Around
  <2>2. QED BY <1>3, <1>6, <2>1, TransactsThen
<1>8. CASE ready.revisions[r].snapshot = {} \/ m \in ready.revisions[r].snapshot
  <2>1. e = active \/ e = ready BY Zenon, <1>1, <1>4, <1>6, <1>8 DEF Promoted, Readied
  <2>2. QED BY <2>1, <1>3, <1>7
<1>9. CASE ready.revisions[r].snapshot # {} /\ m \notin ready.revisions[r].snapshot
  <2>1. PICK n : n = Recorded(ready, Target(s, checked), r, members, at) OBVIOUS
  <2>2. PICK carried : carried = Carried(n.desired, r, n.revision) OBVIOUS
  <2>3. \/ e = carried
        \/ e = Reconciled(carried, n.revision, checked, TRUE, fresh)
    BY Zenon, <1>1, <1>4, <1>6, <1>9, <2>1, <2>2 DEF Promoted, Readied
  <2>4. /\ s \in Nat \ {0} /\ members \in Intents /\ r \in Nat
    <3>1. Fits(d.revisions[r], SourceBase(d, d.revisions[r].source)) BY DEF WellFormed
    <3>2. s \in Nat /\ r \in Nat BY Shape
    <3>3. QED BY <3>1, <3>2 DEF Fits
  <2>5. Target(s, checked) \in Nat \ {0} BY <2>4 DEF Target
  <2>6. Recordable(ready, Target(s, checked), r, members, at)
    BY <1>3, <1>6, <1>9, <2>4, <2>5 DEF Recordable, Around
  <2>7. Transacts(d, n.desired) /\ Records(ready, n.desired, n.revision, Target(s, checked), r, members)
    <3> HIDE DEF s, members
    <3>1. QED BY <1>7, <2>1, <2>4, <2>6, TransactsRecorded
  <2>8. WellFormed(n.desired) /\ Evolves(d, n.desired) BY <2>7 DEF Transacts
  <2>9. Follows(n.desired, r, n.revision)
    <3>1. /\ n.revision \in DOMAIN n.desired.revisions /\ n.desired.revisions[n.revision].source = r
          /\ n.desired.revisions[n.revision].members = members
      BY <2>7 DEF Records
    <3>2. n.revision # r
      <4>1. n.desired.revisions[n.revision].source < n.revision BY <2>8, <3>1 DEF WellFormed, Rooted
      <4>2. QED BY <4>1, <3>1, <2>4
    <3>3. n.desired.revisions[r].members = members BY <2>8 DEF Evolves, Static
    <3>4. QED BY <3>1, <3>2, <3>3 DEF Follows
  <2>10. r \in DOMAIN n.desired.revisions BY <2>8 DEF Evolves
  <2>11. /\ WellFormed(carried) /\ Evolves(n.desired, carried)
         /\ Around(n.desired, carried, n.revision)
         /\ carried.revisions[n.revision].snapshot = n.desired.revisions[n.revision].snapshot
    BY <2>2, <2>8, <2>9, <2>10, CarriedFacts
  <2>12. \A i \in DOMAIN carried.revisions : Allowed(d, n.desired, carried, i)
    <3> SUFFICES ASSUME NEW i \in DOMAIN carried.revisions PROVE Allowed(d, n.desired, carried, i)
      OBVIOUS
    <3>1. CASE i # n.revision BY <3>1, <2>11 DEF Allowed, Around
    <3>2. CASE i = n.revision
      <4>1. carried.revisions[i].snapshot = n.desired.revisions[i].snapshot BY <2>11, <3>2
      <4>2. CASE i \in DOMAIN ready.revisions
        <5>1. n.desired.revisions[i] = ready.revisions[i] BY <4>2, <2>7 DEF Records
        <5>2. i # r BY <3>2, <2>9 DEF Follows
        <5>3. i \in DOMAIN d.revisions /\ ready.revisions[i] = d.revisions[i]
          BY <4>2, <5>2, <1>3, <1>6 DEF Around
        <5>4. QED BY <4>1, <5>1, <5>3 DEF Allowed
      <4>3. CASE i \notin DOMAIN ready.revisions
        <5>1. i \in DOMAIN n.desired.revisions BY <3>2, <2>9 DEF Follows
        <5>2. n.desired.revisions[i].snapshot = {} BY <4>3, <5>1, <2>7 DEF Records
        <5>3. QED BY <4>1, <5>2 DEF Allowed
      <4>4. QED BY <4>2, <4>3
    <3>3. QED BY <3>1, <3>2
  <2>13. Transacts(d, carried) BY <2>7, <2>11, <2>12, TransactsThen
  <2>14. n.revision \in DOMAIN carried.revisions BY <2>9, <2>11 DEF Follows, Around
  <2>15. CASE e = carried BY <2>13, <2>15
  <2>16. CASE e = Reconciled(carried, n.revision, checked, TRUE, fresh)
    BY <2>13, <2>14, <2>16, TransactsReconciled
  <2>17. QED BY <2>3, <2>15, <2>16
<1>10. QED BY <1>8, <1>9

LEMMA EffectiveFacts ==
  ASSUME NEW d, WellFormed(d), NEW s, NEW i \in Effective(d, s) PROVE i \in DOMAIN d.revisions
  BY Shape DEF Effective

LEMMA EnsuredFacts ==
  ASSUME NEW d, WellFormed(d), NEW i \in DOMAIN d.revisions, NEW s \in Nat \ {0}, NEW at \in Nat,
         NEW fresh, NEW n, n = Ensured(d, i, s, at, fresh)
  PROVE  Transacts(d, n.desired) /\ n.revision \in DOMAIN n.desired.revisions
<1>1. PICK settled : settled = Reconciled(d, i, now, FALSE, fresh) OBVIOUS
<1>2. Transacts(d, d) BY TransactsNothing
<1>3. Transacts(d, settled) /\ Settles(d, settled, i) BY <1>1, <1>2, TransactsReconciled
<1>4. WellFormed(settled) /\ i \in DOMAIN settled.revisions BY <1>3 DEF Transacts, Settles, Around
<1>5. CASE d.revisions[i].session = s BY <1>2, <1>5 DEF Ensured
<1>6. CASE d.revisions[i].session # s /\ settled.revisions[i].snapshot = {}
  BY <1>1, <1>3, <1>4, <1>6 DEF Ensured
<1>7. CASE d.revisions[i].session # s /\ settled.revisions[i].snapshot # {}
  <2> DEFINE members == settled.revisions[i].members
  <2>1. n = Recorded(settled, s, i, members, at) BY <1>1, <1>7 DEF Ensured
  <2>2. Recordable(settled, s, i, members, at)
    <3>1. Fits(settled.revisions[i], SourceBase(settled, settled.revisions[i].source))
      BY <1>4 DEF WellFormed
    <3>2. members \in Intents BY <3>1 DEF Fits
    <3>3. QED BY <3>2, <1>4, <1>7 DEF Recordable
  <2>3. i \in Nat BY Shape
  <2> HIDE DEF members
  <2>4. /\ Transacts(d, n.desired)
        /\ Records(settled, n.desired, n.revision, s, i, members)
    BY <1>3, <2>1, <2>2, <2>3, TransactsRecorded
  <2>5. QED BY <2>4 DEF Records
<1>8. QED BY <1>5, <1>6, <1>7

(* The operator's change, and the two transactions of the controller. *)
LEMMA ApplyTransacts ==
  ASSUME now \in Nat, WellFormed(desired), NEW at \in Nat, Apply(at)
  PROVE  Transacts(desired, desired') /\ WithinBound(desired')
<1>1. PICK c \in Intents, fresh \in BOOLEAN :
        LET next == Recorded(desired, EffectiveNext(now), 0, c, at)
            after == Reconciled(next.desired, next.revision, now, FALSE, fresh)
        IN  WithinBound(after) /\ desired' = after
  BY DEF Apply
<1>2. PICK n : n = Recorded(desired, EffectiveNext(now), 0, c, at) OBVIOUS
<1>3. WithinBound(desired') /\ desired' = Reconciled(n.desired, n.revision, now, FALSE, fresh)
  BY <1>1, <1>2
<1>4. EffectiveNext(now) \in Nat \ {0} BY SessionType DEF EffectiveNext
<1>5. Recordable(desired, EffectiveNext(now), 0, c, at) BY <1>4 DEF Recordable
<1>6. Transacts(desired, desired) BY TransactsNothing
<1>7. /\ Transacts(desired, n.desired)
      /\ Records(desired, n.desired, n.revision, EffectiveNext(now), 0, c)
  BY <1>2, <1>5, <1>6, TransactsRecorded
<1>8. n.revision \in DOMAIN n.desired.revisions BY <1>7 DEF Records
<1>9. Transacts(desired, desired') BY <1>3, <1>7, <1>8, TransactsReconciled
<1>10. QED BY <1>3, <1>9

LEMMA EnsureTransacts ==
  ASSUME now \in Nat, WellFormed(desired), NEW at \in Nat, Ensure(at)
  PROVE  Transacts(desired, desired') /\ WithinBound(desired')
<1>1. PICK e \in Effective(desired, Session(now)), fresh \in BOOLEAN :
        LET after == Ensured(desired, e, Session(now), at, fresh).desired
        IN  WithinBound(after) /\ desired' = after
  BY DEF Ensure
<1>2. PICK n : n = Ensured(desired, e, Session(now), at, fresh) OBVIOUS
<1>3. e \in DOMAIN desired.revisions BY EffectiveFacts
<1>4. Transacts(desired, n.desired) BY <1>2, <1>3, SessionType, EnsuredFacts
<1>5. QED BY <1>1, <1>2, <1>4

LEMMA ActivateTransacts ==
  ASSUME now \in Nat, WellFormed(desired), NEW at \in Nat, Activate(at)
  PROVE  /\ Transacts(desired, desired') /\ WithinBound(desired')
         /\ \E r \in DOMAIN desired'.revisions :
              plans' = plans \cup {[session |-> Session(now), revision |-> r]}
<1>1. PICK e \in Effective(desired, Session(now)), fresh \in BOOLEAN :
        LET ensured == Ensured(desired, e, Session(now), at, fresh)
            after == Reconciled(ensured.desired, ensured.revision, now, TRUE, fresh)
        IN  /\ WithinBound(after) /\ desired' = after
            /\ plans' = plans \cup {[session |-> Session(now), revision |-> ensured.revision]}
  BY DEF Activate
<1>2. PICK n : n = Ensured(desired, e, Session(now), at, fresh) OBVIOUS
<1>3. e \in DOMAIN desired.revisions BY EffectiveFacts
<1>4. Transacts(desired, n.desired) /\ n.revision \in DOMAIN n.desired.revisions
  BY <1>2, <1>3, SessionType, EnsuredFacts
<1>5. /\ desired' = Reconciled(n.desired, n.revision, now, TRUE, fresh) /\ WithinBound(desired')
      /\ plans' = plans \cup {[session |-> Session(now), revision |-> n.revision]}
  BY <1>1, <1>2
<1>6. Transacts(desired, desired') /\ Settles(n.desired, desired', n.revision)
  BY <1>4, <1>5, TransactsReconciled
<1>7. n.revision \in DOMAIN desired'.revisions BY <1>4, <1>6 DEF Settles, Around
<1>8. QED BY <1>5, <1>6, <1>7

-----------------------------------------------------------------------------
(* The work of a member.                                                      *)

Worked(d, r, m, k, row, status, used) ==
  Patch(d, r, [d.revisions[r] EXCEPT !.work[m][k] = row, !.ready[m] = status, !.used[m] = used])

Advances(w, k, row) ==
  /\ k \in 1..Stages /\ row \in Rows
  /\ w[k].status \notin {"COMPLETE", "BLOCKED"}
  /\ row.status = "RUNNING" <=> row.owner # None
  /\ row.status # "PENDING" => \A j \in 1..(k - 1) : w[j].status = "COMPLETE"

(* A row that is neither complete nor blocked is replaced; only a member with *)
(* a row that is blocked has FAILED.                                          *)
Replaces(u, m, k, row, status, used) ==
  /\ m \in DOMAIN u.work /\ used \in Nat
  /\ Advances(u.work[m], k, row)
  /\ \/ status = u.ready[m] /\ row.status # "BLOCKED"
     \/ status = "FAILED" /\ row.status = "BLOCKED"

WithRow(w, k, row) == [w EXCEPT ![k] = row]

LEMMA WorkedPlan ==
  ASSUME NEW w \in Plan, Owned(w), InOrder(w), NEW k, NEW row, Advances(w, k, row),
         NEW x, x = WithRow(w, k, row)
  PROVE  /\ x \in Plan /\ Owned(x) /\ InOrder(x) /\ x[k] = row
         /\ \A j \in 1..Stages \ {k} : x[j] = w[j]
<1>0. /\ k \in 1..Stages /\ row \in Rows
      /\ w[k].status \notin {"COMPLETE", "BLOCKED"}
      /\ row.status = "RUNNING" <=> row.owner # None
      /\ row.status # "PENDING" => \A j \in 1..(k - 1) : w[j].status = "COMPLETE"
  BY DEF Advances
<1>1. x \in Plan /\ x[k] = row /\ \A j \in 1..Stages \ {k} : x[j] = w[j] BY <1>0 DEF Plan, WithRow
<1>2. Owned(x) BY <1>0, <1>1 DEF Owned
<1>3. InOrder(x)
  <2> SUFFICES ASSUME NEW i \in 1..Stages, NEW j \in 1..(i - 1), x[i].status # "PENDING"
               PROVE  x[j].status = "COMPLETE"
    BY DEF InOrder
  <2>1. j \in 1..Stages /\ j < i BY DesiredAssumption
  <2>2. CASE i = k BY <2>1, <2>2, <1>0, <1>1
  <2>3. CASE i # k
    <3>1. w[i].status # "PENDING" BY <2>3, <1>1
    <3>2. w[j].status = "COMPLETE" BY <3>1 DEF InOrder
    <3>3. j # k BY <3>2, <1>0
    <3>4. QED BY <3>2, <3>3, <2>1, <1>1
  <2>4. QED BY <2>2, <2>3
<1>4. QED BY <1>1, <1>2, <1>3

LEMMA WorkedFacts ==
  ASSUME NEW d, WellFormed(d), NEW r \in DOMAIN d.revisions,
         NEW m, NEW k, NEW row, NEW status, NEW used,
         Replaces(d.revisions[r], m, k, row, status, used),
         NEW e, e = Worked(d, r, m, k, row, status, used)
  PROVE  /\ Transacts(d, e) /\ Around(d, e, r)
         /\ e.revisions[r].snapshot = d.revisions[r].snapshot
         /\ e.revisions[r].work[m][k] = row /\ e.revisions[r].ready[m] = status
         /\ \A j \in 1..Stages \ {k} : e.revisions[r].work[m][j] = d.revisions[r].work[m][j]
         /\ \A n \in DOMAIN d.revisions[r].work \ {m} : e.revisions[r].work[n] = d.revisions[r].work[n]
<1> DEFINE u == d.revisions[r]
           plan == [u.work[m] EXCEPT ![k] = row]
           work == [u.work EXCEPT ![m] = plan]
           ready == [u.ready EXCEPT ![m] = status]
           use == [u.used EXCEPT ![m] = used]
<1>1. /\ u \in Revision /\ Fits(u, SourceBase(d, u.source))
      /\ DOMAIN u.work = u.members \ SourceBase(d, u.source)
  BY RevisionFacts
<1>2. /\ m \in DOMAIN u.work /\ k \in 1..Stages /\ used \in Nat
      /\ u.work[m][k].status \notin {"COMPLETE", "BLOCKED"}
      /\ Advances(u.work[m], k, row)
      /\ \/ status = u.ready[m] /\ row.status # "BLOCKED"
         \/ status = "FAILED" /\ row.status = "BLOCKED"
  BY DEF Replaces, Advances
<1>3. /\ u.work \in [DOMAIN u.work -> Plan] /\ u.ready \in [u.members -> Readiness]
      /\ u.reserved \in [DOMAIN u.work -> Nat] /\ u.used \in [DOMAIN u.work -> Nat]
      /\ u.snapshot \subseteq u.members
      /\ \A n \in DOMAIN u.work : Owned(u.work[n]) /\ InOrder(u.work[n])
  BY <1>1 DEF Fits
<1>4. /\ plan \in Plan /\ Owned(plan) /\ InOrder(plan) /\ plan[k] = row
      /\ \A j \in 1..Stages \ {k} : plan[j] = u.work[m][j]
  <2>1. u.work[m] \in Plan /\ Owned(u.work[m]) /\ InOrder(u.work[m]) BY <1>2, <1>3
  <2>2. PICK w : w = u.work[m] OBVIOUS
  <2>3. PICK x : x = WithRow(w, k, row) OBVIOUS
  <2>4. w \in Plan /\ Owned(w) /\ InOrder(w) /\ Advances(w, k, row) BY <2>1, <2>2, <1>2
  <2>5. /\ x \in Plan /\ Owned(x) /\ InOrder(x) /\ x[k] = row
        /\ \A j \in 1..Stages \ {k} : x[j] = w[j]
    BY <2>3, <2>4, WorkedPlan
  <2>6. QED BY <2>2, <2>3, <2>5 DEF WithRow
<1>5. /\ work \in [DOMAIN u.work -> Plan] /\ work[m] = plan
      /\ \A n \in DOMAIN u.work \ {m} : work[n] = u.work[n]
  <2> HIDE DEF plan
  <2>1. QED BY <1>2, <1>3, <1>4
<1>6. /\ ready \in [u.members -> Readiness] /\ ready[m] = status
      /\ \A n \in DOMAIN u.work \ {m} : ready[n] = u.ready[n]
  <2>1. m \in u.members BY <1>1, <1>2
  <2>2. status \in Readiness BY <2>1, <1>2, <1>3 DEF Readiness
  <2>3. QED BY <2>1, <2>2, <1>1, <1>3
<1>7. use \in [DOMAIN u.work -> Nat] BY <1>2, <1>3
<1>8. Tells(ready, work, DOMAIN u.work \ Dropped(d))
  <2> HIDE DEF ready, work, plan
  <2> SUFFICES ASSUME NEW n \in DOMAIN u.work \ Dropped(d)
               PROVE  /\ ready[n] = "READY" => \A j \in 1..Stages : work[n][j].status = "COMPLETE"
                      /\ ready[n] = "FAILED" <=> \E j \in 1..Stages : work[n][j].status = "BLOCKED"
    BY DEF Tells
  <2>1. Agrees(u, n) BY DEF WellFormed, Agreement
  <2>2. CASE n # m BY <2>1, <2>2, <1>5, <1>6 DEF Agrees, Prepared
  <2>3. CASE n = m
    <3>1. u.ready[m] # "READY" BY <2>1, <2>3, <1>2 DEF Agrees, Prepared
    <3>2. work[n] = plan /\ ready[n] = status BY <2>3, <1>5, <1>6
    <3>3. status # "READY" BY <3>1, <1>2
    <3>4. CASE row.status = "BLOCKED"
      <4>1. status = "FAILED" BY <3>4, <1>2
      <4>2. QED BY <4>1, <3>2, <3>4, <1>2, <1>4
    <3>5. CASE row.status # "BLOCKED"
      <4>1. status = u.ready[m] BY <3>5, <1>2
      <4>2. \A j \in 1..Stages : plan[j].status = "BLOCKED" <=> u.work[m][j].status = "BLOCKED"
        BY <3>5, <1>2, <1>4
      <4>3. QED BY <4>1, <4>2, <2>1, <2>3, <3>2, <3>3 DEF Agrees
    <3>6. QED BY <3>4, <3>5
  <2>4. QED BY <2>2, <2>3
<1>9. Suits(u, ready, work, u.reserved, use, u.snapshot)
  <2>1. \A n \in DOMAIN u.work : Owned(work[n]) /\ InOrder(work[n])
    <3> HIDE DEF plan, work
    <3>1. QED BY <1>3, <1>4, <1>5
  <2> HIDE DEF plan, work, ready, use, u
  <2>2. QED BY <2>1, <1>3, <1>5, <1>6, <1>7 DEF Suits
<1>10. PICK v : v = Variant(u, ready, work, u.reserved, use, u.snapshot) OBVIOUS
<1>11. v = [u EXCEPT !.work[m][k] = row, !.ready[m] = status, !.used[m] = used]
  BY <1>1, <1>10 DEF Revision, Variant
<1>12. e = Patch(d, r, v) BY <1>11 DEF Worked
<1>13. PICK w, x, y, z : w = u.reserved /\ x = ready /\ y = work /\ z = use OBVIOUS
<1>14. Adapts(d, r, v) /\ v.work = y /\ v.ready = x /\ v.snapshot = u.snapshot
  <2> HIDE DEF ready, work, use
  <2>1. Alters(d, r, x, y, w, z, u.snapshot, v) BY <1>8, <1>9, <1>10, <1>13 DEF Alters
  <2>2. QED BY <2>1, Change
<1>15. WellFormed(e) /\ Evolves(d, e) /\ Around(d, e, r) /\ e.revisions[r] = v
  BY <1>12, <1>14, Replaced
<1>16. MadeOfPrepared(d, e)
  <2>1. DOMAIN e.revisions = DOMAIN d.revisions BY <1>15 DEF Around
  <2>2. \A i \in DOMAIN d.revisions : e.revisions[i].snapshot = d.revisions[i].snapshot
    BY <1>14, <1>15 DEF Around
  <2>3. QED BY <2>1, <2>2, <1>15, MadeOfNone
<1>17. /\ e.revisions[r].work = work /\ e.revisions[r].ready = ready
       /\ e.revisions[r].snapshot = u.snapshot
  BY <1>13, <1>14, <1>15
<1> HIDE DEF work, plan, ready
<1>18. QED BY <1>4, <1>5, <1>6, <1>15, <1>16, <1>17 DEF Transacts

LEMMA WorkedPasses ==
  ASSUME NEW d, WellFormed(d), NEW r \in DOMAIN d.revisions,
         NEW m, NEW k, NEW row, NEW status, NEW used,
         Replaces(d.revisions[r], m, k, row, status, used),
         NEW e, e = Worked(d, r, m, k, row, status, used), NEW S,
         NEW q, row.status = "RUNNING" => row.owner = q
  PROVE  Passes(d, e, q, S) /\ e.revisions[r].ready[m] = status
<1>1. /\ WellFormed(e) /\ Evolves(d, e) /\ Around(d, e, r)
      /\ e.revisions[r].snapshot = d.revisions[r].snapshot
      /\ e.revisions[r].work[m][k] = row /\ e.revisions[r].ready[m] = status
      /\ \A j \in 1..Stages \ {k} : e.revisions[r].work[m][j] = d.revisions[r].work[m][j]
      /\ \A n \in DOMAIN d.revisions[r].work \ {m} : e.revisions[r].work[n] = d.revisions[r].work[n]
  BY WorkedFacts DEF Transacts
<1>2. \A i \in DOMAIN d.revisions : e.revisions[i].snapshot = d.revisions[i].snapshot
  BY <1>1 DEF Around
<1>3. RowsKept(d, e, q)
  <2> SUFFICES ASSUME NEW i \in DOMAIN d.revisions, NEW n \in DOMAIN d.revisions[i].work,
                      NEW j \in 1..Stages, e.revisions[i].work[n][j].status = "RUNNING",
                      e.revisions[i].work[n][j].owner # q
               PROVE  e.revisions[i].work[n][j] = d.revisions[i].work[n][j]
    BY Zenon DEF RowsKept
  <2>1. CASE i # r
    <3>1. e.revisions[i] = d.revisions[i] BY <2>1, <1>1 DEF Around
    <3>2. QED BY <3>1
  <2>2. CASE i = r /\ n # m
    <3>1. e.revisions[r].work[n] = d.revisions[r].work[n] BY <2>2, <1>1
    <3>2. QED BY <3>1, <2>2
  <2>3. CASE i = r /\ n = m /\ j # k BY <2>3, <1>1
  <2>4. CASE i = r /\ n = m /\ j = k BY <2>4, <1>1
  <2>5. QED BY <2>1, <2>2, <2>3, <2>4
<1>4. QED BY <1>1, <1>2, <1>3 DEF Passes, Around, IsServed

Reserving(d, r, m, reserved) == [d EXCEPT !.revisions[r].reserved[m] = reserved]

LEMMA ReservingFacts ==
  ASSUME NEW d, WellFormed(d), NEW r \in DOMAIN d.revisions, NEW m \in DOMAIN d.revisions[r].work,
         NEW reserved \in Nat, NEW e, e = Reserving(d, r, m, reserved)
  PROVE  /\ Transacts(d, e) /\ Around(d, e, r)
         /\ e.revisions[r].snapshot = d.revisions[r].snapshot
         /\ e.revisions[r].work = d.revisions[r].work
<1> DEFINE u == d.revisions[r]
<1>1. /\ u \in Revision /\ Fits(u, SourceBase(d, u.source))
      /\ DOMAIN u.work = u.members \ SourceBase(d, u.source)
  BY RevisionFacts
<1>2. /\ u.work \in [DOMAIN u.work -> Plan] /\ u.ready \in [u.members -> Readiness]
      /\ u.reserved \in [DOMAIN u.work -> Nat] /\ u.used \in [DOMAIN u.work -> Nat]
      /\ u.snapshot \subseteq u.members
      /\ \A n \in DOMAIN u.work : Owned(u.work[n]) /\ InOrder(u.work[n])
  BY <1>1 DEF Fits
<1>3. PICK x : x = [u.reserved EXCEPT ![m] = reserved] OBVIOUS
<1>4. x \in [DOMAIN u.work -> Nat] BY <1>2, <1>3
<1>5. PICK v : v = Variant(u, u.ready, u.work, x, u.used, u.snapshot) OBVIOUS
<1>6. v = [u EXCEPT !.reserved[m] = reserved] BY <1>1, <1>3, <1>5 DEF Revision, Variant
<1>7. e = Patch(d, r, v) BY <1>6 DEF Patch, Reserving
<1>8. Suits(u, u.ready, u.work, x, u.used, u.snapshot) BY <1>2, <1>4 DEF Suits
<1>9. Tells(u.ready, u.work, DOMAIN u.work \ Dropped(d))
  BY DEF WellFormed, Agreement, Agrees, Prepared, Tells
<1>10. Adapts(d, r, v) /\ v.snapshot = u.snapshot /\ v.work = u.work
  <2>1. Alters(d, r, u.ready, u.work, x, u.used, u.snapshot, v) BY <1>5, <1>8, <1>9 DEF Alters
  <2>2. QED BY <2>1, Change
<1>11. WellFormed(e) /\ Evolves(d, e) /\ Around(d, e, r) /\ e.revisions[r] = v
  BY <1>7, <1>10, Replaced
<1>12. MadeOfPrepared(d, e)
  <2>1. DOMAIN e.revisions = DOMAIN d.revisions BY <1>11 DEF Around
  <2>2. \A i \in DOMAIN d.revisions : e.revisions[i].snapshot = d.revisions[i].snapshot
    BY <1>10, <1>11 DEF Around
  <2>3. QED BY <2>1, <2>2, <1>11, MadeOfNone
<1>13. QED BY <1>10, <1>11, <1>12 DEF Transacts

LEMMA ReservingPasses ==
  ASSUME NEW d, WellFormed(d), NEW r \in DOMAIN d.revisions, NEW m \in DOMAIN d.revisions[r].work,
         NEW reserved \in Nat, NEW e, e = Reserving(d, r, m, reserved), NEW S
  PROVE  Passes(d, e, None, S)
<1>1. /\ Evolves(d, e) /\ Around(d, e, r)
      /\ e.revisions[r].snapshot = d.revisions[r].snapshot
      /\ e.revisions[r].work = d.revisions[r].work
  BY ReservingFacts DEF Transacts
<1>2. \A i \in DOMAIN d.revisions :
        /\ e.revisions[i].work = d.revisions[i].work
        /\ e.revisions[i].snapshot = d.revisions[i].snapshot
  BY <1>1 DEF Around
<1>3. QED BY <1>1, <1>2 DEF Passes, RowsKept, Around, IsServed

LEMMA HoldsKept ==
  ASSUME NEW d, NEW e, WellFormed(d), WellFormed(e), Evolves(d, e), NEW x, Holds(x, d)
  PROVE  Holds(x, e)
<1> DEFINE r == x.revision
<1>1. /\ r \in DOMAIN d.revisions /\ x.member \in DOMAIN d.revisions[r].work
      /\ x.stage \in 1..Stages /\ x.mark \in Nat
  BY DEF Holds
<1>2. r \in DOMAIN e.revisions /\ e.revisions[r].members = d.revisions[r].members
  BY <1>1 DEF Evolves, Static
<1>3. SourceBase(e, e.revisions[r].source) = SourceBase(d, d.revisions[r].source)
  BY <1>1, SourceBaseKept
<1>4. DOMAIN e.revisions[r].work = e.revisions[r].members \ SourceBase(e, e.revisions[r].source)
  BY <1>2, RevisionFacts
<1>5. DOMAIN d.revisions[r].work = d.revisions[r].members \ SourceBase(d, d.revisions[r].source)
  BY <1>1, RevisionFacts
<1>6. QED BY <1>1, <1>2, <1>3, <1>4, <1>5 DEF Holds

(* Readiness and use can stay as they are. *)
RowChanged(d, r, m, k, row) == Patch(d, r, [d.revisions[r] EXCEPT !.work[m][k] = row])
RowUsed(d, r, m, k, row, used) ==
  Patch(d, r, [d.revisions[r] EXCEPT !.work[m][k] = row, !.used[m] = used])

LEMMA WorkedAlone ==
  ASSUME NEW d, WellFormed(d), NEW r \in DOMAIN d.revisions, NEW m \in DOMAIN d.revisions[r].work,
         NEW k, NEW row
  PROVE  /\ \A used, ready : ready = d.revisions[r].ready[m] =>
              Worked(d, r, m, k, row, ready, used) = RowUsed(d, r, m, k, row, used)
         /\ Worked(d, r, m, k, row, d.revisions[r].ready[m], d.revisions[r].used[m])
              = RowChanged(d, r, m, k, row)
<1> DEFINE u == d.revisions[r]
<1>1. /\ u \in Revision /\ u.ready \in [u.members -> Readiness] /\ u.used \in [DOMAIN u.work -> Nat]
  BY RevisionFacts DEF Fits
<1>2. [u.ready EXCEPT ![m] = u.ready[m]] = u.ready BY <1>1
<1>3. [u.used EXCEPT ![m] = u.used[m]] = u.used BY <1>1
<1>4. ASSUME NEW used
      PROVE  [u EXCEPT !.work[m][k] = row, !.ready[m] = u.ready[m], !.used[m] = used]
               = [u EXCEPT !.work[m][k] = row, !.used[m] = used]
  BY <1>1, <1>2 DEF Revision
<1>5. [u EXCEPT !.work[m][k] = row, !.ready[m] = u.ready[m], !.used[m] = u.used[m]]
        = [u EXCEPT !.work[m][k] = row]
  BY <1>1, <1>2, <1>3 DEF Revision
<1>6. QED BY Zenon, <1>4, <1>5 DEF Worked, RowUsed, RowChanged

-----------------------------------------------------------------------------
(* The steps of a process.                                                    *)

LEMMA NumberFacts ==
  /\ LeaseSeconds \in Nat /\ MemberRequests \in Nat /\ MaxClaims \in Nat /\ MaxTime \in Nat
  /\ \A k \in 1..Stages : Slots[k] \in Nat
  BY DesiredAssumption, PreparationAssumption

LEMMA RowType ==
  ASSUME NEW d, WellFormed(d), NEW r \in DOMAIN d.revisions, NEW m \in DOMAIN d.revisions[r].work,
         NEW k \in 1..Stages
  PROVE  /\ d.revisions[r].work[m][k] \in Rows /\ m \in Members
         /\ d.revisions[r].used[m] \in Nat /\ d.revisions[r].reserved[m] \in Nat
         /\ d.revisions[r].work[m][k].status # "PENDING" =>
              \A j \in 1..(k - 1) : d.revisions[r].work[m][j].status = "COMPLETE"
<1> DEFINE u == d.revisions[r]
<1>1. /\ Fits(u, SourceBase(d, u.source)) /\ u.members \subseteq Members
      /\ DOMAIN u.work = u.members \ SourceBase(d, u.source)
      /\ u.work[m] \in Plan
  BY RevisionFacts
<1>2. m \in Members /\ u.work[m][k] \in Rows BY <1>1 DEF Plan
<1>3. InOrder(u.work[m]) /\ u.used[m] \in Nat /\ u.reserved[m] \in Nat BY <1>1 DEF Fits
<1>4. QED BY <1>2, <1>3 DEF InOrder

LEMMA WithinBoundAround ==
  ASSUME NEW d, NEW e, NEW r, WithinBound(d), Around(d, e, r) PROVE WithinBound(e)
  BY DEF WithinBound, Around

LEMMA ItemFacts ==
  ASSUME NEW item \in Items
  PROVE  /\ item[1] \in DOMAIN desired.revisions
         /\ item[2] \in DOMAIN desired.revisions[item[1]].work
         /\ item[3] \in 1..Stages
  BY DEF Items

LEMMA ClaimTransacts ==
  ASSUME now \in 0..MaxTime, WellFormed(desired), WithinBound(desired), claims \in Nat,
         NEW o \in Owners, Claim(o)
  PROVE  /\ Transacts(desired, desired') /\ WithinBound(desired')
         /\ \E x \in Places : /\ proc' = [proc EXCEPT ![o] = x]
                              /\ x.checked = now /\ x.reading = 2 * (claims + 1)
                              /\ Holds(x, desired) /\ x.revision = desired.current
         /\ Passes(desired, desired', o, {})
<1>1. PICK item \in Items :
       /\ Due(item)
       /\ desired' = [desired EXCEPT !.revisions[item[1]].work[item[2]][item[3]] =
            [@ EXCEPT !.status = "RUNNING", !.owner = o, !.until = now + LeaseSeconds]]
       /\ proc' = [proc EXCEPT ![o] =
            [pc |-> "claimed", checked |-> now, reading |-> 2 * claims', revision |-> item[1], member |-> item[2],
             stage |-> item[3], mark |-> Row(item).mark]]
  BY Zenon DEF Claim
<1>2. PICK r, m, k : r = item[1] /\ m = item[2] /\ k = item[3] OBVIOUS
<1>3. r \in DOMAIN desired.revisions /\ m \in DOMAIN desired.revisions[r].work /\ k \in 1..Stages
  BY <1>2, ItemFacts
<1> DEFINE u == desired.revisions[r]
           old == u.work[m][k]
<1>4. /\ old \in Rows /\ m \in Members /\ u.used[m] \in Nat
  BY <1>3, RowType
<1>5. /\ old.status \in {"PENDING", "RETRY", "RUNNING"}
      /\ \A j \in 1..(k - 1) : u.work[m][j].status = "COMPLETE"
  BY Zenon, <1>1, <1>2 DEF Due, Row
<1>6. PICK row : row = [old EXCEPT !.status = "RUNNING", !.owner = o, !.until = now + LeaseSeconds]
  OBVIOUS
<1>7. row \in Rows /\ row.status = "RUNNING" /\ row.owner # None
  <2>1. now + LeaseSeconds \in 0..(MaxTime + LeaseSeconds) BY NumberFacts
  <2>2. o # None BY PreparationAssumption
  <2>3. QED BY <1>4, <1>6, <2>1, <2>2 DEF Rows
<1>8. Replaces(u, m, k, row, u.ready[m], u.used[m])
  <2>1. Advances(u.work[m], k, row) BY <1>3, <1>5, <1>7 DEF Advances
  <2>2. QED BY <2>1, <1>3, <1>4, <1>7 DEF Replaces
<1>9. desired' = Worked(desired, r, m, k, row, u.ready[m], u.used[m])
  <2>1. desired' = RowChanged(desired, r, m, k, row) BY Zenon, <1>1, <1>2, <1>6 DEF RowChanged, Patch
  <2>2. QED BY <2>1, <1>3, WorkedAlone
<1>10. Transacts(desired, desired') /\ Around(desired, desired', r)
  <2> HIDE DEF u
  <2>1. Replaces(desired.revisions[r], m, k, row, u.ready[m], u.used[m]) BY <1>8 DEF u
  <2>2. PICK status, used : status = u.ready[m] /\ used = u.used[m] OBVIOUS
  <2>3. /\ Replaces(desired.revisions[r], m, k, row, status, used)
        /\ desired' = Worked(desired, r, m, k, row, status, used)
    BY <2>1, <2>2, <1>9
  <2>4. QED BY <2>3, <1>3, WorkedFacts
<1>16. Passes(desired, desired', o, {})
  <2> HIDE DEF u
  <2>1. PICK status, used : status = u.ready[m] /\ used = u.used[m] OBVIOUS
  <2>2. /\ Replaces(desired.revisions[r], m, k, row, status, used)
        /\ desired' = Worked(desired, r, m, k, row, status, used)
    BY <2>1, <1>8, <1>9 DEF u
  <2>3. row.owner = o BY <1>4, <1>6 DEF Rows
  <2>4. QED BY <2>2, <2>3, <1>3, WorkedPasses
<1>17. r = desired.current BY Zenon, <1>1, <1>2 DEF Due
<1>11. WithinBound(desired') BY <1>10, WithinBoundAround
<1>12. PICK x : x = [pc |-> "claimed", checked |-> now, reading |-> 2 * (claims + 1), revision |-> r,
                    member |-> m, stage |-> k, mark |-> old.mark]
  OBVIOUS
<1>13. proc' = [proc EXCEPT ![o] = x]
  <2>1. claims' = claims + 1 BY DEF Claim
  <2>2. QED BY Zenon, <2>1, <1>1, <1>2, <1>12 DEF Row
<1>14. /\ x \in Places /\ Holds(x, desired) /\ x.checked = now /\ x.reading = 2 * (claims + 1)
       /\ x.revision = r
  <2>1. r \in Nat /\ k \in Nat /\ old.mark \in Nat /\ now \in Nat
    BY <1>3, <1>4, Shape DEF Rows
  <2>2. 2 * (claims + 1) \in Nat OBVIOUS
  <2>3. QED BY <2>1, <2>2, <1>3, <1>4, <1>12 DEF Places, Holds
<1>15. QED BY <1>10, <1>11, <1>13, <1>14, <1>16, <1>17

(* A claim that is still held comes to rest. *)
LEMMA Held ==
  ASSUME WellFormed(desired), Processes, NEW o \in Owners, proc[o].pc # "off", Verify(o)
  PROVE  LET r == proc[o].revision
             m == proc[o].member
             k == proc[o].stage
             row == desired.revisions[r].work[m][k]
         IN  /\ r \in DOMAIN desired.revisions /\ m \in DOMAIN desired.revisions[r].work
             /\ k \in 1..Stages /\ proc[o].mark \in Nat
             /\ row \in Rows /\ row.status = "RUNNING" /\ desired.revisions[r].used[m] \in Nat
             /\ \A j \in 1..(k - 1) : desired.revisions[r].work[m][j].status = "COMPLETE"
<1>1. Holds(proc[o], desired) BY DEF Processes
<1>2. /\ proc[o].revision \in DOMAIN desired.revisions
      /\ proc[o].member \in DOMAIN desired.revisions[proc[o].revision].work
      /\ proc[o].stage \in 1..Stages /\ proc[o].mark \in Nat
  BY <1>1 DEF Holds
<1>3. Row(ItemOf(o)) = desired.revisions[proc[o].revision].work[proc[o].member][proc[o].stage]
  BY DEF Row, ItemOf
<1>4. PICK r, m, k : r = proc[o].revision /\ m = proc[o].member /\ k = proc[o].stage OBVIOUS
<1>5. r \in DOMAIN desired.revisions /\ m \in DOMAIN desired.revisions[r].work /\ k \in 1..Stages
  BY <1>2, <1>4
<1>6. desired.revisions[r].work[m][k].status = "RUNNING" BY Zenon, <1>3, <1>4 DEF Verify
<1>7. /\ desired.revisions[r].work[m][k] \in Rows /\ desired.revisions[r].used[m] \in Nat
      /\ desired.revisions[r].work[m][k].status # "PENDING" =>
           \A j \in 1..(k - 1) : desired.revisions[r].work[m][j].status = "COMPLETE"
  BY <1>5, RowType
<1>8. QED BY Zenon, <1>2, <1>4, <1>5, <1>6, <1>7

Rests(o, status, mark, requests, e) ==
  /\ proc[o].pc # "off" /\ Verify(o)
  /\ status \in {"PENDING", "RETRY", "COMPLETE"} /\ mark \in Nat /\ requests \in Nat
  /\ e = Rested(o, status, mark, requests)

(* The row of the claim of o. *)
At(o, r, m, k) == r = proc[o].revision /\ m = proc[o].member /\ k = proc[o].stage

LEMMA RestedFacts ==
  ASSUME WellFormed(desired), Processes, NEW o \in Owners, NEW r, NEW m, NEW k, At(o, r, m, k),
         NEW status, NEW mark, NEW requests, NEW e, Rests(o, status, mark, requests, e)
  PROVE  /\ Transacts(desired, e) /\ Around(desired, e, r)
         /\ e.revisions[r].snapshot = desired.revisions[r].snapshot
         /\ e.revisions[r].work[m][k].status = status
         /\ Passes(desired, e, None, {})
         /\ e.revisions[r].ready[m] = desired.revisions[r].ready[m]
<1>0. /\ proc[o].pc # "off" /\ Verify(o)
      /\ status \in {"PENDING", "RETRY", "COMPLETE"} /\ mark \in Nat /\ requests \in Nat
      /\ e = Rested(o, status, mark, requests)
  BY DEF Rests
<1>1. r = proc[o].revision /\ m = proc[o].member /\ k = proc[o].stage BY DEF At
<1> DEFINE u == desired.revisions[r]
<1>2. /\ r \in DOMAIN desired.revisions /\ m \in DOMAIN u.work /\ k \in 1..Stages
      /\ u.work[m][k].status = "RUNNING" /\ u.used[m] \in Nat
      /\ \A j \in 1..(k - 1) : u.work[m][j].status = "COMPLETE"
  BY Zenon, <1>0, <1>1, Held
<1>3. PICK row : row = [status |-> status, owner |-> None, until |-> 0, mark |-> mark] OBVIOUS
<1>4. row \in Rows /\ row.owner = None /\ row.status = status
  <2>1. 0 \in 0..(MaxTime + LeaseSeconds) BY NumberFacts
  <2>2. QED BY <2>1, <1>0, <1>3 DEF Rows
<1>5. PICK used, ready : used = u.used[m] + requests /\ ready = u.ready[m] OBVIOUS
<1>6. Replaces(u, m, k, row, ready, used)
  <2>1. Advances(u.work[m], k, row) BY <1>0, <1>2, <1>4 DEF Advances
  <2>2. used \in Nat BY <1>0, <1>2, <1>5
  <2>3. QED BY <2>1, <2>2, <1>0, <1>2, <1>4, <1>5 DEF Replaces
<1>7. e = RowUsed(desired, r, m, k, row, used)
  <2>1. AtRest(o, status, mark, requests) = [u EXCEPT !.work[m][k] = row, !.used[m] = used]
    BY <1>1, <1>3, <1>5 DEF AtRest, RevisionOf
  <2>2. QED BY Zenon, <2>1, <1>0, <1>1 DEF Rested, RowUsed, Patch
<1>8. e = Worked(desired, r, m, k, row, ready, used)
  <2>1. ready = desired.revisions[r].ready[m] BY <1>5
  <2> HIDE DEF u
  <2>2. r \in DOMAIN desired.revisions /\ m \in DOMAIN desired.revisions[r].work BY <1>2 DEF u
  <2>3. Worked(desired, r, m, k, row, ready, used) = RowUsed(desired, r, m, k, row, used)
    BY <2>1, <2>2, WorkedAlone
  <2>4. QED BY <2>3, <1>7
<1>9. /\ Transacts(desired, e) /\ Around(desired, e, r) /\ e.revisions[r].work[m][k] = row
      /\ e.revisions[r].snapshot = desired.revisions[r].snapshot
  BY <1>2, <1>6, <1>8, WorkedFacts
<1>10. Passes(desired, e, None, {}) /\ e.revisions[r].ready[m] = ready
  BY <1>0, <1>2, <1>4, <1>6, <1>8, WorkedPasses
<1>11. QED BY Zenon, <1>1, <1>4, <1>5, <1>9, <1>10

LEMMA BlockedFacts ==
  ASSUME WellFormed(desired), Processes, NEW o \in Owners, proc[o].pc # "off", Verify(o),
         NEW requests \in Nat, NEW e, e = Blocked(o, requests)
  PROVE  /\ Transacts(desired, e) /\ Around(desired, e, proc[o].revision)
         /\ Passes(desired, e, None, {})
<1>1. PICK r, m, k : r = proc[o].revision /\ m = proc[o].member /\ k = proc[o].stage OBVIOUS
<1> DEFINE u == desired.revisions[r]
<1>2. /\ r \in DOMAIN desired.revisions /\ m \in DOMAIN u.work /\ k \in 1..Stages
      /\ u.work[m][k].status = "RUNNING" /\ u.used[m] \in Nat /\ proc[o].mark \in Nat
      /\ \A j \in 1..(k - 1) : u.work[m][j].status = "COMPLETE"
  BY Zenon, <1>1, Held
<1>3. PICK row : row = [status |-> "BLOCKED", owner |-> None, until |-> 0, mark |-> proc[o].mark]
  OBVIOUS
<1>4. row \in Rows /\ row.owner = None /\ row.status = "BLOCKED"
  <2>1. 0 \in 0..(MaxTime + LeaseSeconds) BY NumberFacts
  <2>2. QED BY <2>1, <1>2, <1>3 DEF Rows
<1>5. PICK used, ready : used = u.used[m] + requests /\ ready = "FAILED" OBVIOUS
<1>6. Replaces(u, m, k, row, ready, used)
  <2>1. Advances(u.work[m], k, row) BY <1>2, <1>4 DEF Advances
  <2>2. used \in Nat BY <1>2, <1>5
  <2>3. QED BY <2>1, <2>2, <1>2, <1>4, <1>5 DEF Replaces
<1>7. PICK v : v = AtRest(o, "BLOCKED", proc[o].mark, requests) BY Zenon
<1>8. v = [u EXCEPT !.work[m][k] = row, !.used[m] = used]
  BY <1>1, <1>3, <1>5, <1>7 DEF AtRest, RevisionOf
<1>9. e = Worked(desired, r, m, k, row, ready, used)
  <2>1. e = Patch(desired, r, [v EXCEPT !.ready[m] = ready])
    BY <1>1, <1>5, <1>7 DEF Blocked, Patch
  <2>2. u \in Revision BY <1>2, Shape
  <2>3. [v EXCEPT !.ready[m] = ready]
          = [u EXCEPT !.work[m][k] = row, !.ready[m] = ready, !.used[m] = used]
    BY <2>2, <1>8 DEF Revision
  <2>4. QED BY <2>1, <2>3 DEF Worked
<1>10. Transacts(desired, e) /\ Around(desired, e, r) BY <1>2, <1>6, <1>9, WorkedFacts
<1>11. Passes(desired, e, None, {}) BY <1>2, <1>4, <1>6, <1>9, WorkedPasses
<1>12. QED BY <1>1, <1>10, <1>11

LEMMA ReserveTransacts ==
  ASSUME WellFormed(desired), WithinBound(desired), Processes, NEW o \in Owners, Reserve(o)
  PROVE  Transacts(desired, desired') /\ WithinBound(desired')
<1>1. PICK r, m, k : r = proc[o].revision /\ m = proc[o].member /\ k = proc[o].stage OBVIOUS
<1>2. Holds(proc[o], desired) BY DEF Processes, Reserve
<1>3. r \in DOMAIN desired.revisions /\ m \in DOMAIN desired.revisions[r].work /\ k \in 1..Stages
  BY <1>1, <1>2 DEF Holds
<1>4. desired.revisions[r].reserved[m] \in Nat /\ Slots[k] \in Nat BY <1>3, RowType, NumberFacts
<1>5. PICK reserved : reserved = desired.revisions[r].reserved[m] + Slots[k] OBVIOUS
<1>6. reserved \in Nat BY <1>4, <1>5
<1>7. desired' = Reserving(desired, r, m, reserved)
  BY Zenon, <1>1, <1>5 DEF Reserve, RevisionOf, Reserving
<1>8. Transacts(desired, desired') /\ Around(desired, desired', r)
  BY <1>3, <1>6, <1>7, ReservingFacts
<1>9. QED BY <1>8, WithinBoundAround

LEMMA BlockTransacts ==
  ASSUME WellFormed(desired), WithinBound(desired), Processes, NEW o \in Owners, Block(o)
  PROVE  Transacts(desired, desired') /\ WithinBound(desired')
<1>1. proc[o].pc # "off" /\ Verify(o) /\ desired' = Blocked(o, 0) BY DEF Block
<1>2. Transacts(desired, desired') /\ Around(desired, desired', proc[o].revision)
  BY <1>1, BlockedFacts
<1>3. QED BY <1>2, WithinBoundAround

LEMMA RetryTransacts ==
  ASSUME WellFormed(desired), WithinBound(desired), Processes, NEW o \in Owners, Retry(o)
  PROVE  Transacts(desired, desired') /\ WithinBound(desired')
<1>1. PICK requests \in 0..Slots[proc[o].stage] :
        \/ desired' = Blocked(o, requests)
        \/ desired' = Rested(o, "RETRY", proc[o].mark, requests)
  BY DEF Retry
<1>2. proc[o].pc # "off" /\ Verify(o) BY DEF Retry
<1>3. requests \in Nat /\ proc[o].mark \in Nat
  <2>1. PICK k : k = proc[o].stage OBVIOUS
  <2>2. k \in 1..Stages /\ proc[o].mark \in Nat BY Zenon, <1>2, <2>1, Held
  <2>3. Slots[k] \in Nat BY <2>2, NumberFacts
  <2>4. QED BY <2>1, <2>2, <2>3
<1>4. Transacts(desired, desired') /\ Around(desired, desired', proc[o].revision)
  <2>1. CASE desired' = Blocked(o, requests) BY Zenon, <2>1, <1>2, <1>3, BlockedFacts
  <2>2. CASE desired' = Rested(o, "RETRY", proc[o].mark, requests)
    <3>1. Rests(o, "RETRY", proc[o].mark, requests, desired') BY <2>2, <1>2, <1>3 DEF Rests
    <3>2. PICK r, m, k : At(o, r, m, k) BY DEF At
    <3>3. Transacts(desired, desired') /\ Around(desired, desired', r) BY <3>1, <3>2, RestedFacts
    <3>4. QED BY <3>2, <3>3 DEF At
  <2>3. QED BY <2>1, <2>2, <1>1
<1>5. QED BY <1>4, WithinBoundAround

(* The memberships that were there before the chunk was committed. *)
LEMMA TransactsAfterRest ==
  ASSUME NEW c, WellFormed(c), NEW d, Transacts(c, d), NEW r, Around(c, d, r),
         r \in DOMAIN c.revisions => d.revisions[r].snapshot = c.revisions[r].snapshot,
         NEW e, Transacts(d, e)
  PROVE  Transacts(c, e)
<1>1. WellFormed(d) /\ Evolves(c, d) /\ WellFormed(e) /\ Evolves(d, e) /\ MadeOfPrepared(d, e)
  BY DEF Transacts
<1>2. Evolves(c, e) BY <1>1, EvolvesTransitive
<1>3. DOMAIN d.revisions = DOMAIN c.revisions
  BY DEF Around
<1>4. \A i \in DOMAIN c.revisions : d.revisions[i].snapshot = c.revisions[i].snapshot
  BY DEF Around
<1>5. MadeOfPrepared(c, e) BY <1>1, <1>3, <1>4 DEF MadeOfPrepared
<1>6. QED BY <1>1, <1>2, <1>5 DEF Transacts

LEMMA CompleteTransacts ==
  ASSUME WellFormed(desired), WithinBound(desired), Processes, NEW o \in Owners, Complete(o)
  PROVE  Transacts(desired, desired') /\ WithinBound(desired')
<1>1. PICK r, m, k : r = proc[o].revision /\ m = proc[o].member /\ k = proc[o].stage OBVIOUS
<1>2. proc[o].pc # "off" /\ Verify(o) BY DEF Complete
<1>3. /\ r \in DOMAIN desired.revisions /\ m \in DOMAIN desired.revisions[r].work /\ k \in 1..Stages
      /\ proc[o].mark \in Nat /\ proc[o].mark + 1 \in Nat /\ Slots[k] \in Nat
  <2>1. /\ r \in DOMAIN desired.revisions /\ m \in DOMAIN desired.revisions[r].work /\ k \in 1..Stages
        /\ proc[o].mark \in Nat
    BY Zenon, <1>1, <1>2, Held
  <2>2. Slots[k] \in Nat BY <2>1, NumberFacts
  <2>3. QED BY <2>1, <2>2
<1>4. PICK status \in {"COMPLETE", "PENDING"} :
        \E rested :
           /\ rested = Rested(o, status, proc[o].mark + 1, Slots[k])
           /\ \/ desired' = rested
              \/ /\ status = "COMPLETE" /\ k = Stages
                 /\ \E fresh \in BOOLEAN :
                      /\ desired' = Promoted(rested, r, m, proc[o].checked, proc[o].reading, fresh)
                      /\ WithinBound(desired')
  BY <1>1 DEF Complete
<1>5. PICK rested :
           /\ rested = Rested(o, status, proc[o].mark + 1, Slots[k])
           /\ \/ desired' = rested
              \/ /\ status = "COMPLETE" /\ k = Stages
                 /\ \E fresh \in BOOLEAN :
                      /\ desired' = Promoted(rested, r, m, proc[o].checked, proc[o].reading, fresh)
                      /\ WithinBound(desired')
  BY <1>4
<1>6. /\ Transacts(desired, rested) /\ Around(desired, rested, r)
      /\ rested.revisions[r].snapshot = desired.revisions[r].snapshot
      /\ rested.revisions[r].work[m][k].status = status
  <2>1. PICK mark, requests : mark = proc[o].mark + 1 /\ requests = Slots[k] OBVIOUS
  <2>2. Rests(o, status, mark, requests, rested) BY <2>1, <1>2, <1>3, <1>5 DEF Rests
  <2>3. At(o, r, m, k) BY <1>1 DEF At
  <2>4. QED BY <2>2, <2>3, RestedFacts
<1>7. CASE desired' = rested BY <1>6, <1>7, WithinBoundAround
<1>8. ASSUME status = "COMPLETE", k = Stages, NEW fresh \in BOOLEAN,
             desired' = Promoted(rested, r, m, proc[o].checked, proc[o].reading, fresh),
             WithinBound(desired')
      PROVE  Transacts(desired, desired') /\ WithinBound(desired')
  <2>1. WellFormed(rested) /\ Evolves(desired, rested) BY <1>6 DEF Transacts
  <2>2. Holds(proc[o], rested) BY <1>2, <2>1, HoldsKept DEF Processes
  <2>3. r \in DOMAIN rested.revisions /\ m \in DOMAIN rested.revisions[r].work
    BY <1>1, <2>2 DEF Holds
  <2>4. Prepared(rested.revisions[r], m)
    <3>1. rested.revisions[r].work[m][Stages].status = "COMPLETE" BY <1>6, <1>8
    <3>2. \A j \in 1..(Stages - 1) : rested.revisions[r].work[m][j].status = "COMPLETE"
      <4>1. Stages \in 1..Stages BY DesiredAssumption
      <4>2. QED BY <2>1, <2>3, <3>1, <4>1, RowType
    <3>3. QED BY <3>1, <3>2, DesiredAssumption DEF Prepared
  <2>5. proc[o].reading \in Nat BY DEF Processes, Places
  <2>6. PICK checked, at : checked = proc[o].checked /\ at = proc[o].reading OBVIOUS
  <2>7. desired' = Promoted(rested, r, m, checked, at, fresh) /\ at \in Nat BY <2>5, <2>6, <1>8
  <2>8. Transacts(rested, desired') BY <2>1, <2>3, <2>4, <2>7, PromotedFacts
  <2>9. Transacts(desired, desired') BY <2>8, <1>6, TransactsAfterRest
  <2>10. QED BY <2>9, <1>8
<1>9. QED BY <1>5, <1>7, <1>8

-----------------------------------------------------------------------------
(* The invariant.                                                             *)

LEMMA OffFacts == Off \in Places /\ Off.pc = "off" /\ Off.checked = 0 /\ Off.reading = 0
  BY DEF Off, Places

(* At the start one revision was recorded, for every member. *)
LEMMA Initially == ASSUME Init PROVE IInv
<1> DEFINE all == UNION Intents
           none == [revisions |-> <<>>]
<1>1. /\ now = 0 /\ plans = {} /\ claims = 0 /\ proc = [o \in Owners |-> Off]
      /\ desired = [revisions |-> <<NewRevision(none, 1, 0, all, 0)>>, current |-> 1]
  BY DEF Init, InitDesired
<1>2. all \in Intents BY DesiredAssumption
<1>3. Recordable(none, 1, 0, all, 0) BY <1>2 DEF Recordable
<1>4. PICK v : v = NewRevision(none, 1, 0, all, 0) OBVIOUS
<1>5. /\ v \in Revision /\ Fits(v, SourceBase(none, 0)) /\ v.source = 0
      /\ v.snapshot = {} /\ \A m \in DOMAIN v.work : Agrees(v, m)
  <2>1. PICK s, source, members, at, d :
          s = 1 /\ source = 0 /\ members = all /\ at = 0 /\ d = none
    OBVIOUS
  <2>2. /\ source \in Nat /\ Recordable(d, s, source, members, at)
        /\ v = NewRevision(d, s, source, members, at)
    BY <2>1, <1>3, <1>4
  <2>3. /\ v \in Revision /\ Fits(v, SourceBase(d, source)) /\ v.source = source
        /\ v.snapshot = {} /\ \A m \in DOMAIN v.work : Agrees(v, m)
    BY <2>2, NewRevisionFacts
  <2>4. QED BY <2>1, <2>3
<1>6. desired = [revisions |-> <<v>>, current |-> 1] BY <1>1, <1>4
<1>7. /\ desired \in Desired /\ DOMAIN desired.revisions = {1} /\ Len(desired.revisions) = 1
      /\ desired.revisions[1] = v /\ desired.current = 1
  BY <1>5, <1>6 DEF Desired
<1>8. WellFormed(desired)
  <2>1. Rooted(desired, 1) BY <1>5, <1>7 DEF Rooted
  <2>2. SourceBase(desired, v.source) = SourceBase(none, 0) BY <1>5 DEF SourceBase
  <2>3. Agreement(desired) BY <1>5, <1>7 DEF Agreement
  <2>4. QED BY <2>1, <2>2, <2>3, <1>5, <1>7 DEF WellFormed
<1>9. WithinBound(desired) BY <1>7, DesiredAssumption DEF WithinBound
<1>10. Processes BY <1>1, OffFacts DEF Processes
<1>11. QED BY <1>1, <1>8, <1>9, <1>10, DesiredAssumption DEF IInv, PlansOK

(* A process goes on to x, and the others are where they were. *)
Moves(o, x) ==
  /\ x \in Places /\ proc' = [proc EXCEPT ![o] = x]
  /\ claims' \in Nat /\ claims' >= claims /\ x.checked <= now /\ x.reading <= 2 * claims'
  /\ x.pc # "off" => Holds(x, desired)

LEMMA ProcessesKept ==
  ASSUME now \in Nat, WellFormed(desired), Processes, Transacts(desired, desired'), now' = now,
         NEW o \in Owners, NEW x, Moves(o, x)
  PROVE  Processes'
<1>0. /\ x \in Places /\ proc' = [proc EXCEPT ![o] = x]
      /\ claims' \in Nat /\ claims' >= claims /\ x.checked <= now /\ x.reading <= 2 * claims'
      /\ x.pc # "off" => Holds(x, desired)
  BY DEF Moves
<1>1. WellFormed(desired') /\ Evolves(desired, desired') BY DEF Transacts
<1>2. /\ proc' \in [Owners -> Places]
      /\ \A p \in Owners : proc'[p] = x \/ proc'[p] = proc[p]
  BY <1>0 DEF Processes
<1>3. ASSUME NEW p \in Owners
      PROVE  /\ proc'[p].checked <= now' /\ proc'[p].reading <= 2 * claims'
             /\ proc'[p].pc # "off" => Holds(proc'[p], desired')
  <2>1. CASE proc'[p] = x
    <3>1. x.checked \in Nat BY <1>0 DEF Places
    <3>2. x.pc # "off" => Holds(x, desired') BY <1>0, <1>1, HoldsKept
    <3>3. QED BY <2>1, <3>1, <3>2, <1>0
  <2>2. CASE proc'[p] = proc[p]
    <3>1. /\ proc[p].checked \in Nat /\ proc[p].reading \in Nat /\ claims \in Nat
          /\ proc[p].checked <= now /\ proc[p].reading <= 2 * claims
          /\ proc[p].pc # "off" => Holds(proc[p], desired)
      BY DEF Processes, Places
    <3>2. proc[p].pc # "off" => Holds(proc[p], desired') BY <1>1, <3>1, HoldsKept
    <3>3. proc[p].reading <= 2 * claims'
      <4>1. \A i, a, b \in Nat : i <= 2 * a /\ b >= a => i <= 2 * b OBVIOUS
      <4>2. QED BY <4>1, <3>1, <1>0
    <3>4. QED BY <2>2, <3>1, <3>2, <3>3
  <2>3. QED BY <2>1, <2>2, <1>2
<1>4. QED BY <1>0, <1>2, <1>3 DEF Processes, Holds

LEMMA ProcessKeeps ==
  ASSUME IInv, NEW o \in Owners, Step(o)
  PROVE  /\ Transacts(desired, desired') /\ WithinBound(desired') /\ Processes'
         /\ now' = now /\ plans' = plans
<1>1. /\ now \in 0..MaxTime /\ WellFormed(desired) /\ WithinBound(desired) /\ Processes
      /\ claims \in Nat
  BY DEF IInv, Processes
<1>2. now \in Nat /\ now \in 0..MaxTime BY <1>1
<1>3. CASE Claim(o)
  <2>1. /\ Transacts(desired, desired') /\ WithinBound(desired')
        /\ now' = now /\ plans' = plans /\ claims' = claims + 1
    BY Zenon, <1>1, <1>3, ClaimTransacts DEF Claim
  <2>2. PICK x \in Places : /\ proc' = [proc EXCEPT ![o] = x]
                            /\ x.checked = now /\ x.reading = 2 * (claims + 1)
                            /\ Holds(x, desired)
    BY <1>1, <1>3, ClaimTransacts
  <2>3. claims' \in Nat /\ claims' >= claims /\ x.checked <= now /\ x.reading <= 2 * claims'
    BY <1>1, <1>2, <2>1, <2>2
  <2>4. Moves(o, x) BY <2>2, <2>3 DEF Moves
  <2>5. Processes' BY <1>1, <1>2, <2>1, <2>4, ProcessesKept
  <2>6. QED BY <2>1, <2>5
<1>4. CASE Reserve(o)
  <2>1. /\ Transacts(desired, desired') /\ WithinBound(desired')
        /\ now' = now /\ plans' = plans /\ claims' = claims
    BY Zenon, <1>1, <1>4, ReserveTransacts DEF Reserve
  <2>2. /\ proc[o] \in Places /\ proc[o].checked <= now /\ proc[o].reading <= 2 * claims
        /\ Holds(proc[o], desired) /\ proc \in [Owners -> Places]
    BY <1>1, <1>4 DEF Processes, Reserve
  <2>3. PICK x : x = [proc[o] EXCEPT !.pc = "fetch"] OBVIOUS
  <2>4. /\ x \in Places /\ x.checked = proc[o].checked /\ x.reading = proc[o].reading
        /\ x.revision = proc[o].revision /\ x.member = proc[o].member
        /\ x.stage = proc[o].stage /\ x.mark = proc[o].mark
    BY <2>2, <2>3 DEF Places
  <2>5. proc' = [proc EXCEPT ![o] = x] BY <1>4, <2>2, <2>3 DEF Reserve
  <2>6. Holds(x, desired) BY <2>2, <2>4 DEF Holds
  <2>7. claims' \in Nat /\ claims' >= claims /\ x.checked <= now /\ x.reading <= 2 * claims'
    BY <1>1, <2>1, <2>2, <2>4
  <2>8. Moves(o, x) BY <2>4, <2>5, <2>6, <2>7 DEF Moves
  <2>9. Processes' BY <1>1, <1>2, <2>1, <2>8, ProcessesKept
  <2>10. QED BY <2>1, <2>9
<1>5. CASE Block(o) \/ Complete(o) \/ Retry(o) \/ Stop(o)
  <2>1. Transacts(desired, desired') /\ WithinBound(desired')
    <3>1. CASE Block(o) BY <3>1, <1>1, BlockTransacts
    <3>2. CASE Complete(o) BY <3>2, <1>1, CompleteTransacts
    <3>3. CASE Retry(o) BY <3>3, <1>1, RetryTransacts
    <3>4. CASE Stop(o)
      <4>1. desired' = desired BY <3>4 DEF Stop
      <4>2. QED BY <4>1, <1>1, TransactsNothing
    <3>5. QED BY <1>5, <3>1, <3>2, <3>3, <3>4
  <2>2. now' = now /\ plans' = plans /\ claims' = claims /\ proc' = [proc EXCEPT ![o] = Off]
    BY <1>5 DEF Block, Complete, Retry, Stop, Leave
  <2>3. Processes'
    <3>1. PICK x : x = Off OBVIOUS
    <3>2. /\ x \in Places /\ proc' = [proc EXCEPT ![o] = x] /\ x.checked <= now
          /\ x.reading <= 2 * claims' /\ x.pc = "off"
      BY <1>1, <1>2, <2>2, <3>1, OffFacts
    <3>3. claims' \in Nat /\ claims' >= claims BY <1>1, <2>2
    <3>4. Moves(o, x) BY <3>2, <3>3 DEF Moves
    <3>5. QED BY <1>1, <1>2, <2>1, <2>2, <3>4, ProcessesKept
  <2>4. QED BY <2>1, <2>2, <2>3
<1>6. QED BY <1>3, <1>4, <1>5 DEF Step

LEMMA InvariantKept == IInv /\ [Next]_vars => IInv'
<1> SUFFICES ASSUME IInv, [Next]_vars PROVE IInv' OBVIOUS
<1>1. /\ now \in 0..MaxTime /\ WellFormed(desired) /\ WithinBound(desired) /\ PlansOK /\ Processes
      /\ now \in Nat /\ claims \in Nat /\ MaxTime \in Nat
  BY DesiredAssumption DEF IInv, Processes
<1>2. Reading \in Nat BY <1>1 DEF Reading
<1>3. CASE UNCHANGED vars
  BY <1>1, <1>3 DEF IInv, vars, PlansOK, Processes
<1>4. CASE Tick
  <2>1. /\ desired' = desired /\ plans' = plans /\ proc' = proc /\ claims' = claims
        /\ now' \in 0..MaxTime /\ now' >= now
    BY <1>1, <1>4 DEF Tick
  <2>2. Processes'
    <3>1. \A o \in Owners : proc[o].checked \in Nat BY <1>1 DEF Processes, Places
    <3>2. QED BY <1>1, <2>1, <3>1 DEF Processes
  <2>3. QED BY <1>1, <2>1, <2>2 DEF IInv, PlansOK
<1>5. ASSUME Transacts(desired, desired'), WithinBound(desired'), now' = now, Processes', PlansOK'
      PROVE  IInv'
  BY <1>1, <1>5 DEF Transacts, IInv
<1>6. ASSUME Transacts(desired, desired'), plans' = plans PROVE PlansOK'
  <2>1. DOMAIN desired.revisions \subseteq DOMAIN desired'.revisions BY <1>6 DEF Transacts, Evolves
  <2>2. QED BY <2>1, <1>1, <1>6 DEF PlansOK
<1>7. ASSUME NEW o \in Owners, Step(o) PROVE IInv'
  BY <1>5, <1>6, <1>7, ProcessKeeps
<1>8. ASSUME Transacts(desired, desired'), now' = now, proc' = proc, claims' = claims PROVE Processes'
  <2>1. WellFormed(desired') /\ Evolves(desired, desired') BY <1>8 DEF Transacts
  <2>2. \A o \in Owners : proc[o].pc # "off" => Holds(proc[o], desired')
    BY <1>1, <2>1, HoldsKept DEF Processes
  <2>3. QED BY <1>1, <1>8, <2>2 DEF Processes
<1>9. CASE Apply(Reading) /\ UNCHANGED <<proc, claims>>
  <2>1. Transacts(desired, desired') /\ WithinBound(desired') BY <1>1, <1>2, <1>9, ApplyTransacts
  <2>2. now' = now /\ plans' = plans /\ proc' = proc /\ claims' = claims BY <1>9 DEF Apply
  <2>3. QED BY <2>1, <2>2, <1>5, <1>6, <1>8
<1>10. CASE Ensure(Reading) /\ UNCHANGED <<proc, claims>>
  <2>1. Transacts(desired, desired') /\ WithinBound(desired') BY <1>1, <1>2, <1>10, EnsureTransacts
  <2>2. now' = now /\ plans' = plans /\ proc' = proc /\ claims' = claims BY <1>10 DEF Ensure
  <2>3. QED BY <2>1, <2>2, <1>5, <1>6, <1>8
<1>11. CASE Activate(Reading) /\ UNCHANGED <<proc, claims>>
  <2>1. /\ Transacts(desired, desired') /\ WithinBound(desired')
        /\ \E r \in DOMAIN desired'.revisions :
             plans' = plans \cup {[session |-> Session(now), revision |-> r]}
    BY <1>1, <1>2, <1>11, ActivateTransacts
  <2>2. now' = now /\ proc' = proc /\ claims' = claims BY <1>11 DEF Activate
  <2>3. PlansOK'
    <3>1. DOMAIN desired.revisions \subseteq DOMAIN desired'.revisions BY <2>1 DEF Transacts, Evolves
    <3>2. Session(now) \in Nat BY <1>1, SessionType
    <3>3. QED BY <2>1, <3>1, <3>2, <1>1 DEF PlansOK
  <2>4. QED BY <2>1, <2>2, <2>3, <1>5, <1>8
<1>12. QED BY <1>3, <1>4, <1>7, <1>9, <1>10, <1>11 DEF Next

LEMMA Invariance == Spec => []IInv
<1>1. Init => IInv BY Initially
<1>2. IInv /\ [Next]_vars => IInv' BY InvariantKept
<1>3. QED BY <1>1, <1>2, PTL DEF Spec

-----------------------------------------------------------------------------
(* The theorems.                                                              *)

\* The variables keep their types; work that runs has an owner, and no other has,
\* in every revision and whatever was carried into it (_verify_running_claim_cursor).
THEOREM TypeCorrect == Spec => []TypeOK
<1>1. IInv => TypeOK
  <2> SUFFICES ASSUME IInv PROVE TypeOK OBVIOUS
  <2>1. /\ now \in 0..MaxTime /\ WellFormed(desired) /\ WithinBound(desired) /\ PlansOK /\ Processes
    BY DEF IInv
  <2>2. ASSUME NEW r \in DOMAIN desired.revisions
        PROVE  LET revision == desired.revisions[r] IN
               /\ revision.session \in Nat \ {0} /\ revision.recorded \in Nat
               /\ revision.source \in 0..(r - 1)
               /\ revision.members \in Intents /\ revision.snapshot \subseteq revision.members
               /\ revision.ready \in [revision.members -> {"WARMING", "READY", "FAILED"}]
               /\ \A m \in DOMAIN revision.work :
                    /\ revision.work[m] \in [1..Stages -> Rows]
                    /\ \A k \in 1..Stages :
                         revision.work[m][k].status = "RUNNING" <=> revision.work[m][k].owner # None
                    /\ revision.reserved[m] \in Nat /\ revision.used[m] \in Nat
    <3> DEFINE u == desired.revisions[r]
    <3>1. /\ Fits(u, SourceBase(desired, u.source)) /\ Rooted(desired, r) BY <2>1 DEF WellFormed
    <3>2. u.session \in Nat /\ u.recorded \in Nat /\ u.source \in Nat /\ r \in Nat BY <2>1, Shape
    <3>3. u.source \in 0..(r - 1) BY <3>1, <3>2 DEF Rooted
    <3>4. \A m \in DOMAIN u.work :
            /\ u.work[m] \in Plan /\ Owned(u.work[m])
            /\ u.reserved[m] \in Nat /\ u.used[m] \in Nat
      BY <3>1 DEF Fits
    <3>5. QED BY <3>1, <3>2, <3>3, <3>4 DEF Fits, Owned, Plan, Readiness
  <2>3. ASSUME NEW o \in Owners
        PROVE  /\ proc[o].pc \in {"off", "claimed", "fetch"}
               /\ proc[o].checked \in 0..now /\ proc[o].reading <= 2 * claims
               /\ proc[o].pc # "off" => ItemOf(o) \in Items
    <3>1. /\ proc[o] \in Places /\ proc[o].checked <= now /\ proc[o].reading <= 2 * claims
          /\ proc[o].pc # "off" => Holds(proc[o], desired)
      BY <2>1 DEF Processes
    <3>2. proc[o].checked \in 0..now BY <2>1, <3>1 DEF Places
    <3>3. ASSUME proc[o].pc # "off" PROVE ItemOf(o) \in Items
      <4>1. PICK r, m, k : r = proc[o].revision /\ m = proc[o].member /\ k = proc[o].stage OBVIOUS
      <4>2. r \in DOMAIN desired.revisions /\ m \in DOMAIN desired.revisions[r].work /\ k \in 1..Stages
        BY <3>1, <3>3, <4>1 DEF Holds
      <4>3. m \in UNION Intents BY <2>1, <4>2, RowType DEF Members
      <4>4. QED BY <4>1, <4>2, <4>3 DEF ItemOf, Items
    <3>4. QED BY <3>1, <3>2, <3>3 DEF Places
  <2>4. desired.current \in DOMAIN desired.revisions /\ Len(desired.revisions) <= MaxRevisions
    BY <2>1 DEF WellFormed, WithinBound
  <2>5. QED BY <2>1, <2>2, <2>3, <2>4 DEF TypeOK, PlansOK
<1>2. QED BY <1>1, Invariance, PTL

\* Readiness and work agree in every revision, also in one they were copied to by
\* separate statements while a process held a claim (promote_prepared_desired_member_cursor).
THEOREM ReadinessFollowsWork == Spec => []ReadinessMatchesWork
<1>1. IInv => ReadinessMatchesWork
  BY DEF IInv, WellFormed, Agreement, Agrees, ReadinessMatchesWork
<1>2. QED BY <1>1, Invariance, PTL

LEMMA Evolution == IInv /\ [Next]_vars => WellFormed(desired) /\ (Transacts(desired, desired') \/ desired' = desired)
<1> SUFFICES ASSUME IInv, [Next]_vars
             PROVE  WellFormed(desired) /\ (Transacts(desired, desired') \/ desired' = desired)
  OBVIOUS
<1>1. WellFormed(desired) /\ now \in Nat /\ claims \in Nat
  BY DesiredAssumption DEF IInv, Processes
<1>2. Reading \in Nat BY <1>1 DEF Reading
<1>3. CASE UNCHANGED vars BY <1>1, <1>3 DEF vars
<1>4. CASE Tick BY <1>1, <1>4 DEF Tick
<1>5. ASSUME NEW o \in Owners, Step(o) PROVE Transacts(desired, desired') BY <1>5, ProcessKeeps
<1>6. CASE Apply(Reading) BY <1>1, <1>2, <1>6, ApplyTransacts
<1>7. CASE Ensure(Reading) BY <1>1, <1>2, <1>7, EnsureTransacts
<1>8. CASE Activate(Reading) BY <1>1, <1>2, <1>8, ActivateTransacts
<1>9. QED BY <1>1, <1>3, <1>4, <1>5, <1>6, <1>7, <1>8 DEF Next

\* No transaction, and no late promotion with an old clock, takes the pointer to an
\* earlier session or behind what was recorded since (_select_current_desired_state_revision_cursor).
THEOREM PointerForward == Spec => CurrentGoesForward
<1>1. IInv /\ [Next]_vars =>
        [LET before == desired.revisions[desired.current]
             after == desired'.revisions[desired'.current]
         IN  \/ after.session > before.session
             \/ after.session = before.session /\ after.recorded >= before.recorded]_desired
  BY Evolution DEF Transacts, Evolves, Ahead
<1>2. QED BY <1>1, Invariance, PTL DEF Spec, CurrentGoesForward

\* The membership of a session that is served does not change, and is made of members
\* of its source or fully prepared ones (reconcile_desired_state_revision_cursor).
THEOREM MembershipKept == Spec => SessionMembershipKept
<1>1. IInv /\ [Next]_vars =>
        [\A r \in DOMAIN desired'.revisions :
           LET after == desired'.revisions[r] IN
           IF r \in DOMAIN desired.revisions /\ desired.revisions[r].snapshot # {}
           THEN after.snapshot = desired.revisions[r].snapshot
           ELSE \A m \in (after.snapshot \cap DOMAIN after.work) \ Dropped(desired') :
                  Prepared(after, m)]_desired
  <2> SUFFICES ASSUME IInv, [Next]_vars, desired' # desired, NEW r \in DOMAIN desired'.revisions
               PROVE  LET after == desired'.revisions[r] IN
                      IF r \in DOMAIN desired.revisions /\ desired.revisions[r].snapshot # {}
                      THEN after.snapshot = desired.revisions[r].snapshot
                      ELSE \A m \in (after.snapshot \cap DOMAIN after.work) \ Dropped(desired') :
                             Prepared(after, m)
    OBVIOUS
  <2>1. Evolves(desired, desired') /\ MadeOfPrepared(desired, desired') BY Evolution DEF Transacts
  <2>2. QED BY <2>1 DEF Evolves, Static, MadeOfPrepared
<1>2. QED BY <1>1, Invariance, PTL DEF Spec, SessionMembershipKept

-----------------------------------------------------------------------------
(* What the history of the revisions always is.  P has the processes, c the   *)
(* number of their claims.                                                    *)

Lives(P) == {o \in Owners : P[o].pc # "off"}

(* No two revisions were recorded with the same.                              *)
Keyed(d) ==
  \A i, j \in DOMAIN d.revisions :
    Sess(d, i) = Sess(d, j) /\ Src(d, i) = Src(d, j) /\ Mem(d, i) = Mem(d, j) => i = j

(* A promotion is made from what was the last revision when it was claimed.   *)
PromotedFrom(d) ==
  \A i \in DOMAIN d.revisions :
    IsPromotion(d, i) =>
      Src(d, i) \in Leaders(d) /\ Sess(d, i) \in {Sess(d, Src(d, i)), Sess(d, Src(d, i)) + 1}

(* The members are carried forward from an earlier session: from the last     *)
(* revision of all, or else from the last that has a snapshot.                *)
ForwardedFrom(d) ==
  \A i \in DOMAIN d.revisions :
    IsForwarded(d, i) =>
      /\ Sess(d, Src(d, i)) < Sess(d, i)
      /\ i \in Leaders(d) => /\ Src(d, i) \in Leaders(d)
                             /\ \A j \in DOMAIN d.revisions : j < i => AtMost(d, j, Src(d, i))
      /\ \A j \in DOMAIN d.revisions :
           j < i /\ IsForwarded(d, j) /\ Sess(d, j) = Sess(d, i) => AtMost(d, Src(d, j), Src(d, i))

(* But for promotions, the clocks go up with the revisions.                   *)
Numbering(d) ==
  \A i, j \in DOMAIN d.revisions : i < j /\ ~IsPromotion(d, j) => Rec(d, i) <= Rec(d, j)

Clocks(d, P, c) ==
  /\ \A i \in DOMAIN d.revisions : Rec(d, i) <= 2 * c + 1
  /\ \A o \in Lives(P) :
       /\ P[o].reading \in Nat /\ Even(P[o].reading) /\ P[o].reading <= 2 * c
       /\ P[o].revision \in Leaders(d)

(* y was read as the last revision at t: by a claim, for a promotion, or to   *)
(* carry its members forward.                                                 *)
Carrier(d, i) == IsPromotion(d, i) \/ (IsForwarded(d, i) /\ i \in Leaders(d))
Drawn(d, P, y, t) ==
  \/ \E o \in Lives(P) : y = P[o].revision /\ t = P[o].reading
  \/ \E i \in DOMAIN d.revisions : Carrier(d, i) /\ y = Src(d, i) /\ t = Rec(d, i)

DrawnInOrder(d, P) ==
  \A y, z \in DOMAIN d.revisions : \A t, u \in Nat :
    Drawn(d, P, y, t) /\ Drawn(d, P, z, u) /\ t < u => AtMost(d, y, z)
DrawnAfter(d, P) ==
  \A y \in DOMAIN d.revisions : \A t \in Nat : \A i \in DOMAIN d.revisions :
    Drawn(d, P, y, t) /\ ~IsPromotion(d, i) /\ Rec(d, i) < t => AtMost(d, i, y)

Ordered(d, P, c) ==
  /\ Latest(d) /\ Sourced(d) /\ Keyed(d) /\ PromotedFrom(d) /\ ForwardedFrom(d)
  /\ Numbering(d) /\ Clocks(d, P, c) /\ DrawnInOrder(d, P) /\ DrawnAfter(d, P)

(* The claims of Q are claims of P.                                           *)
Fewer(P, Q) ==
  \A o \in Lives(Q) :
    /\ o \in Lives(P) /\ P[o].revision = Q[o].revision /\ P[o].reading = Q[o].reading
    /\ P[o].checked = Q[o].checked /\ P[o].member = Q[o].member /\ P[o].stage = Q[o].stage

LEMMA CurrentLeads == ASSUME NEW d, WellFormed(d), Latest(d) PROVE d.current \in Leaders(d)
<1>1. d.current \in DOMAIN d.revisions BY HistoryFacts
<1>2. ASSUME NEW i \in DOMAIN d.revisions, i < d.current PROVE Later(d, d.current, i)
  <2>1. AtMost(d, i, d.current) BY DEF Latest
  <2>2. i # d.current BY <1>1, <1>2, HistoryFacts
  <2>3. QED BY <2>1, <2>2 DEF AtMost
<1>3. QED BY <1>1, <1>2 DEF Leaders

LEMMA OrderedPasses ==
  ASSUME NEW d, NEW e, WellFormed(d), WellFormed(e), NEW q, NEW S, Passes(d, e, q, S),
         NEW P, NEW Q, Fewer(P, Q), NEW c, Ordered(d, P, c)
  PROVE  Ordered(e, Q, c)
<1>1. Evolves(d, e) /\ DOMAIN e.revisions = DOMAIN d.revisions BY DEF Passes
<1>2. \A i \in DOMAIN d.revisions :
        /\ Sess(e, i) = Sess(d, i) /\ Rec(e, i) = Rec(d, i) /\ Src(e, i) = Src(d, i)
        /\ Mem(e, i) = Mem(d, i)
        /\ IsPromotion(e, i) <=> IsPromotion(d, i)
        /\ IsForwarded(e, i) <=> IsForwarded(d, i)
  BY <1>1, HistoryKept
<1>3. \A i, j \in DOMAIN d.revisions : AtMost(e, i, j) <=> AtMost(d, i, j) BY <1>1, OrderKept
<1>4. \A i \in DOMAIN d.revisions : i \in Leaders(e) <=> i \in Leaders(d) BY <1>1, LeadersKept
<1>5. \A i \in DOMAIN d.revisions : Src(d, i) # 0 => Src(d, i) \in DOMAIN d.revisions BY HistoryFacts
<1>6. /\ Latest(d) /\ Sourced(d) /\ Keyed(d) /\ PromotedFrom(d) /\ ForwardedFrom(d)
      /\ Numbering(d) /\ Clocks(d, P, c) /\ DrawnInOrder(d, P) /\ DrawnAfter(d, P)
  BY DEF Ordered
<1>7. Latest(e) BY <1>6, LatestPasses
<1>8. Sourced(e) BY <1>1, <1>2, <1>5, <1>6 DEF Sourced
<1>9. Keyed(e) BY <1>1, <1>2, <1>6 DEF Keyed
<1>10. PromotedFrom(e)
  <2> SUFFICES ASSUME NEW i \in DOMAIN d.revisions, IsPromotion(d, i)
               PROVE  Src(e, i) \in Leaders(e) /\ Sess(e, i) \in {Sess(e, Src(e, i)), Sess(e, Src(e, i)) + 1}
    BY <1>1, <1>2 DEF PromotedFrom
  <2>1. Src(d, i) \in Leaders(d) /\ Sess(d, i) \in {Sess(d, Src(d, i)), Sess(d, Src(d, i)) + 1}
    BY <1>6 DEF PromotedFrom
  <2>2. Src(d, i) \in DOMAIN d.revisions BY <1>5 DEF IsPromotion
  <2>3. QED BY <2>1, <2>2, <1>2, <1>4
<1>11. ForwardedFrom(e)
  <2> SUFFICES ASSUME NEW i \in DOMAIN d.revisions, IsForwarded(d, i)
               PROVE  /\ Sess(e, Src(e, i)) < Sess(e, i)
                      /\ i \in Leaders(e) => /\ Src(e, i) \in Leaders(e)
                                             /\ \A j \in DOMAIN e.revisions : j < i => AtMost(e, j, Src(e, i))
                      /\ \A j \in DOMAIN e.revisions :
                           j < i /\ IsForwarded(e, j) /\ Sess(e, j) = Sess(e, i) => AtMost(e, Src(e, j), Src(e, i))
    BY <1>1, <1>2 DEF ForwardedFrom
  <2>1. /\ Sess(d, Src(d, i)) < Sess(d, i)
        /\ i \in Leaders(d) => /\ Src(d, i) \in Leaders(d)
                               /\ \A j \in DOMAIN d.revisions : j < i => AtMost(d, j, Src(d, i))
        /\ \A j \in DOMAIN d.revisions :
             j < i /\ IsForwarded(d, j) /\ Sess(d, j) = Sess(d, i) => AtMost(d, Src(d, j), Src(d, i))
    BY <1>6 DEF ForwardedFrom
  <2>2. \A j \in DOMAIN d.revisions : IsForwarded(d, j) => Src(d, j) \in DOMAIN d.revisions
    BY <1>5 DEF IsForwarded
  <2>3. QED BY <2>1, <2>2, <1>1, <1>2, <1>3, <1>4
<1>12. Numbering(e) BY <1>1, <1>2, <1>6 DEF Numbering
<1>13. Clocks(e, Q, c)
  <2>1. ASSUME NEW o \in Lives(Q)
        PROVE  /\ Q[o].reading \in Nat /\ Even(Q[o].reading) /\ Q[o].reading <= 2 * c
               /\ Q[o].revision \in Leaders(e)
    <3>1. o \in Lives(P) /\ P[o].revision = Q[o].revision /\ P[o].reading = Q[o].reading
      BY DEF Fewer
    <3>2. P[o].revision \in DOMAIN d.revisions BY <3>1, <1>6 DEF Clocks, Leaders
    <3>3. QED BY <3>1, <3>2, <1>4, <1>6 DEF Clocks
  <2>2. QED BY <2>1, <1>1, <1>2, <1>6 DEF Clocks
<1>14. ASSUME NEW y \in DOMAIN d.revisions, NEW t \in Nat, Drawn(e, Q, y, t) PROVE Drawn(d, P, y, t)
  <2>1. CASE \E o \in Lives(Q) : y = Q[o].revision /\ t = Q[o].reading
    BY <2>1 DEF Fewer, Drawn
  <2>2. CASE \E i \in DOMAIN e.revisions : Carrier(e, i) /\ y = Src(e, i) /\ t = Rec(e, i)
    <3>1. PICK i \in DOMAIN d.revisions : Carrier(e, i) /\ y = Src(e, i) /\ t = Rec(e, i)
      BY <2>2, <1>1
    <3>2. Carrier(d, i) BY <3>1, <1>2, <1>4 DEF Carrier
    <3>3. QED BY <3>1, <3>2, <1>2 DEF Drawn
  <2>3. QED BY <1>14, <2>1, <2>2 DEF Drawn
<1>15. DrawnInOrder(e, Q) BY <1>1, <1>3, <1>6, <1>14 DEF DrawnInOrder
<1>16. DrawnAfter(e, Q) BY <1>1, <1>2, <1>3, <1>6, <1>14 DEF DrawnAfter
<1>17. QED BY <1>7, <1>8, <1>9, <1>10, <1>11, <1>12, <1>13, <1>15, <1>16 DEF Ordered

(* A process claims work of the current revision.                             *)
Claims(P, Q, o, r, t) ==
  \A q \in Lives(Q) :
    IF q = o THEN Q[q].revision = r /\ Q[q].reading = t
    ELSE /\ q \in Lives(P) /\ P[q].revision = Q[q].revision /\ P[q].reading = Q[q].reading
         /\ P[q].checked = Q[q].checked /\ P[q].member = Q[q].member /\ P[q].stage = Q[q].stage

LEMMA DrawnBounds ==
  ASSUME NEW d, WellFormed(d), NEW P, NEW c \in Nat, Clocks(d, P, c), NEW y, NEW t, Drawn(d, P, y, t)
  PROVE  t \in Nat /\ t <= 2 * c + 1
<1>1. CASE \E o \in Lives(P) : y = P[o].revision /\ t = P[o].reading BY <1>1 DEF Clocks
<1>2. CASE \E i \in DOMAIN d.revisions : Carrier(d, i) /\ y = Src(d, i) /\ t = Rec(d, i)
  BY <1>2, HistoryFacts DEF Clocks
<1>3. QED BY <1>1, <1>2 DEF Drawn

LEMMA OrderedClaims ==
  ASSUME NEW d, WellFormed(d), NEW P, NEW Q, NEW o, NEW c \in Nat, NEW t, t = 2 * (c + 1),
         Ordered(d, P, c), Claims(P, Q, o, d.current, t)
  PROVE  Ordered(d, Q, c + 1)
<1>1. /\ Latest(d) /\ Sourced(d) /\ Keyed(d) /\ PromotedFrom(d) /\ ForwardedFrom(d)
      /\ Numbering(d) /\ Clocks(d, P, c) /\ DrawnInOrder(d, P) /\ DrawnAfter(d, P)
  BY DEF Ordered
<1>2. t \in Nat /\ Even(t) /\ t > 2 * c + 1 /\ t <= 2 * (c + 1)
  <2>1. PICK k \in Nat : k = c + 1 OBVIOUS
  <2>2. t = 2 * k BY <2>1
  <2>3. Even(t) BY <2>2, EvenFacts
  <2>4. QED BY <2>1, <2>2, <2>3
<1>3. Clocks(d, Q, c + 1)
  <2>1. \A i \in DOMAIN d.revisions : Rec(d, i) <= 2 * (c + 1) + 1 BY <1>1, HistoryFacts DEF Clocks
  <2>2. ASSUME NEW q \in Lives(Q)
        PROVE  /\ Q[q].reading \in Nat /\ Even(Q[q].reading) /\ Q[q].reading <= 2 * (c + 1)
               /\ Q[q].revision \in Leaders(d)
    <3>1. CASE q = o
      <4>1. Q[q].revision = d.current /\ Q[q].reading = t BY <3>1 DEF Claims
      <4>2. d.current \in Leaders(d) BY <1>1, CurrentLeads
      <4>3. QED BY <4>1, <4>2, <1>2
    <3>2. CASE q # o
      <4>1. q \in Lives(P) /\ P[q].revision = Q[q].revision /\ P[q].reading = Q[q].reading
        BY <3>2 DEF Claims
      <4>2. /\ P[q].reading \in Nat /\ Even(P[q].reading) /\ P[q].reading <= 2 * c
            /\ P[q].revision \in Leaders(d)
        BY <4>1, <1>1 DEF Clocks
      <4>3. QED BY <4>1, <4>2
    <3>3. QED BY <3>1, <3>2
  <2>3. QED BY <2>1, <2>2 DEF Clocks
<1>4. ASSUME NEW y, NEW u, Drawn(d, Q, y, u)
      PROVE  (y = d.current /\ u = t) \/ (Drawn(d, P, y, u) /\ u < t)
  <2>1. Drawn(d, P, y, u) => u < t
    <3>1. Drawn(d, P, y, u) => u \in Nat /\ u <= 2 * c + 1 BY <1>1, DrawnBounds
    <3>2. QED BY <3>1, <1>2
  <2>2. CASE \E q \in Lives(Q) : y = Q[q].revision /\ u = Q[q].reading
    <3>1. PICK q \in Lives(Q) : y = Q[q].revision /\ u = Q[q].reading BY <2>2
    <3>2. CASE q = o BY <3>1, <3>2 DEF Claims
    <3>3. CASE q # o
      <4>1. q \in Lives(P) /\ P[q].revision = y /\ P[q].reading = u BY <3>1, <3>3 DEF Claims
      <4>2. QED BY <4>1, <2>1 DEF Drawn
    <3>4. QED BY <3>2, <3>3
  <2>3. CASE \E i \in DOMAIN d.revisions : Carrier(d, i) /\ y = Src(d, i) /\ u = Rec(d, i)
    BY <2>1, <2>3 DEF Drawn
  <2>4. QED BY <1>4, <2>2, <2>3 DEF Drawn
<1>5. DrawnInOrder(d, Q)
  <2> SUFFICES ASSUME NEW y \in DOMAIN d.revisions, NEW z \in DOMAIN d.revisions,
                      NEW u \in Nat, NEW v \in Nat, Drawn(d, Q, y, u), Drawn(d, Q, z, v), u < v
               PROVE  AtMost(d, y, z)
    BY DEF DrawnInOrder
  <2>1. CASE z = d.current BY <2>1, <1>1 DEF Latest
  <2>2. CASE z # d.current
    <3>1. Drawn(d, P, z, v) /\ v < t BY <2>2, <1>4
    <3>2. Drawn(d, P, y, u) BY <3>1, <1>2, <1>4
    <3>3. QED BY <3>1, <3>2, <1>1 DEF DrawnInOrder
  <2>3. QED BY <2>1, <2>2
<1>6. DrawnAfter(d, Q)
  <2> SUFFICES ASSUME NEW y \in DOMAIN d.revisions, NEW u \in Nat, NEW i \in DOMAIN d.revisions,
                      Drawn(d, Q, y, u), ~IsPromotion(d, i), Rec(d, i) < u
               PROVE  AtMost(d, i, y)
    BY DEF DrawnAfter
  <2>1. CASE y = d.current BY <2>1, <1>1 DEF Latest
  <2>2. CASE y # d.current
    <3>1. Drawn(d, P, y, u) BY <2>2, <1>4
    <3>2. QED BY <3>1, <1>1 DEF DrawnAfter
  <2>3. QED BY <2>1, <2>2
<1>7. QED BY <1>1, <1>3, <1>5, <1>6 DEF Ordered

(* A revision is added.                                                       *)
LEMMA AddsFacts ==
  ASSUME NEW d, NEW e, WellFormed(d), WellFormed(e), Evolves(d, e), Latest(d),
         NEW x, NEW s, NEW y, NEW at, Adds(d, e, x, s, y, at)
  PROVE  /\ x \in DOMAIN e.revisions /\ x \notin DOMAIN d.revisions
         /\ DOMAIN e.revisions = DOMAIN d.revisions \cup {x}
         /\ \A i \in DOMAIN d.revisions : i < x
         /\ Latest(e)
         /\ x \in Leaders(e) <=> Later(e, x, d.current)
         /\ e.current = IF x \in Leaders(e) THEN x ELSE d.current
         /\ Sess(d, d.current) > s => x \notin Leaders(e)
         /\ Sess(d, d.current) < s => x \in Leaders(e)
<1>1. /\ x = Len(d.revisions) + 1 /\ DOMAIN e.revisions = DOMAIN d.revisions \cup {x}
      /\ Sess(e, x) = s /\ e.current = IF Later(e, x, d.current) THEN x ELSE d.current
  BY DEF Adds
<1>2. /\ x \in DOMAIN e.revisions /\ x \notin DOMAIN d.revisions
      /\ \A i \in DOMAIN d.revisions : i < x
  BY <1>1, HistoryFacts
<1>3. d.current \in DOMAIN d.revisions /\ d.current \in DOMAIN e.revisions BY <1>1, HistoryFacts
<1>4. \A i \in DOMAIN d.revisions : AtMost(e, i, d.current) BY <1>3, OrderKept DEF Latest
<1>5. ASSUME Later(e, x, d.current)
      PROVE  \A i \in DOMAIN d.revisions : AtMost(e, i, x)
  <2>1. AtMost(e, d.current, x) BY <1>5 DEF AtMost
  <2>2. QED BY <2>1, <1>1, <1>2, <1>3, <1>4, OrderTransitive
<1>6. Latest(e)
  <2>1. CASE Later(e, x, d.current)
    <3>1. \A i \in DOMAIN e.revisions : AtMost(e, i, x) BY <2>1, <1>1, <1>5 DEF AtMost
    <3>2. QED BY <2>1, <3>1, <1>1 DEF Latest
  <2>2. CASE ~Later(e, x, d.current)
    <3>1. AtMost(e, x, d.current) BY <2>2, <1>2, <1>3, OrderFacts
    <3>2. QED BY <2>2, <3>1, <1>1, <1>4 DEF Latest
  <2>3. QED BY <2>1, <2>2
<1>7. x \in Leaders(e) <=> Later(e, x, d.current)
  <2>1. x \in Leaders(e) => Later(e, x, d.current) BY <1>2, <1>3 DEF Leaders
  <2>2. ASSUME Later(e, x, d.current) PROVE x \in Leaders(e)
    <3>1. ASSUME NEW i \in DOMAIN e.revisions, i < x PROVE Later(e, x, i)
      <4>1. i # x /\ i \in DOMAIN d.revisions BY <3>1, <1>1, HistoryFacts
      <4>2. QED BY <4>1, <2>2, <1>5 DEF AtMost
    <3>2. QED BY <3>1, <1>2 DEF Leaders
  <2>3. QED BY <2>1, <2>2
<1>8. /\ Sess(d, d.current) > s => ~Later(e, x, d.current)
      /\ Sess(d, d.current) < s => Later(e, x, d.current)
  <2>1. Sess(e, d.current) = Sess(d, d.current) BY <1>3, HistoryKept
  <2>2. Sess(e, d.current) \in Nat /\ s \in Nat BY <1>1, <1>2, <1>3, HistoryFacts
  <2>3. QED BY <2>1, <2>2, <1>1, LaterDef
<1>9. QED BY <1>1, <1>2, <1>6, <1>7, <1>8

(* The revision that members are carried forward from.                        *)
LastServed(d, s, y) ==
  /\ IsServed(d, y) /\ Sess(d, y) <= s
  /\ \A j \in DOMAIN d.revisions : IsServed(d, j) /\ Sess(d, j) <= s => AtMost(d, j, y)
Continues(d, s, y) ==
  /\ y \in DOMAIN d.revisions
  /\ IF Sess(d, d.current) <= s THEN y = d.current ELSE LastServed(d, s, y)

LEMMA EffectiveContinues ==
  ASSUME NEW d, WellFormed(d), NEW s \in Nat, NEW i \in Effective(d, s)
  PROVE  Continues(d, s, i) /\ Sess(d, i) <= s
<1>1. d.current \in DOMAIN d.revisions BY HistoryFacts
<1>2. CASE Sess(d, d.current) <= s BY <1>1, <1>2 DEF Effective, Continues, Sess
<1>3. CASE ~(Sess(d, d.current) <= s)
  <2> DEFINE served == {j \in DOMAIN d.revisions : d.revisions[j].session <= s /\ d.revisions[j].snapshot # {}}
  <2>1. i \in served /\ \A j \in served \ {i} : Later(d, i, j) BY <1>3 DEF Effective, Sess
  <2>2. \A j \in DOMAIN d.revisions : IsServed(d, j) /\ Sess(d, j) <= s => AtMost(d, j, i)
    BY <2>1 DEF AtMost, IsServed, Sess
  <2>3. QED BY <2>1, <2>2, <1>3 DEF Continues, LastServed, IsServed, Sess
<1>4. QED BY <1>2, <1>3

(* How a revision is added: for an operator, to carry members forward, or for *)
(* a promotion.                                                               *)
Asked(c, y, at) == y = 0 /\ at = 2 * c + 1
Forwarded(d, c, s, y, at) ==
  /\ at = 2 * c + 1 /\ Continues(d, s, y) /\ Sess(d, y) < s
Promotes(d, P, s, y, at) ==
  /\ \E o \in Lives(P) : y = P[o].revision /\ at = P[o].reading
  /\ s \in {Sess(d, y), Sess(d, y) + 1}
Joins(d, P, c, s, y, at) ==
  Asked(c, y, at) \/ Forwarded(d, c, s, y, at) \/ Promotes(d, P, s, y, at)

LEMMA JoinsFacts ==
  ASSUME NEW d, WellFormed(d), NEW P, NEW c \in Nat, Ordered(d, P, c), NEW s \in Nat, NEW y, NEW at,
         Joins(d, P, c, s, y, at)
  PROVE  /\ at \in Nat /\ at <= 2 * c + 1
         /\ y = 0 <=> Asked(c, y, at)
         /\ y # 0 => y \in DOMAIN d.revisions /\ Sess(d, y) <= s
         /\ Even(at) <=> Promotes(d, P, s, y, at)
         /\ ~Even(at) => at = 2 * c + 1
<1>1. \A i \in DOMAIN d.revisions : i \in Nat /\ i # 0 /\ Sess(d, i) \in Nat BY HistoryFacts
<1>2. ~Even(2 * c + 1) /\ 2 * c + 1 \in Nat BY EvenFacts
<1>3. CASE Asked(c, y, at)
  <2>1. ~Promotes(d, P, s, y, at)
    <3>1. \A o \in Lives(P) : P[o].reading # at BY <1>2, <1>3 DEF Ordered, Clocks, Asked
    <3>2. QED BY <3>1 DEF Promotes
  <2>2. QED BY <2>1, <1>2, <1>3 DEF Asked
<1>4. CASE Forwarded(d, c, s, y, at)
  <2>1. ~Promotes(d, P, s, y, at)
    <3>1. \A o \in Lives(P) : P[o].reading # at BY <1>2, <1>4 DEF Ordered, Clocks, Forwarded
    <3>2. QED BY <3>1 DEF Promotes
  <2>2. y \in DOMAIN d.revisions /\ y # 0 /\ Sess(d, y) <= s BY <1>1, <1>4 DEF Forwarded, Continues
  <2>3. QED BY <2>1, <2>2, <1>2, <1>4 DEF Forwarded, Asked
<1>5. CASE Promotes(d, P, s, y, at)
  <2>1. PICK o \in Lives(P) : y = P[o].revision /\ at = P[o].reading BY <1>5 DEF Promotes
  <2>2. /\ at \in Nat /\ Even(at) /\ at <= 2 * c /\ y \in Leaders(d)
    BY <2>1 DEF Ordered, Clocks
  <2>3. y \in DOMAIN d.revisions BY <2>2 DEF Leaders
  <2>4. y # 0 /\ Sess(d, y) \in Nat BY <2>3, <1>1
  <2>5. Sess(d, y) <= s BY <2>4, <1>5 DEF Promotes
  <2>6. QED BY <2>2, <2>3, <2>4, <2>5, <1>5 DEF Asked
<1>6. QED BY <1>3, <1>4, <1>5 DEF Joins

(* The orders of d hold of e, as far as they are about what d has.            *)
Enlarged(d, e, x) ==
  /\ DOMAIN e.revisions = DOMAIN d.revisions \cup {x} /\ x \notin DOMAIN d.revisions
  /\ \A i \in DOMAIN d.revisions :
       /\ i < x
       /\ Sess(e, i) = Sess(d, i) /\ Rec(e, i) = Rec(d, i) /\ Src(e, i) = Src(d, i)
       /\ Mem(e, i) = Mem(d, i) /\ (IsPromotion(e, i) <=> IsPromotion(d, i))
       /\ (IsForwarded(e, i) <=> IsForwarded(d, i)) /\ (i \in Leaders(e) <=> i \in Leaders(d))
       /\ (Carrier(e, i) <=> Carrier(d, i))
       /\ Src(d, i) # 0 => Src(d, i) \in DOMAIN d.revisions
  /\ \A i, j \in DOMAIN d.revisions : AtMost(e, i, j) <=> AtMost(d, i, j)

LEMMA EnlargedFacts ==
  ASSUME NEW d, NEW e, WellFormed(d), WellFormed(e), Evolves(d, e), Latest(d),
         NEW x, NEW s, NEW y, NEW at, Adds(d, e, x, s, y, at)
  PROVE  Enlarged(d, e, x)
<1>1. /\ x \notin DOMAIN d.revisions /\ DOMAIN e.revisions = DOMAIN d.revisions \cup {x}
      /\ \A i \in DOMAIN d.revisions : i < x
  BY AddsFacts
<1>2. \A i \in DOMAIN d.revisions :
        /\ Sess(e, i) = Sess(d, i) /\ Rec(e, i) = Rec(d, i) /\ Src(e, i) = Src(d, i)
        /\ Mem(e, i) = Mem(d, i)
        /\ IsPromotion(e, i) <=> IsPromotion(d, i)
        /\ IsForwarded(e, i) <=> IsForwarded(d, i)
  BY HistoryKept
<1>3. \A i, j \in DOMAIN d.revisions : AtMost(e, i, j) <=> AtMost(d, i, j) BY OrderKept
<1>4. \A i \in DOMAIN d.revisions : i \in Leaders(e) <=> i \in Leaders(d) BY LeadersKept
<1>5. \A i \in DOMAIN d.revisions : Src(d, i) # 0 => Src(d, i) \in DOMAIN d.revisions BY HistoryFacts
<1>6. \A i \in DOMAIN d.revisions : Carrier(e, i) <=> Carrier(d, i) BY <1>2, <1>4 DEF Carrier
<1>7. QED BY <1>1, <1>2, <1>3, <1>4, <1>5, <1>6 DEF Enlarged

LEMMA SourcedKeyedAdds ==
  ASSUME NEW d, NEW e, WellFormed(d), WellFormed(e), Evolves(d, e), NEW P, NEW c \in Nat, Ordered(d, P, c),
         NEW x, NEW s \in Nat, NEW y, NEW at, Adds(d, e, x, s, y, at), Joins(d, P, c, s, y, at),
         y # 0 => Mem(e, x) = Mem(d, y)
  PROVE  Sourced(e) /\ Keyed(e)
<1>1. Latest(d) /\ Sourced(d) /\ Keyed(d) BY DEF Ordered
<1>2. Enlarged(d, e, x) BY <1>1, EnlargedFacts
<1>3. /\ Sess(e, x) = s /\ Src(e, x) = y /\ x \in DOMAIN e.revisions
      /\ \A i \in DOMAIN d.revisions : ~(Sess(d, i) = s /\ Src(d, i) = y /\ Mem(d, i) = Mem(e, x))
  BY DEF Adds
<1>4. y # 0 => y \in DOMAIN d.revisions /\ Sess(d, y) <= s BY JoinsFacts
<1>5. Sourced(e)
  <2> SUFFICES ASSUME NEW i \in DOMAIN e.revisions, Src(e, i) # 0
               PROVE  Sess(e, Src(e, i)) <= Sess(e, i) /\ Mem(e, Src(e, i)) = Mem(e, i)
    BY DEF Sourced
  <2>1. CASE i = x
    <3>1. y # 0 BY <2>1, <1>3
    <3>2. y \in DOMAIN d.revisions BY <3>1, <1>4
    <3>3. Sess(e, y) = Sess(d, y) /\ Mem(e, y) = Mem(d, y) BY <3>2, <1>2 DEF Enlarged
    <3>4. QED BY <3>1, <3>3, <2>1, <1>3, <1>4
  <2>2. CASE i # x
    <3>1. i \in DOMAIN d.revisions BY <2>2, <1>2 DEF Enlarged
    <3>2. PICK z : z = Src(d, i) OBVIOUS
    <3>3. Src(e, i) = z /\ z \in DOMAIN d.revisions BY <3>1, <3>2, <1>2 DEF Enlarged
    <3>4. Sess(d, z) <= Sess(d, i) /\ Mem(d, z) = Mem(d, i) BY <3>1, <3>2, <3>3, <1>1 DEF Sourced, Enlarged
    <3>5. QED BY <3>1, <3>3, <3>4, <1>2 DEF Enlarged
  <2>3. QED BY <2>1, <2>2
<1>6. Keyed(e)
  <2> SUFFICES ASSUME NEW i \in DOMAIN e.revisions, NEW j \in DOMAIN e.revisions,
                      Sess(e, i) = Sess(e, j), Src(e, i) = Src(e, j), Mem(e, i) = Mem(e, j)
               PROVE  i = j
    BY DEF Keyed
  <2>1. CASE i \in DOMAIN d.revisions /\ j \in DOMAIN d.revisions
    BY <2>1, <1>1, <1>2 DEF Keyed, Enlarged
  <2>2. CASE i = x /\ j \in DOMAIN d.revisions BY <2>2, <1>2, <1>3 DEF Enlarged
  <2>3. CASE j = x /\ i \in DOMAIN d.revisions BY <2>3, <1>2, <1>3 DEF Enlarged
  <2>4. QED BY <2>1, <2>2, <2>3, <1>2 DEF Enlarged
<1>7. QED BY <1>5, <1>6

LEMMA PromotedFromAdds ==
  ASSUME NEW d, NEW e, WellFormed(d), WellFormed(e), Evolves(d, e), NEW P, NEW c \in Nat, Ordered(d, P, c),
         NEW x, NEW s \in Nat, NEW y, NEW at, Adds(d, e, x, s, y, at), Joins(d, P, c, s, y, at)
  PROVE  PromotedFrom(e)
<1>1. Latest(d) /\ PromotedFrom(d) BY DEF Ordered
<1>2. Enlarged(d, e, x) BY <1>1, EnlargedFacts
<1>3. Sess(e, x) = s /\ Src(e, x) = y /\ x \in DOMAIN e.revisions /\ Rec(e, x) = at BY DEF Adds
<1> SUFFICES ASSUME NEW i \in DOMAIN e.revisions, IsPromotion(e, i)
             PROVE  Src(e, i) \in Leaders(e) /\ Sess(e, i) \in {Sess(e, Src(e, i)), Sess(e, Src(e, i)) + 1}
  BY DEF PromotedFrom
<1>4. CASE i = x
  <2>1. Even(at) BY <1>3, <1>4 DEF IsPromotion
  <2>2. Promotes(d, P, s, y, at) BY <2>1, JoinsFacts
  <2>3. y \in Leaders(d) BY <2>2 DEF Promotes, Ordered, Clocks
  <2>4. y \in DOMAIN d.revisions BY <2>3 DEF Leaders
  <2>5. Sess(e, y) = Sess(d, y) /\ y \in Leaders(e) BY <2>3, <2>4, <1>2 DEF Enlarged
  <2>6. QED BY <2>2, <2>5, <1>3, <1>4 DEF Promotes
<1>5. CASE i # x
  <2>1. i \in DOMAIN d.revisions BY <1>5, <1>2 DEF Enlarged
  <2>2. PICK z : z = Src(d, i) OBVIOUS
  <2>3. IsPromotion(d, i) /\ Src(e, i) = z /\ z \in DOMAIN d.revisions
    BY <2>1, <2>2, <1>2 DEF Enlarged, IsPromotion
  <2>4. z \in Leaders(d) /\ Sess(d, i) \in {Sess(d, z), Sess(d, z) + 1}
    BY <2>1, <2>2, <2>3, <1>1 DEF PromotedFrom
  <2>5. QED BY <2>1, <2>3, <2>4, <1>2 DEF Enlarged
<1>6. QED BY <1>4, <1>5

LEMMA ForwardedFromAdds ==
  ASSUME NEW d, NEW e, WellFormed(d), WellFormed(e), Evolves(d, e), NEW P, NEW c \in Nat, Ordered(d, P, c),
         NEW x, NEW s \in Nat, NEW y, NEW at, Adds(d, e, x, s, y, at), Joins(d, P, c, s, y, at)
  PROVE  ForwardedFrom(e)
<1>1. Latest(d) /\ ForwardedFrom(d) BY DEF Ordered
<1>2. Enlarged(d, e, x) BY <1>1, EnlargedFacts
<1>3. Sess(e, x) = s /\ Src(e, x) = y /\ x \in DOMAIN e.revisions /\ Rec(e, x) = at BY DEF Adds
<1>4. \A i \in DOMAIN d.revisions : i \in Nat /\ Sess(d, i) \in Nat BY HistoryFacts
<1> SUFFICES ASSUME NEW i \in DOMAIN e.revisions, IsForwarded(e, i)
             PROVE  /\ Sess(e, Src(e, i)) < Sess(e, i)
                    /\ i \in Leaders(e) => /\ Src(e, i) \in Leaders(e)
                                           /\ \A j \in DOMAIN e.revisions : j < i => AtMost(e, j, Src(e, i))
                    /\ \A j \in DOMAIN e.revisions :
                         j < i /\ IsForwarded(e, j) /\ Sess(e, j) = Sess(e, i) => AtMost(e, Src(e, j), Src(e, i))
  BY DEF ForwardedFrom
<1>5. CASE i = x
  <2>1. y # 0 /\ ~Even(at) BY <1>3, <1>5 DEF IsForwarded
  <2>2. Forwarded(d, c, s, y, at) BY <2>1, JoinsFacts DEF Joins
  <2>3. Continues(d, s, y) /\ Sess(d, y) < s /\ y \in DOMAIN d.revisions BY <2>2 DEF Forwarded, Continues
  <2>4. Sess(e, Src(e, i)) < Sess(e, i) BY <2>3, <1>2, <1>3, <1>5 DEF Enlarged
  <2>5. d.current \in DOMAIN d.revisions /\ Sess(d, d.current) \in Nat BY HistoryFacts
  <2>6. ASSUME NEW j \in DOMAIN e.revisions, j < i PROVE j \in DOMAIN d.revisions
    <3>1. j # x BY <2>6, <1>5, HistoryFacts
    <3>2. QED BY <3>1, <1>2 DEF Enlarged
  <2>7. CASE Sess(d, d.current) <= s
    <3>1. y = d.current BY <2>3, <2>7 DEF Continues
    <3>2. y \in Leaders(e) BY <3>1, <2>3, <1>1, <1>2, CurrentLeads DEF Enlarged
    <3>3. \A j \in DOMAIN d.revisions : AtMost(e, j, y) BY <3>1, <2>3, <1>1, <1>2 DEF Enlarged, Latest
    <3>4. ASSUME NEW j \in DOMAIN e.revisions, j < i, IsForwarded(e, j)
          PROVE  AtMost(e, Src(e, j), y)
      <4>1. j \in DOMAIN d.revisions BY <3>4, <2>6
      <4>2. Src(e, j) \in DOMAIN d.revisions BY <4>1, <3>4, <1>2 DEF Enlarged, IsForwarded
      <4>3. QED BY <4>2, <3>3
    <3>5. QED BY <3>2, <3>3, <3>4, <2>4, <2>6, <1>3, <1>5
  <2>8. CASE ~(Sess(d, d.current) <= s)
    <3>1. LastServed(d, s, y) BY <2>3, <2>8 DEF Continues
    <3>2. Sess(d, d.current) > s BY <2>5, <2>8
    <3>3. x \notin Leaders(e) BY <3>2, <1>1, AddsFacts
    <3>4. ASSUME NEW j \in DOMAIN e.revisions, j < i, IsForwarded(e, j), Sess(e, j) = Sess(e, i)
          PROVE  AtMost(e, Src(e, j), y)
      <4>1. j \in DOMAIN d.revisions /\ IsForwarded(d, j) BY <3>4, <2>6, <1>2 DEF Enlarged
      <4>2. PICK z : z = Src(d, j) OBVIOUS
      <4>3. /\ z \in DOMAIN d.revisions /\ Src(e, j) = z /\ IsServed(d, z) /\ Sess(d, j) = s
            /\ Sess(d, z) < Sess(d, j)
        BY <4>1, <4>2, <3>4, <1>1, <1>2, <1>3, <1>5, HistoryFacts
        DEF Enlarged, IsForwarded, ForwardedFrom
      <4>4. Sess(d, z) <= s BY <4>1, <4>3, <1>4
      <4>5. AtMost(d, z, y) BY <4>3, <4>4, <3>1 DEF LastServed
      <4>6. QED BY <4>3, <4>5, <2>3, <1>2 DEF Enlarged
    <3>5. QED BY <3>3, <3>4, <2>4, <1>3, <1>5
  <2>9. QED BY <2>7, <2>8
<1>6. CASE i # x
  <2>1. i \in DOMAIN d.revisions BY <1>6, <1>2 DEF Enlarged
  <2>2. PICK z : z = Src(d, i) OBVIOUS
  <2>3. IsForwarded(d, i) /\ Src(e, i) = z /\ z \in DOMAIN d.revisions
    BY <2>1, <2>2, <1>2 DEF Enlarged, IsForwarded
  <2>4. /\ Sess(d, z) < Sess(d, i)
        /\ i \in Leaders(d) => z \in Leaders(d) /\ \A j \in DOMAIN d.revisions : j < i => AtMost(d, j, z)
        /\ \A j \in DOMAIN d.revisions :
             j < i /\ IsForwarded(d, j) /\ Sess(d, j) = Sess(d, i) => AtMost(d, Src(d, j), z)
    BY <2>1, <2>2, <2>3, <1>1 DEF ForwardedFrom
  <2>5. ASSUME NEW j \in DOMAIN e.revisions, j < i PROVE j \in DOMAIN d.revisions
    <3>1. i < x BY <2>1, <1>2 DEF Enlarged
    <3>2. j # x BY <3>1, <2>5, HistoryFacts, <1>3
    <3>3. QED BY <3>2, <1>2 DEF Enlarged
  <2>6. Sess(e, z) < Sess(e, i) BY <2>1, <2>3, <2>4, <1>2 DEF Enlarged
  <2>7. ASSUME i \in Leaders(e)
        PROVE  z \in Leaders(e) /\ \A j \in DOMAIN e.revisions : j < i => AtMost(e, j, z)
    BY <2>1, <2>3, <2>4, <2>5, <2>7, <1>2 DEF Enlarged
  <2>8. ASSUME NEW j \in DOMAIN e.revisions, j < i, IsForwarded(e, j), Sess(e, j) = Sess(e, i)
        PROVE  AtMost(e, Src(e, j), z)
    <3>1. j \in DOMAIN d.revisions BY <2>5, <2>8
    <3>2. PICK v : v = Src(d, j) OBVIOUS
    <3>3. IsForwarded(d, j) /\ Src(e, j) = v /\ v \in DOMAIN d.revisions /\ Sess(d, j) = Sess(d, i)
      BY <3>1, <3>2, <2>1, <2>8, <1>2 DEF Enlarged, IsForwarded
    <3>4. AtMost(d, v, z) BY <3>1, <3>2, <3>3, <2>4, <2>8
    <3>5. QED BY <3>3, <3>4, <2>3, <1>2 DEF Enlarged
  <2>9. QED BY <2>3, <2>6, <2>7, <2>8
<1>7. QED BY <1>5, <1>6

LEMMA NumberingAdds ==
  ASSUME NEW d, NEW e, WellFormed(d), WellFormed(e), Evolves(d, e), NEW P, NEW c \in Nat, Ordered(d, P, c),
         NEW x, NEW s \in Nat, NEW y, NEW at, Adds(d, e, x, s, y, at), Joins(d, P, c, s, y, at)
  PROVE  Numbering(e) /\ Clocks(e, P, c)
<1>1. Latest(d) /\ Numbering(d) /\ Clocks(d, P, c) BY DEF Ordered
<1>2. Enlarged(d, e, x) BY <1>1, EnlargedFacts
<1>3. Sess(e, x) = s /\ Src(e, x) = y /\ x \in DOMAIN e.revisions /\ Rec(e, x) = at BY DEF Adds
<1>4. at \in Nat /\ at <= 2 * c + 1 /\ (~Even(at) => at = 2 * c + 1) BY JoinsFacts
<1>5. \A i \in DOMAIN d.revisions : Rec(d, i) <= 2 * c + 1 BY <1>1 DEF Clocks
<1>6. Numbering(e)
  <2> SUFFICES ASSUME NEW i \in DOMAIN e.revisions, NEW j \in DOMAIN e.revisions,
                      i < j, ~IsPromotion(e, j)
               PROVE  Rec(e, i) <= Rec(e, j)
    BY DEF Numbering
  <2>0. i \in Nat /\ j \in Nat BY HistoryFacts
  <2>1. CASE j = x
    <3>1. i \in DOMAIN d.revisions BY <2>0, <2>1, <1>2 DEF Enlarged
    <3>2. Rec(e, i) <= 2 * c + 1 BY <3>1, <1>2, <1>5 DEF Enlarged
    <3>3. CASE Even(at)
      <4>1. Promotes(d, P, s, y, at) BY <3>3, JoinsFacts
      <4>2. y # 0 BY <4>1, <3>3, JoinsFacts, EvenFacts DEF Asked
      <4>3. QED BY <4>2, <3>3, <2>1, <1>3 DEF IsPromotion
    <3>4. CASE ~Even(at) BY <3>2, <3>4, <2>1, <1>3, <1>4
    <3>5. QED BY <3>3, <3>4
  <2>2. CASE j # x
    <3>1. j \in DOMAIN d.revisions /\ j < x BY <2>2, <1>2 DEF Enlarged
    <3>2. i # x /\ x \in Nat BY <2>0, <3>1, <1>3, HistoryFacts
    <3>3. i \in DOMAIN d.revisions BY <3>2, <1>2 DEF Enlarged
    <3>4. QED BY <3>1, <3>3, <1>1, <1>2 DEF Enlarged, Numbering
  <2>3. QED BY <2>1, <2>2
<1>7. Clocks(e, P, c)
  <2>1. \A i \in DOMAIN e.revisions : Rec(e, i) <= 2 * c + 1 BY <1>2, <1>3, <1>4, <1>5 DEF Enlarged
  <2>2. \A o \in Lives(P) : P[o].revision \in Leaders(e)
    <3>1. \A o \in Lives(P) : P[o].revision \in Leaders(d) /\ P[o].revision \in DOMAIN d.revisions
      BY <1>1 DEF Clocks, Leaders
    <3>2. QED BY <3>1, <1>2 DEF Enlarged
  <2>3. QED BY <2>1, <2>2, <1>1 DEF Clocks
<1>8. QED BY <1>6, <1>7

LEMMA DrawnAdds ==
  ASSUME NEW d, NEW e, WellFormed(d), WellFormed(e), Evolves(d, e), NEW P, NEW c \in Nat, Ordered(d, P, c),
         NEW x, NEW s \in Nat, NEW y, NEW at, Adds(d, e, x, s, y, at), Joins(d, P, c, s, y, at)
  PROVE  DrawnInOrder(e, P) /\ DrawnAfter(e, P)
<1>1. Latest(d) /\ Clocks(d, P, c) /\ DrawnInOrder(d, P) /\ DrawnAfter(d, P) BY DEF Ordered
<1>2. Enlarged(d, e, x) BY <1>1, EnlargedFacts
<1>3. Sess(e, x) = s /\ Src(e, x) = y /\ x \in DOMAIN e.revisions /\ Rec(e, x) = at BY DEF Adds
<1>4. /\ at \in Nat /\ at <= 2 * c + 1 /\ (~Even(at) => at = 2 * c + 1)
      /\ Even(at) <=> Promotes(d, P, s, y, at)
  BY JoinsFacts
<1>5. ASSUME NEW z, NEW t, Drawn(e, P, z, t)
      PROVE  Drawn(d, P, z, t) \/ (z = d.current /\ t = 2 * c + 1)
  <2>1. CASE \E o \in Lives(P) : z = P[o].revision /\ t = P[o].reading BY <2>1 DEF Drawn
  <2>2. CASE \E i \in DOMAIN e.revisions : Carrier(e, i) /\ z = Src(e, i) /\ t = Rec(e, i)
    <3>1. PICK i \in DOMAIN e.revisions : Carrier(e, i) /\ z = Src(e, i) /\ t = Rec(e, i) BY <2>2
    <3>2. CASE i # x
      <4>1. i \in DOMAIN d.revisions BY <3>2, <1>2 DEF Enlarged
      <4>2. Carrier(d, i) /\ z = Src(d, i) /\ t = Rec(d, i) BY <4>1, <3>1, <1>2 DEF Enlarged
      <4>3. QED BY <4>1, <4>2 DEF Drawn
    <3>3. CASE i = x
      <4>1. z = y /\ t = at BY <3>1, <3>3, <1>3
      <4>2. CASE IsPromotion(e, x)
        <5>1. Promotes(d, P, s, y, at) BY <4>2, <1>3, <1>4 DEF IsPromotion
        <5>2. QED BY <5>1, <4>1 DEF Promotes, Drawn
      <4>3. CASE IsForwarded(e, x) /\ x \in Leaders(e)
        <5>1. y # 0 /\ ~Even(at) BY <4>3, <1>3 DEF IsForwarded
        <5>2. Forwarded(d, c, s, y, at) BY <5>1, <1>4 DEF Joins, Asked
        <5>3. ~(Sess(d, d.current) > s) BY <4>3, <1>1, AddsFacts
        <5>4. Sess(d, d.current) <= s BY <5>3, HistoryFacts
        <5>5. y = d.current BY <5>2, <5>4 DEF Forwarded, Continues
        <5>6. QED BY <5>1, <5>5, <4>1, <1>4
      <4>4. QED BY <4>2, <4>3, <3>1, <3>3 DEF Carrier
    <3>4. QED BY <3>2, <3>3
  <2>3. QED BY <1>5, <2>1, <2>2 DEF Drawn
<1>6. ASSUME NEW z, NEW t, Drawn(d, P, z, t)
      PROVE  t \in Nat /\ t <= 2 * c + 1 /\ z \in DOMAIN d.revisions
  <2>1. z \in DOMAIN d.revisions
    <3>1. CASE \E o \in Lives(P) : z = P[o].revision /\ t = P[o].reading
      BY <3>1, <1>1 DEF Clocks, Leaders
    <3>2. CASE \E i \in DOMAIN d.revisions : Carrier(d, i) /\ z = Src(d, i) /\ t = Rec(d, i)
      BY <3>2, HistoryFacts DEF Carrier, IsPromotion, IsForwarded
    <3>3. QED BY <1>6, <3>1, <3>2 DEF Drawn
  <2>2. QED BY <2>1, <1>1, <1>6, DrawnBounds
<1>7. d.current \in DOMAIN d.revisions BY HistoryFacts
<1>8. DrawnInOrder(e, P)
  <2> SUFFICES ASSUME NEW y1 \in DOMAIN e.revisions, NEW z \in DOMAIN e.revisions,
                      NEW u \in Nat, NEW v \in Nat, Drawn(e, P, y1, u), Drawn(e, P, z, v), u < v
               PROVE  AtMost(e, y1, z)
    BY DEF DrawnInOrder
  <2>1. Drawn(d, P, y1, u)
    <3>1. v <= 2 * c + 1 BY <1>5, <1>6
    <3>2. u # 2 * c + 1 BY <3>1
    <3>3. QED BY <3>2, <1>5
  <2>2. y1 \in DOMAIN d.revisions BY <2>1, <1>6
  <2>3. CASE Drawn(d, P, z, v)
    <3>1. z \in DOMAIN d.revisions BY <2>3, <1>6
    <3>2. AtMost(d, y1, z) BY <2>1, <2>2, <2>3, <3>1, <1>1 DEF DrawnInOrder
    <3>3. QED BY <3>1, <3>2, <2>2, <1>2 DEF Enlarged
  <2>4. CASE z = d.current BY <2>2, <2>4, <1>1, <1>2, <1>7 DEF Latest, Enlarged
  <2>5. QED BY <2>3, <2>4, <1>5
<1>9. DrawnAfter(e, P)
  <2> SUFFICES ASSUME NEW z \in DOMAIN e.revisions, NEW u \in Nat, NEW i \in DOMAIN e.revisions,
                      Drawn(e, P, z, u), ~IsPromotion(e, i), Rec(e, i) < u
               PROVE  AtMost(e, i, z)
    BY DEF DrawnAfter
  <2>1. u <= 2 * c + 1 BY <1>5, <1>6
  <2>2. i \in DOMAIN d.revisions
    <3>1. SUFFICES ASSUME i = x PROVE FALSE BY <1>2 DEF Enlarged
    <3>2. at # 2 * c + 1 BY <2>1, <3>1, <1>3
    <3>3. Even(at) /\ Promotes(d, P, s, y, at) BY <3>2, <1>4
    <3>4. y # 0 BY <3>2, JoinsFacts DEF Asked
    <3>5. QED BY <3>1, <3>3, <3>4, <1>3 DEF IsPromotion
  <2>3. ~IsPromotion(d, i) /\ Rec(d, i) < u BY <2>2, <1>2 DEF Enlarged
  <2>4. CASE Drawn(d, P, z, u)
    <3>1. z \in DOMAIN d.revisions BY <2>4, <1>6
    <3>2. AtMost(d, i, z) BY <2>2, <2>3, <2>4, <3>1, <1>1 DEF DrawnAfter
    <3>3. QED BY <3>1, <3>2, <2>2, <1>2 DEF Enlarged
  <2>5. CASE z = d.current BY <2>2, <2>5, <1>1, <1>2, <1>7 DEF Latest, Enlarged
  <2>6. QED BY <2>4, <2>5, <1>5
<1>10. QED BY <1>8, <1>9

LEMMA OrderedAdds ==
  ASSUME NEW d, NEW e, WellFormed(d), WellFormed(e), Evolves(d, e), NEW P, NEW c \in Nat, Ordered(d, P, c),
         NEW x, NEW s \in Nat, NEW y, NEW at, Adds(d, e, x, s, y, at), Joins(d, P, c, s, y, at),
         y # 0 => Mem(e, x) = Mem(d, y)
  PROVE  Ordered(e, P, c)
<1>1. Latest(e) BY AddsFacts DEF Ordered
<1>2. QED
  BY <1>1, SourcedKeyedAdds, PromotedFromAdds, ForwardedFromAdds, NumberingAdds, DrawnAdds DEF Ordered

-----------------------------------------------------------------------------
(* The revisions of one change: those of a session that go back to one that   *)
(* an operator asked for.                                                     *)

Kin(d, f, i, j) == Sess(d, i) = Sess(d, j) /\ f[i] = f[j]

(* A revision that is carried from one of its own session.                    *)
Beside(d, i) == Src(d, i) # 0 /\ Sess(d, Src(d, i)) = Sess(d, i)

(* It is never served: the pointer is at a later session by then.             *)
Apart(d) ==
  \A i \in DOMAIN d.revisions :
    Beside(d, i) => ~IsServed(d, i) /\ Sess(d, d.current) > Sess(d, i) /\ i \notin Leaders(d)

(* Of a change, only the first revision was ever the last of all.             *)
Distinct(d, f) == \A x \in Leaders(d) : \A i \in DOMAIN d.revisions : i < x => ~Kin(d, f, i, x)

(* A revision carried forward while the pointer was further on is served by a *)
(* promotion, or it is of the last source that such a one of its session has. *)
Behind(d, i) == IsForwarded(d, i) /\ i \notin Leaders(d)
Supplied(d) ==
  \A i \in DOMAIN d.revisions :
    Behind(d, i) /\ IsServed(d, i) =>
      \/ Src(d, i) \in Leaders(d) /\ Sess(d, i) = Sess(d, Src(d, i)) + 1
      \/ \A j \in DOMAIN d.revisions :
           Behind(d, j) /\ Sess(d, j) = Sess(d, i) => AtMost(d, Src(d, j), Src(d, i))

Related(d, f) == Apart(d) /\ Lineage(f, d) /\ Distinct(d, f)

LEMMA LeadersAlone ==
  ASSUME NEW d, WellFormed(d), NEW f, Distinct(d, f),
         NEW x \in Leaders(d), NEW y \in Leaders(d), Kin(d, f, x, y)
  PROVE  x = y
<1>1. x \in DOMAIN d.revisions /\ y \in DOMAIN d.revisions BY DEF Leaders
<1>2. Kin(d, f, y, x) BY DEF Kin
<1>3. ~(x < y) /\ ~(y < x) BY <1>1, <1>2 DEF Distinct
<1>4. QED BY <1>1, <1>3, HistoryFacts

LEMMA RootAlone ==
  ASSUME NEW d, WellFormed(d), Sourced(d), NEW f, Related(d, f),
         NEW x \in DOMAIN d.revisions, Src(d, x) = 0,
         NEW p \in DOMAIN d.revisions, IsServed(d, p), Kin(d, f, p, x)
  PROVE  p = x
<1>1. f[x] = x /\ Sess(d, p) = Sess(d, x) /\ f[p] = x BY DEF Related, Lineage, Kin
<1>2. CASE Src(d, p) = 0 BY <1>1, <1>2 DEF Related, Lineage
<1>3. CASE Src(d, p) # 0
  <2>1. PICK v \in DOMAIN d.revisions : v = Src(d, p) BY <1>3, HistoryFacts
  <2>2. f[v] = x BY <1>1, <1>3, <2>1 DEF Related, Lineage
  <2>3. Sess(d, x) <= Sess(d, v) BY <2>2, OriginFacts DEF Related
  <2>4. Sess(d, v) <= Sess(d, p) BY <1>3, <2>1 DEF Sourced
  <2>5. Sess(d, v) = Sess(d, p) BY <1>1, <2>3, <2>4, HistoryFacts
  <2>6. Beside(d, p) BY <1>3, <2>1, <2>5 DEF Beside
  <2>7. QED BY <2>6 DEF Related, Apart
<1>4. QED BY <1>2, <1>3

(* Where two revisions of a change have come from.                            *)
LEMMA ServedSource ==
  ASSUME NEW d, WellFormed(d), Sourced(d), NEW f, Related(d, f),
         NEW p \in DOMAIN d.revisions, Src(d, p) # 0, IsServed(d, p) \/ p \in Leaders(d),
         NEW v, v = Src(d, p)
  PROVE  v \in DOMAIN d.revisions /\ f[v] = f[p] /\ Sess(d, v) < Sess(d, p) /\ Mem(d, v) = Mem(d, p)
<1>1. v \in DOMAIN d.revisions BY HistoryFacts
<1>2. f[v] = f[p] BY DEF Related, Lineage
<1>3. Sess(d, v) <= Sess(d, p) /\ Mem(d, v) = Mem(d, p) BY DEF Sourced
<1>4. Sess(d, v) # Sess(d, p)
  <2>1. ~Beside(d, p) BY DEF Related, Apart
  <2>2. QED BY <2>1 DEF Beside
<1>5. Sess(d, v) \in Nat /\ Sess(d, p) \in Nat BY <1>1, HistoryFacts
<1>6. QED BY <1>1, <1>2, <1>3, <1>4, <1>5

(* The first of a change is at most any other that is served.                 *)
LEMMA LeaderFirst ==
  ASSUME NEW d, WellFormed(d), NEW P, NEW c \in Nat, Ordered(d, P, c), NEW f, Related(d, f),
         NEW y \in Leaders(d), NEW p \in DOMAIN d.revisions, IsServed(d, p), Kin(d, f, p, y)
  PROVE  AtMost(d, y, p)
<1>1. /\ Sourced(d) /\ Keyed(d) /\ PromotedFrom(d) /\ ForwardedFrom(d) /\ Numbering(d)
      /\ DrawnInOrder(d, P) /\ Distinct(d, f)
  BY DEF Ordered, Related
<1>2. y \in DOMAIN d.revisions /\ Sess(d, p) = Sess(d, y) /\ f[p] = f[y] BY DEF Leaders, Kin
<1>3. /\ y \in Nat /\ p \in Nat /\ Rec(d, y) \in Nat /\ Rec(d, p) \in Nat
      /\ Sess(d, y) \in Nat /\ Sess(d, p) \in Nat
  BY <1>2, HistoryFacts
<1>4. SUFFICES ASSUME ~AtMost(d, y, p) PROVE FALSE OBVIOUS
<1>5. y < p
  <2>1. ~(p < y) BY <1>1 DEF Distinct
  <2>2. y # p BY <1>2, <1>4, OrderFacts
  <2>3. QED BY <1>3, <2>1, <2>2
<1>6. Rec(d, p) < Rec(d, y)
  <2>1. ~(Rec(d, y) <= Rec(d, p)) BY <1>2, <1>4, <1>5, OrderFacts
  <2>2. QED BY <1>3, <2>1
<1>7. IsPromotion(d, p)
  <2>1. ~(Rec(d, y) <= Rec(d, p)) BY <1>3, <1>6
  <2>2. QED BY <1>1, <1>2, <1>5, <2>1 DEF Numbering
<1>8. PICK v : v = Src(d, p) OBVIOUS
<1>9. /\ v \in DOMAIN d.revisions /\ f[v] = f[p] /\ Sess(d, v) < Sess(d, p) /\ Mem(d, v) = Mem(d, p)
      /\ v \in Leaders(d) /\ Sess(d, p) \in {Sess(d, v), Sess(d, v) + 1}
  BY <1>1, <1>7, <1>8, ServedSource DEF IsPromotion, PromotedFrom
<1>10. Src(d, y) # 0
  <2>1. SUFFICES ASSUME Src(d, y) = 0 PROVE FALSE OBVIOUS
  <2>2. p = y BY <1>1, <1>2, <2>1, RootAlone
  <2>3. QED BY <2>2, <1>3, <1>5
<1>11. PICK u : u = Src(d, y) OBVIOUS
<1>12. u \in DOMAIN d.revisions /\ f[u] = f[y] /\ Sess(d, u) < Sess(d, y) /\ Mem(d, u) = Mem(d, y)
  BY <1>1, <1>2, <1>10, <1>11, ServedSource
<1>13. u \in Leaders(d) /\ Carrier(d, y)
  <2>1. CASE IsPromotion(d, y) BY <2>1, <1>1, <1>2, <1>11 DEF PromotedFrom, Carrier
  <2>2. CASE ~IsPromotion(d, y)
    <3>1. IsForwarded(d, y) BY <2>2, <1>10 DEF IsPromotion, IsForwarded
    <3>2. QED BY <3>1, <1>1, <1>2, <1>11 DEF ForwardedFrom, Carrier
  <2>3. QED BY <2>1, <2>2
<1>14. Drawn(d, P, v, Rec(d, p)) /\ Drawn(d, P, u, Rec(d, y))
  <2>1. Carrier(d, p) BY <1>7 DEF Carrier
  <2>2. QED BY <2>1, <1>2, <1>8, <1>11, <1>13 DEF Drawn
<1>15. AtMost(d, v, u) BY <1>1, <1>3, <1>6, <1>9, <1>12, <1>14 DEF DrawnInOrder
<1>16. Sess(d, v) <= Sess(d, u) BY <1>9, <1>12, <1>15, OrderFacts
<1>17. Sess(d, v) = Sess(d, u)
  <2>1. Sess(d, v) \in Nat /\ Sess(d, u) \in Nat BY <1>9, <1>12, HistoryFacts
  <2>2. QED BY <2>1, <1>2, <1>3, <1>9, <1>12, <1>16
<1>18. Kin(d, f, v, u) BY <1>2, <1>9, <1>12, <1>17 DEF Kin
<1>19. v = u BY <1>1, <1>9, <1>13, <1>18, LeadersAlone
<1>20. Mem(d, p) = Mem(d, y) BY <1>9, <1>12, <1>19
<1>21. p = y BY <1>1, <1>2, <1>8, <1>11, <1>19, <1>20 DEF Keyed
<1>22. QED BY <1>3, <1>5, <1>21

(* A promotion for the session after is at most any other that is served.     *)
LEMMA PromotedFirst ==
  ASSUME NEW d, WellFormed(d), NEW P, NEW c \in Nat, Ordered(d, P, c), NEW f, Related(d, f), Supplied(d),
         NEW z \in DOMAIN d.revisions, NEW y \in Leaders(d), y = Src(d, z), Sess(d, z) = Sess(d, y) + 1,
         NEW p \in DOMAIN d.revisions, IsServed(d, p), Kin(d, f, p, z)
  PROVE  AtMost(d, z, p)
<1>1. /\ Sourced(d) /\ Keyed(d) /\ PromotedFrom(d) /\ ForwardedFrom(d) /\ Numbering(d)
      /\ DrawnAfter(d, P) /\ Distinct(d, f)
  BY DEF Ordered, Related
<1>2. y \in DOMAIN d.revisions /\ Sess(d, p) = Sess(d, z) /\ f[p] = f[z] BY DEF Leaders, Kin
<1>3. /\ y \in Nat /\ p \in Nat /\ z \in Nat /\ Rec(d, z) \in Nat /\ Rec(d, p) \in Nat
      /\ Sess(d, y) \in Nat /\ Sess(d, p) \in Nat /\ Sess(d, z) \in Nat /\ Src(d, z) # 0
  BY <1>2, HistoryFacts
<1>4. f[z] = f[y] /\ Mem(d, y) = Mem(d, z) BY <1>3 DEF Related, Lineage, Ordered, Sourced
<1>5. SUFFICES ASSUME ~AtMost(d, z, p) PROVE FALSE OBVIOUS
<1>6. p # z /\ Rec(d, p) <= Rec(d, z) /\ (Rec(d, p) < Rec(d, z) \/ p < z)
  <2>1. p # z BY <1>5, OrderFacts
  <2>2. ~(Rec(d, z) < Rec(d, p)) BY <1>2, <1>5, OrderFacts
  <2>3. ~(Rec(d, z) <= Rec(d, p) /\ z < p) BY <1>2, <1>5, OrderFacts
  <2>4. QED BY <1>3, <2>1, <2>2, <2>3
<1>7. Src(d, p) # 0
  <2>1. SUFFICES ASSUME Src(d, p) = 0 PROVE FALSE OBVIOUS
  <2>2. f[p] = p BY <2>1 DEF Related, Lineage
  <2>3. Sess(d, f[y]) <= Sess(d, y) BY <1>1, <1>2, OriginFacts DEF Related
  <2>4. QED BY <1>2, <1>3, <1>4, <2>2, <2>3
<1>8. PICK v : v = Src(d, p) OBVIOUS
<1>9. v \in DOMAIN d.revisions /\ f[v] = f[p] /\ Sess(d, v) < Sess(d, p) /\ Mem(d, v) = Mem(d, p)
  BY <1>1, <1>7, <1>8, ServedSource
<1>10. Sess(d, v) \in Nat BY <1>9, HistoryFacts
<1>11. v # y
  <2>1. SUFFICES ASSUME v = y PROVE FALSE OBVIOUS
  <2>2. QED BY <2>1, <1>1, <1>2, <1>4, <1>6, <1>8, <1>9 DEF Keyed
<1>12. ~(v \in Leaders(d) /\ Sess(d, v) = Sess(d, y))
  <2>1. SUFFICES ASSUME v \in Leaders(d), Sess(d, v) = Sess(d, y) PROVE FALSE OBVIOUS
  <2>2. Kin(d, f, v, y) BY <2>1, <1>2, <1>4, <1>9 DEF Kin
  <2>3. QED BY <2>1, <2>2, <1>1, <1>11, LeadersAlone
<1>13. ~IsPromotion(d, p)
  <2>1. SUFFICES ASSUME IsPromotion(d, p) PROVE FALSE OBVIOUS
  <2>2. v \in Leaders(d) /\ Sess(d, p) \in {Sess(d, v), Sess(d, v) + 1}
    BY <2>1, <1>1, <1>8 DEF PromotedFrom
  <2>3. Sess(d, v) = Sess(d, y) BY <2>2, <1>2, <1>3, <1>9, <1>10
  <2>4. QED BY <2>2, <2>3, <1>12
<1>14. IsForwarded(d, p) BY <1>7, <1>13 DEF IsPromotion, IsForwarded
<1>15. ~IsPromotion(d, z)
  <2>1. SUFFICES ASSUME IsPromotion(d, z) PROVE FALSE OBVIOUS
  <2>2. Drawn(d, P, y, Rec(d, z)) BY <2>1 DEF Drawn, Carrier
  <2>3. Rec(d, p) # Rec(d, z) BY <2>1, <1>14 DEF IsPromotion, IsForwarded
  <2>4. Rec(d, p) < Rec(d, z) BY <2>3, <1>3, <1>6
  <2>5. AtMost(d, p, y) BY <2>2, <2>4, <1>1, <1>2, <1>3, <1>13 DEF DrawnAfter
  <2>6. Sess(d, p) <= Sess(d, y) BY <2>5, <1>2, OrderFacts
  <2>7. QED BY <2>6, <1>2, <1>3
<1>16. IsForwarded(d, z) BY <1>3, <1>15 DEF IsPromotion, IsForwarded
<1>17. p < z
  <2>1. SUFFICES ASSUME ~(p < z) PROVE FALSE OBVIOUS
  <2>2. z < p BY <2>1, <1>3, <1>6
  <2>3. Rec(d, z) <= Rec(d, p) BY <2>2, <1>1, <1>13 DEF Numbering
  <2>4. QED BY <2>1, <2>3, <1>3, <1>6
<1>18. AtMost(d, v, y) BY <1>1, <1>2, <1>8, <1>14, <1>16, <1>17 DEF ForwardedFrom
<1>19. ~AtMost(d, y, v) BY <1>2, <1>9, <1>11, <1>18, OrderFacts
<1>20. CASE p \in Leaders(d)
  <2>1. \A j \in DOMAIN d.revisions : j < p => AtMost(d, j, v)
    BY <1>1, <1>8, <1>14, <1>20 DEF ForwardedFrom
  <2>2. ~(y < p) BY <2>1, <1>2, <1>19
  <2>3. y # p BY <1>2, <1>3
  <2>4. p < y BY <2>2, <2>3, <1>3
  <2>5. Later(d, y, p) BY <2>4 DEF Leaders
  <2>6. AtMost(d, p, y) BY <2>5, <1>2, OrderFacts
  <2>7. Sess(d, p) <= Sess(d, y) BY <2>6, <1>2, OrderFacts
  <2>8. QED BY <2>7, <1>2, <1>3
<1>21. CASE p \notin Leaders(d)
  <2>1. Behind(d, p) BY <1>14, <1>21 DEF Behind
  <2>2. CASE v \in Leaders(d) /\ Sess(d, p) = Sess(d, v) + 1
    <3>1. Sess(d, v) = Sess(d, y) BY <2>2, <1>2, <1>3, <1>10
    <3>2. QED BY <2>2, <3>1, <1>12
  <2>3. CASE \A j \in DOMAIN d.revisions : Behind(d, j) /\ Sess(d, j) = Sess(d, p) => AtMost(d, Src(d, j), v)
    <3>1. z \notin Leaders(d)
      <4>1. SUFFICES ASSUME z \in Leaders(d) PROVE FALSE OBVIOUS
      <4>2. QED BY <4>1, <1>1, <1>17 DEF Distinct
    <3>2. Behind(d, z) BY <3>1, <1>16 DEF Behind
    <3>3. QED BY <2>3, <3>2, <1>2, <1>19
  <2>4. QED BY <2>1, <2>2, <2>3, <1>8 DEF Supplied
<1>22. QED BY <1>20, <1>21

-----------------------------------------------------------------------------
(* What a transaction does to it.                                             *)

Opened(d, e) ==
  {i \in DOMAIN e.revisions : IsServed(e, i) /\ ~(i \in DOMAIN d.revisions /\ IsServed(d, i))}

(* What a revision is that gets a snapshot.                                   *)
Justified(d, e, i) ==
  \/ Src(e, i) = 0
  \/ i \in Leaders(e)
  \/ Src(e, i) \in Leaders(e) /\ Sess(e, i) = Sess(e, Src(e, i)) + 1
  \/ /\ Src(e, i) \in DOMAIN d.revisions /\ LastServed(d, Sess(e, i), Src(e, i))
     /\ Sess(e, Src(e, i)) < Sess(e, i)

(* Nothing is recorded, or a revision is; of its source's session only once   *)
(* the pointer is at a later one.                                             *)
Registers(d, e, P, c, x, s, y, at) ==
  /\ Adds(d, e, x, s, y, at) /\ Joins(d, P, c, s, y, at) /\ s \in Nat
  /\ y # 0 => Mem(e, x) = Mem(d, y)
  /\ y # 0 /\ Sess(d, y) = s => Sess(d, d.current) > s
Continued(d, e, P, c) ==
  \/ DOMAIN e.revisions = DOMAIN d.revisions /\ e.current = d.current
  \/ \E x, s, y, at : Registers(d, e, P, c, x, s, y, at)

Goes(d, e, P, c) ==
  /\ Evolves(d, e) /\ Continued(d, e, P, c)
  /\ \A i \in Opened(d, e) : Justified(d, e, i)

LEMMA OrderedContinues ==
  ASSUME NEW d, NEW e, WellFormed(d), WellFormed(e), NEW P, NEW c \in Nat, Ordered(d, P, c),
         Evolves(d, e), NEW q, RowsKept(d, e, q), Continued(d, e, P, c)
  PROVE  Ordered(e, P, c)
<1>1. CASE DOMAIN e.revisions = DOMAIN d.revisions /\ e.current = d.current
  <2>1. Len(e.revisions) = Len(d.revisions)
    <3>1. PICK m \in Nat, n \in Nat : m = Len(d.revisions) /\ n = Len(e.revisions) BY HistoryFacts
    <3>2. 1..m = 1..n BY <1>1, <3>1, HistoryFacts
    <3>3. m = n
      <4>1. ~(m < n)
        <5>1. (n \in 1..n /\ n \notin 1..m) \/ ~(m < n) OBVIOUS
        <5>2. QED BY <5>1, <3>2
      <4>2. ~(n < m)
        <5>1. (m \in 1..m /\ m \notin 1..n) \/ ~(n < m) OBVIOUS
        <5>2. QED BY <5>1, <3>2
      <4>3. QED BY <4>1, <4>2
    <3>4. QED BY <3>1, <3>3
  <2>2. PICK S : S = DOMAIN d.revisions OBVIOUS
  <2>3. Passes(d, e, q, S) BY <1>1, <2>1, <2>2 DEF Passes
  <2>4. Fewer(P, P) BY DEF Fewer
  <2>5. QED BY <2>3, <2>4, OrderedPasses
<1>2. CASE \E x, s, y, at : Registers(d, e, P, c, x, s, y, at)
  <2>1. PICK x, s, y, at : Registers(d, e, P, c, x, s, y, at) BY <1>2
  <2>2. /\ Adds(d, e, x, s, y, at) /\ Joins(d, P, c, s, y, at) /\ s \in Nat
        /\ y # 0 => Mem(e, x) = Mem(d, y)
    BY <2>1 DEF Registers
  <2>3. QED BY <2>2, OrderedAdds
<1>3. QED BY <1>1, <1>2 DEF Continued

(* What is new and what is not.                                               *)
LEMMA ContinuedFacts ==
  ASSUME NEW d, NEW e, WellFormed(d), WellFormed(e), NEW P, NEW c \in Nat, Ordered(d, P, c),
         Evolves(d, e), Continued(d, e, P, c)
  PROVE  /\ \A i \in DOMAIN d.revisions :
              /\ i \in DOMAIN e.revisions
              /\ Sess(e, i) = Sess(d, i) /\ Rec(e, i) = Rec(d, i) /\ Src(e, i) = Src(d, i)
              /\ Mem(e, i) = Mem(d, i) /\ (i \in Leaders(e) <=> i \in Leaders(d))
              /\ Beside(e, i) <=> Beside(d, i)
              /\ Behind(e, i) <=> Behind(d, i)
              /\ IsServed(d, i) => IsServed(e, i)
         /\ \A i, j \in DOMAIN d.revisions : AtMost(e, i, j) <=> AtMost(d, i, j)
         /\ \A x \in DOMAIN e.revisions \ DOMAIN d.revisions :
              /\ \A i \in DOMAIN d.revisions : i < x
              /\ \E s, y, at : Registers(d, e, P, c, x, s, y, at)
         /\ \A i, j \in DOMAIN e.revisions \ DOMAIN d.revisions : i = j
         /\ Sess(d, d.current) <= Sess(e, e.current)
<1>1. Latest(d) BY DEF Ordered
<1>2. /\ DOMAIN d.revisions \subseteq DOMAIN e.revisions
      /\ \A i \in DOMAIN d.revisions :
           /\ Sess(e, i) = Sess(d, i) /\ Rec(e, i) = Rec(d, i) /\ Src(e, i) = Src(d, i)
           /\ Mem(e, i) = Mem(d, i) /\ (IsForwarded(e, i) <=> IsForwarded(d, i))
           /\ IsServed(d, i) => IsServed(e, i)
  BY HistoryKept
<1>3. \A i, j \in DOMAIN d.revisions : AtMost(e, i, j) <=> AtMost(d, i, j) BY OrderKept
<1>4. \A i \in DOMAIN d.revisions : i \in Leaders(e) <=> i \in Leaders(d) BY LeadersKept
<1>5. ASSUME NEW i \in DOMAIN d.revisions
      PROVE  (Beside(e, i) <=> Beside(d, i)) /\ (Behind(e, i) <=> Behind(d, i))
  <2>1. Src(d, i) # 0 => Src(d, i) \in DOMAIN d.revisions BY HistoryFacts
  <2>2. QED BY <2>1, <1>2, <1>4 DEF Beside, Behind
<1>6. Sess(d, d.current) <= Sess(e, e.current)
  <2>1. Sess(d, d.current) \in Nat /\ Sess(e, e.current) \in Nat BY HistoryFacts
  <2>2. Ahead(d.revisions[d.current], e.revisions[e.current]) BY DEF Evolves
  <2>3. QED BY <2>1, <2>2 DEF Ahead, Sess
<1>7. CASE DOMAIN e.revisions = DOMAIN d.revisions BY <1>2, <1>3, <1>4, <1>5, <1>6, <1>7
<1>8. CASE \E x, s, y, at : Registers(d, e, P, c, x, s, y, at)
  <2>1. PICK x, s, y, at : Registers(d, e, P, c, x, s, y, at) BY <1>8
  <2>2. Adds(d, e, x, s, y, at) BY <2>1 DEF Registers
  <2>3. DOMAIN e.revisions = DOMAIN d.revisions \cup {x} /\ \A i \in DOMAIN d.revisions : i < x
    BY <2>2, <1>1, AddsFacts
  <2>4. \A z \in DOMAIN e.revisions \ DOMAIN d.revisions : z = x BY <2>3
  <2>5. QED BY <2>1, <2>3, <2>4, <1>2, <1>3, <1>4, <1>5, <1>6
<1>9. QED BY <1>7, <1>8 DEF Continued

LEMMA ApartGoes ==
  ASSUME NEW d, NEW e, WellFormed(d), WellFormed(e), NEW P, NEW c \in Nat, Ordered(d, P, c),
         Goes(d, e, P, c), Apart(d)
  PROVE  Apart(e)
<1>1. Evolves(d, e) /\ Continued(d, e, P, c) BY DEF Goes
<1>2. SUFFICES ASSUME NEW i \in DOMAIN e.revisions, Beside(e, i)
               PROVE  ~IsServed(e, i) /\ Sess(e, e.current) > Sess(e, i) /\ i \notin Leaders(e)
  BY DEF Apart
<1>3. Latest(d) BY DEF Ordered
<1>4. /\ Sess(d, d.current) <= Sess(e, e.current)
      /\ Sess(d, d.current) \in Nat /\ Sess(e, e.current) \in Nat /\ Sess(e, i) \in Nat
  BY <1>1, ContinuedFacts, HistoryFacts
<1>5. Sess(d, d.current) > Sess(e, i) /\ i \notin Leaders(e)
  <2>1. CASE i \in DOMAIN d.revisions
    <3>1. Beside(d, i) /\ Sess(e, i) = Sess(d, i) /\ (i \in Leaders(e) <=> i \in Leaders(d))
      BY <2>1, <1>1, <1>2, ContinuedFacts
    <3>2. QED BY <2>1, <3>1 DEF Apart
  <2>2. CASE i \notin DOMAIN d.revisions
    <3>1. PICK s, y, at : Registers(d, e, P, c, i, s, y, at) BY <2>2, <1>1, ContinuedFacts
    <3>2. /\ Adds(d, e, i, s, y, at) /\ Joins(d, P, c, s, y, at) /\ s \in Nat
          /\ y # 0 /\ Sess(d, y) = s => Sess(d, d.current) > s
      BY <3>1 DEF Registers
    <3>3. Src(e, i) = y /\ Sess(e, i) = s BY <3>2 DEF Adds
    <3>4. y # 0 /\ Sess(e, y) = s BY <3>3, <1>2 DEF Beside
    <3>5. y \in DOMAIN d.revisions BY <3>2, <3>4, JoinsFacts
    <3>6. Sess(d, y) = s BY <3>4, <3>5, <1>1, ContinuedFacts
    <3>7. Sess(d, d.current) > s BY <3>2, <3>4, <3>6
    <3>8. i \notin Leaders(e) BY <3>2, <3>7, <1>1, <1>3, AddsFacts
    <3>9. QED BY <3>3, <3>7, <3>8
  <2>3. QED BY <2>1, <2>2
<1>6. ~IsServed(e, i)
  <2>1. SUFFICES ASSUME IsServed(e, i) PROVE FALSE OBVIOUS
  <2>2. i \in Opened(d, e)
    <3>1. SUFFICES ASSUME i \in DOMAIN d.revisions, IsServed(d, i) PROVE FALSE
      BY <2>1 DEF Opened
    <3>2. Beside(d, i) BY <3>1, <1>1, <1>2, ContinuedFacts
    <3>3. QED BY <3>1, <3>2 DEF Apart
  <2>3. Justified(d, e, i) BY <2>2 DEF Goes
  <2>4. Src(e, i) # 0 /\ Sess(e, Src(e, i)) = Sess(e, i) BY <1>2 DEF Beside
  <2>5. QED BY <2>3, <2>4, <1>4, <1>5 DEF Justified
<1>7. QED BY <1>4, <1>5, <1>6

(* A revision that is carried forward while the pointer is further on.        *)
LEMMA AddsBehind ==
  ASSUME NEW d, NEW e, WellFormed(d), WellFormed(e), NEW P, NEW c \in Nat, Ordered(d, P, c), Evolves(d, e),
         NEW x, NEW s, NEW y, NEW at, Registers(d, e, P, c, x, s, y, at), Behind(e, x)
  PROVE  LastServed(d, s, y) /\ y \in DOMAIN d.revisions /\ Sess(d, y) < s
<1>1. /\ Adds(d, e, x, s, y, at) /\ Joins(d, P, c, s, y, at) /\ s \in Nat /\ Latest(d)
  BY DEF Registers, Ordered
<1>2. Src(e, x) = y /\ Rec(e, x) = at BY <1>1 DEF Adds
<1>3. y # 0 /\ ~Even(at) /\ x \notin Leaders(e) BY <1>2 DEF Behind, IsForwarded
<1>4. (Even(at) <=> Promotes(d, P, s, y, at)) /\ (y = 0 <=> Asked(c, y, at)) BY <1>1, JoinsFacts
<1>5. Continues(d, s, y) /\ Sess(d, y) < s BY <1>1, <1>3, <1>4 DEF Joins, Forwarded
<1>6. ~(Sess(d, d.current) < s) BY <1>1, <1>3, AddsFacts
<1>7. ~(Sess(d, d.current) <= s) BY <1>5, <1>6, HistoryFacts DEF Continues
<1>8. QED BY <1>5, <1>7 DEF Continues

LEMMA SuppliedGoes ==
  ASSUME NEW d, NEW e, WellFormed(d), WellFormed(e), NEW P, NEW c \in Nat, Ordered(d, P, c),
         Goes(d, e, P, c), Supplied(d)
  PROVE  Supplied(e)
<1>1. Evolves(d, e) /\ Continued(d, e, P, c) /\ ForwardedFrom(d) BY DEF Goes, Ordered
<1>2. SUFFICES ASSUME NEW i \in DOMAIN e.revisions, Behind(e, i), IsServed(e, i)
               PROVE  \/ Src(e, i) \in Leaders(e) /\ Sess(e, i) = Sess(e, Src(e, i)) + 1
                      \/ \A j \in DOMAIN e.revisions :
                           Behind(e, j) /\ Sess(e, j) = Sess(e, i) => AtMost(e, Src(e, j), Src(e, i))
  BY DEF Supplied
<1>3. /\ \A j \in DOMAIN d.revisions :
           /\ j \in DOMAIN e.revisions
           /\ Sess(e, j) = Sess(d, j) /\ Src(e, j) = Src(d, j)
           /\ (j \in Leaders(e) <=> j \in Leaders(d)) /\ (Behind(e, j) <=> Behind(d, j))
      /\ \A j, k \in DOMAIN d.revisions : AtMost(e, j, k) <=> AtMost(d, j, k)
      /\ \A x \in DOMAIN e.revisions \ DOMAIN d.revisions :
           \E s, y, at : Registers(d, e, P, c, x, s, y, at)
  BY <1>1, ContinuedFacts
<1>4. ASSUME NEW j \in DOMAIN e.revisions, j \notin DOMAIN d.revisions, Behind(e, j)
      PROVE  /\ LastServed(d, Sess(e, j), Src(e, j)) /\ Src(e, j) \in DOMAIN d.revisions
             /\ Sess(d, Src(e, j)) < Sess(e, j)
  <2>1. PICK s, y, at : Registers(d, e, P, c, j, s, y, at) BY <1>3, <1>4
  <2>2. Sess(e, j) = s /\ Src(e, j) = y BY <2>1 DEF Registers, Adds
  <2>3. LastServed(d, s, y) /\ y \in DOMAIN d.revisions /\ Sess(d, y) < s
    BY <2>1, <1>1, <1>4, AddsBehind
  <2>4. QED BY <2>2, <2>3
<1>5. CASE i \in DOMAIN d.revisions /\ IsServed(d, i)
  <2>1. PICK v : v = Src(d, i) OBVIOUS
  <2>2. /\ v \in DOMAIN d.revisions /\ Src(e, i) = v /\ Behind(d, i) /\ Sess(e, i) = Sess(d, i)
    BY <2>1, <1>2, <1>3, <1>5, HistoryFacts DEF Behind, IsForwarded
  <2>3. CASE v \in Leaders(d) /\ Sess(d, i) = Sess(d, v) + 1 BY <2>2, <2>3, <1>3
  <2>4. CASE \A j \in DOMAIN d.revisions :
               Behind(d, j) /\ Sess(d, j) = Sess(d, i) => AtMost(d, Src(d, j), v)
    <3>1. ASSUME NEW j \in DOMAIN e.revisions, Behind(e, j), Sess(e, j) = Sess(e, i)
          PROVE  AtMost(e, Src(e, j), v)
      <4>1. CASE j \in DOMAIN d.revisions
        <5>1. PICK w : w = Src(d, j) OBVIOUS
        <5>2. w \in DOMAIN d.revisions /\ Src(e, j) = w /\ Behind(d, j) /\ Sess(d, j) = Sess(d, i)
          BY <4>1, <5>1, <3>1, <2>2, <1>3, HistoryFacts DEF Behind, IsForwarded
        <5>3. AtMost(d, w, v) BY <4>1, <5>1, <5>2, <2>4
        <5>4. QED BY <5>2, <5>3, <2>2, <1>3
      <4>2. CASE j \notin DOMAIN d.revisions
        <5>1. /\ LastServed(d, Sess(e, j), Src(e, j)) /\ Src(e, j) \in DOMAIN d.revisions
              /\ Sess(d, Src(e, j)) < Sess(e, j)
          BY <4>2, <3>1, <1>4
        <5>2. PICK w : w = Src(e, j) OBVIOUS
        <5>3. Sess(d, i) <= Sess(e, j) BY <3>1, <2>2, <1>5, HistoryFacts
        <5>4. AtMost(d, i, w) BY <5>1, <5>2, <5>3, <1>5 DEF LastServed
        <5>5. Sess(d, i) <= Sess(d, w) BY <5>1, <5>2, <5>4, <1>5, OrderFacts
        <5>6. Sess(d, i) \in Nat /\ Sess(d, w) \in Nat BY <5>1, <5>2, <1>5, HistoryFacts
        <5>7. QED BY <5>1, <5>2, <5>5, <5>6, <3>1, <2>2
      <4>3. QED BY <4>1, <4>2
    <3>2. QED BY <3>1, <2>2
  <2>5. QED BY <2>1, <2>2, <2>3, <2>4, <1>5 DEF Supplied
<1>6. CASE ~(i \in DOMAIN d.revisions /\ IsServed(d, i))
  <2>1. Justified(d, e, i) BY <1>2, <1>6 DEF Goes, Opened
  <2>2. Src(e, i) # 0 /\ i \notin Leaders(e) BY <1>2 DEF Behind, IsForwarded
  <2>3. PICK v, s : v = Src(e, i) /\ s = Sess(e, i) OBVIOUS
  <2>4. ASSUME v \in DOMAIN d.revisions, LastServed(d, s, v),
               NEW j \in DOMAIN e.revisions, Behind(e, j), Sess(e, j) = s
        PROVE  AtMost(e, Src(e, j), v)
    <3>1. PICK w : w = Src(e, j) OBVIOUS
    <3>2. w \in DOMAIN d.revisions /\ IsServed(d, w) /\ Sess(d, w) <= s
      <4>1. CASE j \in DOMAIN d.revisions
        <5>1. Behind(d, j) /\ w = Src(d, j) /\ Sess(d, j) = s BY <4>1, <3>1, <2>4, <1>3
        <5>2. w \in DOMAIN d.revisions /\ IsServed(d, w)
          BY <4>1, <5>1, HistoryFacts DEF Behind, IsForwarded
        <5>3. Sess(d, w) < s BY <4>1, <5>1, <1>1 DEF ForwardedFrom, Behind
        <5>4. Sess(d, w) \in Nat /\ s \in Nat BY <4>1, <5>1, <5>2, HistoryFacts
        <5>5. QED BY <5>2, <5>3, <5>4
      <4>2. CASE j \notin DOMAIN d.revisions BY <4>2, <3>1, <2>4, <1>4 DEF LastServed
      <4>3. QED BY <4>1, <4>2
    <3>3. AtMost(d, w, v) BY <3>2, <2>4 DEF LastServed
    <3>4. QED BY <3>1, <3>2, <3>3, <2>4, <1>3
  <2>5. QED BY <2>1, <2>2, <2>3, <2>4 DEF Justified
<1>7. QED BY <1>5, <1>6

LEMMA LineageKept ==
  ASSUME NEW d, NEW e, Evolves(d, e), NEW f, Lineage(f, e) PROVE Lineage(f, d)
  BY HistoryKept DEF Lineage

LEMMA DistinctGoes ==
  ASSUME NEW d, NEW e, WellFormed(d), WellFormed(e), NEW P, NEW c \in Nat, Ordered(d, P, c),
         Goes(d, e, P, c), Apart(d), NEW f, Lineage(f, e), Distinct(d, f)
  PROVE  Distinct(e, f)
<1>1. Evolves(d, e) /\ Continued(d, e, P, c) /\ Latest(d) /\ Sourced(d) /\ PromotedFrom(d) /\ DrawnAfter(d, P)
  BY DEF Goes, Ordered
<1>2. Lineage(f, d) BY <1>1, LineageKept
<1>3. SUFFICES ASSUME NEW x \in Leaders(e), NEW i \in DOMAIN e.revisions, i < x, Kin(e, f, i, x)
               PROVE  FALSE
  BY DEF Distinct
<1>4. x \in DOMAIN e.revisions BY DEF Leaders
<1>5. \A j \in DOMAIN d.revisions :
        /\ Sess(e, j) = Sess(d, j) /\ Src(e, j) = Src(d, j)
        /\ (j \in Leaders(e) <=> j \in Leaders(d))
  BY <1>1, ContinuedFacts
<1>6. CASE x \in DOMAIN d.revisions
  <2>1. i \in DOMAIN d.revisions
    <3>1. SUFFICES ASSUME i \notin DOMAIN d.revisions PROVE FALSE OBVIOUS
    <3>2. x < i BY <3>1, <1>1, <1>6, ContinuedFacts
    <3>3. QED BY <3>2, <1>3, <1>4, HistoryFacts
  <2>2. x \in Leaders(d) /\ Kin(d, f, i, x) BY <2>1, <1>3, <1>5, <1>6 DEF Kin
  <2>3. QED BY <2>1, <2>2, <1>3 DEF Distinct
<1>7. CASE x \notin DOMAIN d.revisions
  <2>1. PICK s, y, at : Registers(d, e, P, c, x, s, y, at) BY <1>1, <1>4, <1>7, ContinuedFacts
  <2>2. /\ Adds(d, e, x, s, y, at) /\ Joins(d, P, c, s, y, at) /\ s \in Nat
        /\ y # 0 => Mem(e, x) = Mem(d, y)
        /\ y # 0 /\ Sess(d, y) = s => Sess(d, d.current) > s
    BY <2>1 DEF Registers
  <2>3. /\ Sess(e, x) = s /\ Src(e, x) = y /\ Rec(e, x) = at
        /\ \A j \in DOMAIN d.revisions : ~(Sess(d, j) = s /\ Src(d, j) = y /\ Mem(d, j) = Mem(e, x))
    BY <2>2 DEF Adds
  <2>4. i \in DOMAIN d.revisions
    <3>1. i # x BY <1>3, <1>4, HistoryFacts
    <3>2. QED BY <3>1, <1>1, <1>7, <1>4, ContinuedFacts
  <2>5. Sess(d, i) = s /\ f[i] = f[x] BY <2>3, <2>4, <1>3, <1>5 DEF Kin
  <2>6. ~(Sess(d, d.current) > s) BY <2>2, <1>1, <1>3, AddsFacts
  <2>7. Sess(d, d.current) <= s BY <2>2, <2>6, HistoryFacts
  <2>8. CASE Asked(c, y, at)
    <3>1. f[x] = x BY <2>3, <2>8, <1>4 DEF Asked, Lineage
    <3>2. f[i] \in DOMAIN d.revisions BY <2>4, <1>1, <1>2, OriginFacts
    <3>3. QED BY <3>1, <3>2, <2>5, <1>7
  <2>9. CASE Forwarded(d, c, s, y, at)
    <3>1. y = d.current /\ Sess(d, y) < s BY <2>7, <2>9 DEF Forwarded, Continues
    <3>2. AtMost(d, i, d.current) BY <2>4, <1>1 DEF Latest
    <3>3. Sess(d, i) <= Sess(d, d.current) BY <3>2, <2>4, OrderFacts, HistoryFacts
    <3>4. Sess(d, d.current) \in Nat BY HistoryFacts
    <3>5. QED BY <3>1, <3>3, <3>4, <2>2, <2>5
  <2>10. CASE Promotes(d, P, s, y, at)
    <3>1. y \in Leaders(d) /\ Even(at) /\ at \in Nat BY <2>10 DEF Promotes, Ordered, Clocks
    <3>2. y \in DOMAIN d.revisions /\ Drawn(d, P, y, at) BY <3>1, <2>10 DEF Leaders, Promotes, Drawn
    <3>3. y # 0 /\ Sess(d, y) \in Nat BY <3>2, HistoryFacts
    <3>4. s = Sess(d, y) + 1 BY <3>3, <2>2, <2>6, <2>10 DEF Promotes
    <3>5. f[x] = f[y] BY <3>3, <2>3, <1>4 DEF Lineage
    <3>6. Src(d, i) # 0
      <4>1. SUFFICES ASSUME Src(d, i) = 0 PROVE FALSE OBVIOUS
      <4>2. f[i] = i BY <4>1, <2>4, <1>2 DEF Lineage
      <4>3. Sess(d, f[y]) <= Sess(d, y) BY <3>2, <1>1, <1>2, OriginFacts
      <4>4. QED BY <4>2, <4>3, <3>3, <3>4, <3>5, <2>5
    <3>7. PICK v : v = Src(d, i) OBVIOUS
    <3>8. /\ v \in DOMAIN d.revisions /\ f[v] = f[i] /\ Sess(d, v) <= s /\ Mem(d, v) = Mem(d, i)
          /\ Sess(d, v) \in Nat
      BY <3>6, <3>7, <2>4, <2>5, <1>1, <1>2, HistoryFacts DEF Lineage, Sourced
    <3>9. Sess(d, v) # s
      <4>1. SUFFICES ASSUME Sess(d, v) = s PROVE FALSE OBVIOUS
      <4>2. Beside(d, i) BY <4>1, <3>6, <3>7, <2>5 DEF Beside
      <4>3. QED BY <4>2, <2>4, <2>5, <2>6 DEF Apart
    <3>10. CASE IsPromotion(d, i)
      <4>1. v \in Leaders(d) /\ s \in {Sess(d, v), Sess(d, v) + 1}
        BY <3>7, <3>10, <2>4, <2>5, <1>1 DEF PromotedFrom
      <4>2. Sess(d, v) = Sess(d, y) BY <4>1, <3>3, <3>4, <3>8, <3>9
      <4>3. Kin(d, f, v, y) BY <4>2, <3>5, <3>8, <2>5 DEF Kin
      <4>4. v = y BY <4>1, <4>3, <3>1, LeadersAlone
      <4>5. QED BY <4>4, <3>3, <3>7, <3>8, <2>2, <2>3, <2>4, <2>5
    <3>11. CASE IsForwarded(d, i)
      <4>1. Later(e, x, i) BY <1>3 DEF Leaders
      <4>2. AtMost(e, i, x) BY <4>1, <1>4, OrderFacts
      <4>3. Rec(e, i) <= Rec(e, x) BY <4>2, <1>3, <1>4, OrderFacts DEF Kin
      <4>4. Rec(e, i) = Rec(d, i) /\ Rec(d, i) \in Nat BY <2>4, <1>1, ContinuedFacts, HistoryFacts
      <4>5. Rec(d, i) # at BY <3>1, <3>11 DEF IsForwarded
      <4>6. Rec(d, i) < at BY <4>3, <4>4, <4>5, <3>1, <2>3
      <4>7. ~IsPromotion(d, i) BY <3>11 DEF IsPromotion, IsForwarded
      <4>8. AtMost(d, i, y) BY <4>6, <4>7, <3>1, <3>2, <2>4, <1>1 DEF DrawnAfter
      <4>9. Sess(d, i) <= Sess(d, y) BY <4>8, <3>2, <2>4, OrderFacts
      <4>10. QED BY <4>9, <3>3, <3>4, <2>5
    <3>12. QED BY <3>6, <3>10, <3>11 DEF IsPromotion, IsForwarded
  <2>11. QED BY <2>2, <2>8, <2>9, <2>10 DEF Joins
<1>8. QED BY <1>6, <1>7

-----------------------------------------------------------------------------
(* The plans, and the claims that run while their session is served.          *)

PlansServed(d, pl) ==
  \A p \in pl :
    p.revision \in DOMAIN d.revisions /\ Sess(d, p.revision) = p.session /\ IsServed(d, p.revision)

(* Of a change, a plan is of the last revision that is served.                *)
PlansLast(d, f, pl) ==
  \A p \in pl : \A i \in DOMAIN d.revisions :
    IsServed(d, i) /\ Kin(d, f, i, p.revision) => AtMost(d, i, p.revision)

(* A new plan is of the last of its session.                                  *)
NewPlans(e, pl, ql) ==
  /\ pl \subseteq ql
  /\ \A p \in ql \ pl :
       /\ p.revision \in DOMAIN e.revisions /\ Sess(e, p.revision) = p.session
       /\ IsServed(e, p.revision)
       /\ \A i \in DOMAIN e.revisions :
            IsServed(e, i) /\ Sess(e, i) = p.session => AtMost(e, i, p.revision)

LEMMA PlansServedGo ==
  ASSUME NEW d, NEW e, Evolves(d, e), NEW pl, NEW ql, PlansServed(d, pl), NewPlans(e, pl, ql)
  PROVE  PlansServed(e, ql)
<1> SUFFICES ASSUME NEW p \in ql
             PROVE  /\ p.revision \in DOMAIN e.revisions /\ Sess(e, p.revision) = p.session
                    /\ IsServed(e, p.revision)
  BY DEF PlansServed
<1>1. CASE p \in pl
  <2>1. p.revision \in DOMAIN d.revisions /\ Sess(d, p.revision) = p.session /\ IsServed(d, p.revision)
    BY <1>1 DEF PlansServed
  <2>2. QED BY <2>1, HistoryKept
<1>2. CASE p \notin pl BY <1>2 DEF NewPlans
<1>3. QED BY <1>1, <1>2

LEMMA PlansLastGo ==
  ASSUME NEW d, NEW e, WellFormed(d), WellFormed(e), NEW P, NEW c \in Nat, Ordered(e, P, c),
         Goes(d, e, P, c), NEW f, Related(e, f), Supplied(e),
         NEW pl, NEW ql, PlansServed(d, pl), PlansLast(d, f, pl), NewPlans(e, pl, ql)
  PROVE  PlansLast(e, f, ql)
<1>1. Evolves(d, e) /\ Sourced(e) BY DEF Goes, Ordered
<1>2. SUFFICES ASSUME NEW p \in ql, NEW i \in DOMAIN e.revisions,
                      IsServed(e, i), Kin(e, f, i, p.revision)
               PROVE  AtMost(e, i, p.revision)
  BY DEF PlansLast
<1>3. PICK y : y = p.revision OBVIOUS
<1>4. Kin(e, f, i, y) /\ Kin(e, f, y, i) BY <1>2, <1>3 DEF Kin
<1>5. CASE p \notin pl
  <2>1. Sess(e, y) = p.session BY <1>3, <1>5 DEF NewPlans
  <2>2. Sess(e, i) = p.session BY <2>1, <1>4 DEF Kin
  <2>3. QED BY <2>2, <1>2, <1>5 DEF NewPlans
<1>6. CASE p \in pl
  <2>1. y \in DOMAIN d.revisions /\ IsServed(d, y) BY <1>3, <1>6 DEF PlansServed
  <2>2. y \in DOMAIN e.revisions /\ Sess(e, y) = Sess(d, y) /\ IsServed(e, y) BY <2>1, <1>1, HistoryKept
  <2>3. CASE i \in DOMAIN d.revisions /\ IsServed(d, i)
    <3>1. Sess(e, i) = Sess(d, i) BY <2>3, <1>1, HistoryKept
    <3>2. Kin(d, f, i, y) BY <3>1, <2>2, <1>4 DEF Kin
    <3>3. AtMost(d, i, y) BY <3>2, <2>3, <1>3, <1>6 DEF PlansLast
    <3>4. QED BY <3>3, <2>1, <2>3, <1>1, <1>3, OrderKept
  <2>4. CASE ~(i \in DOMAIN d.revisions /\ IsServed(d, i))
    <3>1. Justified(d, e, i) BY <2>4, <1>2 DEF Goes, Opened
    <3>2. CASE Src(e, i) = 0
      <4>1. y = i BY <3>2, <2>2, <1>1, <1>4, RootAlone
      <4>2. QED BY <4>1, <1>3 DEF AtMost
    <3>3. CASE i \in Leaders(e) BY <3>3, <2>2, <1>3, <1>4, LeaderFirst
    <3>4. CASE Src(e, i) \in Leaders(e) /\ Sess(e, i) = Sess(e, Src(e, i)) + 1
      <4>1. PICK v \in Leaders(e) : v = Src(e, i) /\ Sess(e, i) = Sess(e, v) + 1 BY <3>4
      <4>2. QED BY <4>1, <2>2, <1>3, <1>4, PromotedFirst
    <3>5. CASE /\ Src(e, i) \in DOMAIN d.revisions /\ LastServed(d, Sess(e, i), Src(e, i))
               /\ Sess(e, Src(e, i)) < Sess(e, i)
      <4>1. PICK v \in DOMAIN d.revisions :
              v = Src(e, i) /\ LastServed(d, Sess(e, i), v) /\ Sess(e, v) < Sess(e, i)
        BY <3>5
      <4>2. Sess(e, i) = Sess(d, y) /\ Sess(e, v) = Sess(d, v) BY <4>1, <2>2, <1>1, <1>4, HistoryKept DEF Kin
      <4>3. Sess(d, y) \in Nat /\ Sess(d, v) \in Nat BY <4>1, <2>1, HistoryFacts
      <4>4. AtMost(d, y, v) BY <4>1, <4>2, <4>3, <2>1 DEF LastServed
      <4>5. Sess(d, y) <= Sess(d, v) BY <4>1, <4>4, <2>1, OrderFacts
      <4>6. QED BY <4>1, <4>2, <4>3, <4>5
    <3>6. QED BY <3>1, <3>2, <3>3, <3>4, <3>5 DEF Justified
  <2>5. QED BY <2>3, <2>4
<1>7. QED BY <1>5, <1>6

(* A session is served from its activation on.                                *)
Timely(d, t) == \A i \in DOMAIN d.revisions : IsServed(d, i) => t >= Activation(Sess(d, i))

(* The clocks of the claims.                                                  *)
Dated(d, P, t) ==
  \A o \in Lives(P) : o # None /\ Holds(P[o], d) /\ P[o].checked \in Nat /\ P[o].checked <= t
ReadInOrder(P) ==
  \A o, q \in Lives(P) : P[o].reading <= P[q].reading => P[o].checked <= P[q].checked

Planned(pl, s) == \E p \in pl : p.session = s

(* The row of the claim x runs, and is still that of o.                       *)
Works(d, x, o) ==
  LET row == d.revisions[x.revision].work[x.member][x.stage] IN
  row.status = "RUNNING" /\ row.owner = o

(* A claim made before its session was activated that finds it served finds a *)
(* plan, or the pointer at a later session.                                   *)
Settled(d, pl, s) == Planned(pl, s) \/ Sess(d, d.current) > s
Awaited(d, P, pl) ==
  \A o \in Lives(P) :
    /\ Works(d, P[o], o) /\ IsServed(d, P[o].revision)
    /\ P[o].checked < Activation(Sess(d, P[o].revision))
    => Settled(d, pl, Sess(d, P[o].revision))

(* Why a revision that gets a snapshot leaves no such claim without.          *)
Excused(e, P, pl, i) ==
  \/ NoneWarming(e, i)
  \/ Settled(e, pl, Sess(e, i))
  \/ \A o \in Lives(P) : P[o].revision = i => P[o].checked >= Activation(Sess(e, i))

LEMMA RunningWarms ==
  ASSUME NEW d, WellFormed(d), Dropped(d) = {}, NEW x, NEW o, Holds(x, d), Works(d, x, o)
  PROVE  ~NoneWarming(d, x.revision) /\ d.revisions[x.revision].ready[x.member] = "WARMING"
<1>1. PICK r, m, k : r = x.revision /\ m = x.member /\ k = x.stage OBVIOUS
<1>2. /\ r \in DOMAIN d.revisions /\ m \in DOMAIN d.revisions[r].work /\ k \in 1..Stages
      /\ d.revisions[r].work[m][k].status = "RUNNING"
  BY Zenon, <1>1 DEF Holds, Works
<1>3. Agrees(d.revisions[r], m) BY <1>2 DEF WellFormed, Agreement
<1>4. /\ Fits(d.revisions[r], SourceBase(d, d.revisions[r].source))
      /\ DOMAIN d.revisions[r].work = d.revisions[r].members \ SourceBase(d, d.revisions[r].source)
  BY <1>2, RevisionFacts
<1>5. m \in d.revisions[r].members /\ d.revisions[r].ready[m] \in Readiness /\ InOrder(d.revisions[r].work[m])
  BY <1>2, <1>4 DEF Fits
<1>6. d.revisions[r].ready[m] # "READY" BY <1>2, <1>3 DEF Agrees, Prepared
<1>7. d.revisions[r].ready[m] # "FAILED"
  <2>1. SUFFICES ASSUME NEW j \in 1..Stages, d.revisions[r].work[m][j].status = "BLOCKED" PROVE FALSE
    BY <1>3 DEF Agrees
  <2>2. j # k BY <1>2, <2>1
  <2>3. CASE j < k
    <3>1. j \in 1..(k - 1) BY <2>3, <1>2
    <3>2. QED BY <3>1, <2>1, <1>2, <1>5 DEF InOrder
  <2>4. CASE k < j
    <3>1. k \in 1..(j - 1) BY <2>4, <1>2, <2>1
    <3>2. QED BY <3>1, <2>1, <1>2, <1>5 DEF InOrder
  <2>5. QED BY <2>2, <2>3, <2>4, <1>2, <2>1
<1>8. d.revisions[r].ready[m] = "WARMING" BY <1>5, <1>6, <1>7 DEF Readiness
<1>9. QED BY <1>1, <1>5, <1>8 DEF NoneWarming, Mem

(* A claim that runs did so before.                                           *)
LEMMA WorkedBefore ==
  ASSUME NEW d, NEW e, NEW q, RowsKept(d, e, q), NEW x, NEW o, o # q, Holds(x, d), Works(e, x, o)
  PROVE  Works(d, x, o)
<1>1. PICK r, m, k : r = x.revision /\ m = x.member /\ k = x.stage OBVIOUS
<1>2. /\ r \in DOMAIN d.revisions /\ m \in DOMAIN d.revisions[r].work /\ k \in 1..Stages
  BY <1>1 DEF Holds
<1>3. e.revisions[r].work[m][k].status = "RUNNING" /\ e.revisions[r].work[m][k].owner = o
  BY Zenon, <1>1 DEF Works
<1>4. e.revisions[r].work[m][k] = d.revisions[r].work[m][k] BY Zenon, <1>2, <1>3 DEF RowsKept
<1>5. QED BY Zenon, <1>1, <1>3, <1>4 DEF Works

LEMMA SettledKept ==
  ASSUME NEW d, NEW e, WellFormed(d), WellFormed(e), Evolves(d, e), NEW pl, NEW ql, pl \subseteq ql,
         NEW s \in Nat, Settled(d, pl, s)
  PROVE  Settled(e, ql, s)
<1>1. Sess(d, d.current) <= Sess(e, e.current)
  <2>1. Sess(d, d.current) \in Nat /\ Sess(e, e.current) \in Nat BY HistoryFacts
  <2>2. Ahead(d.revisions[d.current], e.revisions[e.current]) BY DEF Evolves
  <2>3. QED BY <2>1, <2>2 DEF Ahead, Sess
<1>2. Sess(d, d.current) \in Nat /\ Sess(e, e.current) \in Nat BY HistoryFacts
<1>3. QED BY <1>1, <1>2 DEF Settled, Planned

LEMMA AwaitedGoes ==
  ASSUME NEW d, NEW e, WellFormed(d), WellFormed(e), Dropped(e) = {}, Evolves(d, e), RowsKept(d, e, None),
         NEW P, NEW Q, Fewer(P, Q), NEW t, Dated(d, P, t), NEW pl, NEW ql, pl \subseteq ql,
         Awaited(d, P, pl), \A i \in Opened(d, e) : Excused(e, Q, ql, i)
  PROVE  Awaited(e, Q, ql)
<1> SUFFICES ASSUME NEW o \in Lives(Q), NEW x, x = Q[o], NEW y, y = x.revision,
                    Works(e, x, o), IsServed(e, y), x.checked < Activation(Sess(e, y))
             PROVE  Settled(e, ql, Sess(e, y))
  BY DEF Awaited
<1>1. PICK z : z = P[o] OBVIOUS
<1>2. /\ o \in Lives(P) /\ z.revision = y /\ z.checked = x.checked
      /\ z.member = x.member /\ z.stage = x.stage
  BY <1>1 DEF Fewer
<1>3. o # None /\ Holds(z, d) /\ z.checked \in Nat BY <1>1, <1>2 DEF Dated
<1>4. Works(e, z, o) BY <1>2 DEF Works
<1>5. Works(d, z, o) BY <1>3, <1>4, WorkedBefore
<1>6. y \in DOMAIN d.revisions BY <1>2, <1>3 DEF Holds
<1>7. y \in DOMAIN e.revisions /\ Sess(e, y) = Sess(d, y) /\ Sess(d, y) \in Nat
  BY <1>6, HistoryKept, HistoryFacts
<1>8. CASE IsServed(d, y)
  <2>1. Settled(d, pl, Sess(d, y)) BY <1>1, <1>2, <1>5, <1>7, <1>8 DEF Awaited
  <2>2. QED BY <2>1, <1>7, SettledKept
<1>9. CASE ~IsServed(d, y)
  <2>1. Excused(e, Q, ql, y) BY <1>7, <1>9 DEF Opened
  <2>2. Holds(z, e) BY <1>3, HoldsKept
  <2>3. ~NoneWarming(e, y) BY <2>2, <1>2, <1>4, RunningWarms
  <2>4. ~(\A p \in Lives(Q) : Q[p].revision = y => Q[p].checked >= Activation(Sess(e, y)))
    <3>1. Activation(Sess(e, y)) \in Int BY <1>7, DesiredAssumption DEF Activation
    <3>2. ~(x.checked >= Activation(Sess(e, y))) BY <3>1, <1>2, <1>3
    <3>3. QED BY <3>2
  <2>5. QED BY <2>1, <2>3, <2>4 DEF Excused
<1>10. QED BY <1>8, <1>9

(* A process that claims work reads a clock at which its session, if it is    *)
(* served, was activated.                                                     *)
LEMMA AwaitedClaims ==
  ASSUME NEW d, NEW e, WellFormed(d), WellFormed(e), NEW q, Passes(d, e, q, {}),
         NEW P, NEW Q, NEW t \in Nat, NEW at, Claims(P, Q, q, d.current, at), Q[q].checked = t,
         Dated(d, P, t), Timely(d, t), NEW pl, Awaited(d, P, pl)
  PROVE  Awaited(e, Q, pl)
<1>0. Evolves(d, e) /\ RowsKept(d, e, q) /\ DOMAIN e.revisions = DOMAIN d.revisions BY DEF Passes
<1> SUFFICES ASSUME NEW o \in Lives(Q), NEW x, x = Q[o], NEW y, y = x.revision,
                    Works(e, x, o), IsServed(e, y), x.checked < Activation(Sess(e, y))
             PROVE  Settled(e, pl, Sess(e, y))
  BY DEF Awaited
<1>1. CASE o = q
  <2>1. y = d.current /\ x.checked = t BY <1>1 DEF Claims
  <2>2. y \in DOMAIN d.revisions BY <2>1, HistoryFacts
  <2>3. IsServed(d, y) /\ Sess(e, y) = Sess(d, y) /\ Sess(d, y) \in Nat
    BY <2>2, <1>0, HistoryKept, HistoryFacts DEF Passes
  <2>4. t >= Activation(Sess(d, y)) BY <2>2, <2>3 DEF Timely
  <2>5. Activation(Sess(d, y)) \in Int BY <2>3, DesiredAssumption DEF Activation
  <2>6. QED BY <2>1, <2>3, <2>4, <2>5
<1>2. CASE o # q
  <2>1. PICK z : z = P[o] OBVIOUS
  <2>2. /\ o \in Lives(P) /\ z.revision = y /\ z.checked = x.checked
        /\ z.member = x.member /\ z.stage = x.stage
    BY <2>1, <1>2 DEF Claims
  <2>3. Holds(z, d) BY <2>1, <2>2 DEF Dated
  <2>4. Works(e, z, o) BY <2>2 DEF Works
  <2>5. Works(d, z, o) BY <2>3, <2>4, <1>0, <1>2, WorkedBefore
  <2>6. y \in DOMAIN d.revisions BY <2>2, <2>3 DEF Holds
  <2>7. IsServed(d, y) /\ Sess(e, y) = Sess(d, y) /\ Sess(d, y) \in Nat
    BY <2>6, <1>0, HistoryKept, HistoryFacts DEF Passes
  <2>8. Settled(d, pl, Sess(d, y)) BY <2>1, <2>2, <2>5, <2>7 DEF Awaited
  <2>9. QED BY <2>7, <2>8, <1>0, SettledKept
<1>3. QED BY <1>1, <1>2

-----------------------------------------------------------------------------
(* The discipline of the history, the claims and the plans, which every step  *)
(* keeps.                                                                     *)

Disciplined(d, P, c, pl, t) ==
  /\ Ordered(d, P, c) /\ Apart(d) /\ Supplied(d)
  /\ Timely(d, t) /\ ReadInOrder(P) /\ Awaited(d, P, pl) /\ PlansServed(d, pl)
  /\ \A f : Lineage(f, d) => Distinct(d, f) /\ PlansLast(d, f, pl)

(* No work is claimed.                                                        *)
Proceeds(d, e, P, Q, c, pl, ql, t) ==
  /\ Goes(d, e, P, c) /\ RowsKept(d, e, None) /\ Fewer(P, Q) /\ NewPlans(e, pl, ql)
  /\ \A i \in Opened(d, e) : t >= Activation(Sess(e, i)) /\ Excused(e, Q, ql, i)

LEMMA TimelyGoes ==
  ASSUME NEW d, NEW e, WellFormed(d), WellFormed(e), Evolves(d, e), NEW t \in Nat, NEW u \in Nat, t <= u,
         Timely(d, t), \A i \in Opened(d, e) : t >= Activation(Sess(e, i))
  PROVE  Timely(e, u)
<1> SUFFICES ASSUME NEW i \in DOMAIN e.revisions, IsServed(e, i) PROVE u >= Activation(Sess(e, i))
  BY DEF Timely
<1>1. Sess(e, i) \in Nat BY HistoryFacts
<1>2. Activation(Sess(e, i)) \in Int BY <1>1, DesiredAssumption DEF Activation
<1>3. CASE i \in Opened(d, e) BY <1>2, <1>3
<1>4. CASE i \notin Opened(d, e)
  <2>1. i \in DOMAIN d.revisions /\ IsServed(d, i) BY <1>4 DEF Opened
  <2>2. Sess(e, i) = Sess(d, i) BY <2>1, HistoryKept
  <2>3. QED BY <2>1, <2>2, <1>2 DEF Timely
<1>5. QED BY <1>3, <1>4

LEMMA DisciplineGoes ==
  ASSUME NEW d, NEW e, WellFormed(d), WellFormed(e), Dropped(e) = {},
         NEW P, NEW Q, NEW c \in Nat, NEW pl, NEW ql, NEW t \in Nat, NEW u \in Nat, t <= u,
         Dated(d, P, t), Disciplined(d, P, c, pl, t), Proceeds(d, e, P, Q, c, pl, ql, t)
  PROVE  Disciplined(e, Q, c, ql, u)
<1>1. /\ Ordered(d, P, c) /\ Apart(d) /\ Supplied(d)
      /\ Timely(d, t) /\ ReadInOrder(P) /\ Awaited(d, P, pl) /\ PlansServed(d, pl)
  BY DEF Disciplined
<1>2. /\ Goes(d, e, P, c) /\ RowsKept(d, e, None) /\ Fewer(P, Q) /\ NewPlans(e, pl, ql)
      /\ \A i \in Opened(d, e) : t >= Activation(Sess(e, i))
      /\ \A i \in Opened(d, e) : Excused(e, Q, ql, i)
      /\ Evolves(d, e) /\ Continued(d, e, P, c)
  BY DEF Proceeds, Goes
<1>3. Ordered(e, P, c) BY <1>1, <1>2, OrderedContinues
<1>4. Ordered(e, Q, c)
  <2>1. PICK q, S : Passes(e, e, q, S) BY PassesNothing
  <2>2. QED BY <2>1, <1>2, <1>3, OrderedPasses
<1>5. Apart(e) /\ Supplied(e) BY <1>1, <1>2, ApartGoes, SuppliedGoes
<1>6. Timely(e, u) BY <1>1, <1>2, TimelyGoes
<1>7. ReadInOrder(Q) BY <1>1, <1>2 DEF ReadInOrder, Fewer
<1>8. pl \subseteq ql BY <1>2 DEF NewPlans
<1>9. Awaited(e, Q, ql) BY <1>1, <1>2, <1>8, AwaitedGoes
<1>10. PlansServed(e, ql) BY <1>1, <1>2, PlansServedGo
<1>11. ASSUME NEW f, Lineage(f, e) PROVE Distinct(e, f) /\ PlansLast(e, f, ql)
  <2>1. Lineage(f, d) BY <1>2, <1>11, LineageKept
  <2>2. Distinct(d, f) /\ PlansLast(d, f, pl) BY <2>1 DEF Disciplined
  <2>3. Distinct(e, f) BY <1>1, <1>2, <1>11, <2>2, DistinctGoes
  <2>4. Related(e, f) BY <2>3, <1>5, <1>11 DEF Related
  <2>5. PlansLast(e, f, ql) BY <2>2, <2>4, <1>1, <1>2, <1>3, <1>5, PlansLastGo
  <2>6. QED BY <2>3, <2>5
<1>12. QED BY <1>4, <1>5, <1>6, <1>7, <1>9, <1>10, <1>11 DEF Disciplined

LEMMA GoesPasses ==
  ASSUME NEW d, NEW e, NEW P, NEW c, NEW q, Passes(d, e, q, {})
  PROVE  Goes(d, e, P, c) /\ Opened(d, e) = {}
<1>1. Opened(d, e) = {} BY DEF Passes, Opened
<1>2. QED BY <1>1 DEF Passes, Goes, Continued

(* Work is claimed, after what has been claimed before.                       *)
LEMMA DisciplineClaims ==
  ASSUME NEW d, NEW e, WellFormed(d), WellFormed(e), Dropped(e) = {}, NEW q, Passes(d, e, q, {}),
         NEW P, NEW Q, NEW c \in Nat, NEW pl, NEW t \in Nat, NEW at, at = 2 * (c + 1),
         Claims(P, Q, q, d.current, at), Q[q].checked = t,
         Dated(d, P, t), Disciplined(d, P, c, pl, t)
  PROVE  Disciplined(e, Q, c + 1, pl, t)
<1>1. /\ Ordered(d, P, c) /\ Apart(d) /\ Supplied(d)
      /\ Timely(d, t) /\ ReadInOrder(P) /\ Awaited(d, P, pl) /\ PlansServed(d, pl)
  BY DEF Disciplined
<1>2. /\ Evolves(d, e) /\ DOMAIN e.revisions = DOMAIN d.revisions /\ e.current = d.current
      /\ Goes(d, e, P, c) /\ Opened(d, e) = {}
  BY GoesPasses DEF Passes
<1>3. Ordered(d, Q, c + 1) BY <1>1, OrderedClaims
<1>4. Ordered(e, Q, c + 1)
  <2>1. Fewer(Q, Q) BY DEF Fewer
  <2>2. QED BY <2>1, <1>3, OrderedPasses
<1>5. Apart(e) /\ Supplied(e) BY <1>1, <1>2, ApartGoes, SuppliedGoes
<1>6. Timely(e, t) BY <1>1, <1>2, TimelyGoes
<1>7. ReadInOrder(Q)
  <2>1. \A o \in Lives(P) : P[o].reading \in Nat /\ P[o].reading <= 2 * c /\ P[o].checked <= t
    BY <1>1 DEF Ordered, Clocks, Dated
  <2>2. SUFFICES ASSUME NEW o \in Lives(Q), NEW p \in Lives(Q), Q[o].reading <= Q[p].reading
                 PROVE  Q[o].checked <= Q[p].checked
    BY DEF ReadInOrder
  <2>3. CASE o = q /\ p = q BY <2>3
  <2>4. CASE o = q /\ p # q
    <3>1. Q[o].reading = at /\ Q[p].reading \in Nat /\ Q[p].reading <= 2 * c
      BY <2>1, <2>4 DEF Claims
    <3>2. QED BY <3>1, <2>2
  <2>5. CASE o # q /\ p = q
    <3>1. Q[p].checked = t /\ Q[o].checked <= t BY <2>1, <2>5 DEF Claims
    <3>2. QED BY <3>1
  <2>6. CASE o # q /\ p # q BY <2>2, <2>6, <1>1 DEF Claims, ReadInOrder
  <2>7. QED BY <2>3, <2>4, <2>5, <2>6
<1>8. Awaited(e, Q, pl) BY <1>1, AwaitedClaims
<1>9. NewPlans(e, pl, pl) BY DEF NewPlans
<1>10. PlansServed(e, pl) BY <1>1, <1>2, <1>9, PlansServedGo
<1>11. Ordered(e, P, c)
  <2>1. Fewer(P, P) BY DEF Fewer
  <2>2. QED BY <2>1, <1>1, OrderedPasses
<1>12. ASSUME NEW f, Lineage(f, e) PROVE Distinct(e, f) /\ PlansLast(e, f, pl)
  <2>1. Lineage(f, d) BY <1>2, <1>12, LineageKept
  <2>2. Distinct(d, f) /\ PlansLast(d, f, pl) BY <2>1 DEF Disciplined
  <2>3. Distinct(e, f) BY <1>1, <1>2, <1>12, <2>2, DistinctGoes
  <2>4. Related(e, f) BY <2>3, <1>5, <1>12 DEF Related
  <2>5. PlansLast(e, f, pl) BY <2>2, <2>4, <1>1, <1>2, <1>5, <1>9, <1>11, PlansLastGo
  <2>6. QED BY <2>3, <2>5
<1>13. QED BY <1>4, <1>5, <1>6, <1>7, <1>8, <1>10, <1>12 DEF Disciplined

(* Two plans of a change are of one revision.                                 *)
LEMMA DisciplinedPlans ==
  ASSUME NEW d, WellFormed(d), NEW P, NEW c, NEW pl, NEW t, Disciplined(d, P, c, pl, t),
         NEW f, Lineage(f, d), NEW p \in pl, NEW q \in pl,
         p.session = q.session, f[p.revision] = f[q.revision]
  PROVE  p.revision = q.revision
<1>1. PlansServed(d, pl) /\ PlansLast(d, f, pl) BY DEF Disciplined
<1>2. PICK i, j : i = p.revision /\ j = q.revision OBVIOUS
<1>3. /\ i \in DOMAIN d.revisions /\ Sess(d, i) = p.session /\ IsServed(d, i)
      /\ j \in DOMAIN d.revisions /\ Sess(d, j) = q.session /\ IsServed(d, j)
  BY <1>1, <1>2 DEF PlansServed
<1>4. Kin(d, f, i, j) /\ Kin(d, f, j, i) BY <1>2, <1>3 DEF Kin
<1>5. AtMost(d, i, j) /\ AtMost(d, j, i) BY <1>1, <1>2, <1>3, <1>4 DEF PlansLast
<1>6. QED BY <1>2, <1>3, <1>5, OrderFacts

-----------------------------------------------------------------------------
(* What the operators do to it.                                               *)

Sound(d, P, c, pl, t) == WellFormed(d) /\ Dated(d, P, t) /\ Disciplined(d, P, c, pl, t)

LEMMA NoneDropped ==
  ASSUME NEW d, NEW e, WellFormed(d), Evolves(d, e), Dropped(e) = {} PROVE Dropped(d) = {}
  BY DroppedGrows

LEMMA SoundGoes ==
  ASSUME NEW d, NEW P, NEW c \in Nat, NEW pl, NEW t \in Nat, Sound(d, P, c, pl, t),
         NEW e, WellFormed(e), Dropped(e) = {}, NEW ql, Proceeds(d, e, P, P, c, pl, ql, t)
  PROVE  Sound(e, P, c, ql, t)
<1>1. WellFormed(d) /\ Dated(d, P, t) /\ Disciplined(d, P, c, pl, t) BY DEF Sound
<1>2. Evolves(d, e) BY DEF Proceeds, Goes
<1>3. Dated(e, P, t) BY <1>1, <1>2, HoldsKept DEF Dated
<1>4. t <= t OBVIOUS
<1>5. Disciplined(e, P, c, ql, t) BY <1>1, <1>4, DisciplineGoes
<1>6. QED BY <1>3, <1>5 DEF Sound

LEMMA SoundPasses ==
  ASSUME NEW d, NEW P, NEW c \in Nat, NEW pl, NEW t \in Nat, Sound(d, P, c, pl, t),
         NEW e, WellFormed(e), Dropped(e) = {}, Passes(d, e, None, {})
  PROVE  Sound(e, P, c, pl, t)
<1>1. Goes(d, e, P, c) /\ Opened(d, e) = {} BY GoesPasses
<1>2. RowsKept(d, e, None) BY DEF Passes
<1>3. Fewer(P, P) /\ NewPlans(e, pl, pl) BY DEF Fewer, NewPlans
<1>4. Proceeds(d, e, P, P, c, pl, pl, t) BY <1>1, <1>2, <1>3 DEF Proceeds
<1>5. QED BY <1>4, SoundGoes

(* A snapshot is made.                                                        *)
Makes(d, e, r, at, partial) ==
  /\ Passes(d, e, None, {r}) /\ Opened(d, e) \subseteq {r}
  /\ r \in Opened(d, e) =>
       /\ ~IsServed(d, r) /\ at >= Activation(Sess(d, r))
       /\ ~partial => NoneWarming(e, r)
       /\ e.revisions[r].snapshot = Having(d.revisions[r], "READY")
  /\ r \notin Opened(d, e) => Passes(d, e, None, {})
  /\ \A i \in DOMAIN d.revisions : NoneWarming(d, i) <=> NoneWarming(e, i)
  /\ \A i \in DOMAIN d.revisions : e.revisions[i].ready = d.revisions[i].ready

LEMMA ReconciledOpens ==
  ASSUME NEW d, WellFormed(d), NEW r \in DOMAIN d.revisions,
         NEW at, NEW partial \in BOOLEAN, NEW fresh, NEW e, e = Reconciled(d, r, at, partial, fresh)
  PROVE  WellFormed(e) /\ Makes(d, e, r, at, partial)
<1>1. WellFormed(e) /\ Settles(d, e, r) BY ReconciledFacts
<1>2. r \in {r} OBVIOUS
<1>3. /\ Passes(d, e, None, {r})
      /\ IsServed(e, r) /\ ~IsServed(d, r) =>
           at >= Activation(Sess(d, r)) /\ (partial \/ NoneWarming(e, r))
  BY <1>2, ReconciledPasses
<1>4. Evolves(d, e) /\ DOMAIN e.revisions = DOMAIN d.revisions BY <1>3 DEF Passes
<1>5. Opened(d, e) \subseteq {r} BY <1>3 DEF Passes, Opened
<1>6. r \in Opened(d, e) <=> IsServed(e, r) /\ ~IsServed(d, r) BY <1>4 DEF Opened
<1>7. r \in Opened(d, e) => e.revisions[r].snapshot = Having(d.revisions[r], "READY")
  BY <1>1, <1>6 DEF Settles, IsServed
<1>8. r \notin Opened(d, e) => Passes(d, e, None, {}) BY <1>3, <1>4, <1>6 DEF Passes
<1>9. \A i \in DOMAIN d.revisions : e.revisions[i].ready = d.revisions[i].ready
  BY <1>1 DEF Settles, Around
<1>10. \A i \in DOMAIN d.revisions : NoneWarming(d, i) <=> NoneWarming(e, i)
  BY <1>4, <1>9, HistoryKept DEF NoneWarming
<1>11. QED BY <1>1, <1>3, <1>5, <1>6, <1>7, <1>8, <1>9, <1>10 DEF Makes

LEMMA JustifiedKept ==
  ASSUME NEW d, NEW e, WellFormed(d), WellFormed(e), Evolves(d, e), NEW i \in DOMAIN d.revisions,
         Justified(d, d, i)
  PROVE  Justified(d, e, i)
<1>1. i \in DOMAIN e.revisions /\ Src(e, i) = Src(d, i) /\ Sess(e, i) = Sess(d, i) BY HistoryKept
<1>2. i \in Leaders(e) <=> i \in Leaders(d) BY LeadersKept
<1>3. CASE Src(d, i) = 0 BY <1>1, <1>3 DEF Justified
<1>4. CASE Src(d, i) # 0
  <2>1. PICK v \in DOMAIN d.revisions : v = Src(d, i) BY <1>4, HistoryFacts
  <2>2. Sess(e, v) = Sess(d, v) /\ (v \in Leaders(e) <=> v \in Leaders(d)) BY <2>1, HistoryKept, LeadersKept
  <2>3. QED BY <2>1, <2>2, <1>1, <1>2, <1>4 DEF Justified
<1>5. QED BY <1>3, <1>4

LEMMA SoundReconciled ==
  ASSUME NEW d, NEW P, NEW c \in Nat, NEW pl, NEW t \in Nat, Sound(d, P, c, pl, t),
         NEW r \in DOMAIN d.revisions, NEW at, NEW partial \in BOOLEAN, NEW fresh,
         NEW e, e = Reconciled(d, r, at, partial, fresh), Dropped(e) = {},
         NEW ql, NewPlans(e, pl, ql),
         r \in Opened(d, e) =>
           /\ Justified(d, d, r)
           /\ at >= Activation(Sess(d, r)) => t >= Activation(Sess(d, r))
           /\ partial => Excused(e, P, ql, r)
  PROVE  Sound(e, P, c, ql, t)
<1>1. WellFormed(d) BY DEF Sound
<1>2. WellFormed(e) /\ Makes(d, e, r, at, partial) BY <1>1, ReconciledOpens
<1>3. Evolves(d, e) /\ RowsKept(d, e, None) BY <1>2 DEF Makes, Passes
<1>4. ASSUME NEW i \in Opened(d, e)
      PROVE  Justified(d, e, i) /\ t >= Activation(Sess(e, i)) /\ Excused(e, P, ql, i)
  <2>1. i = r BY <1>2 DEF Makes
  <2>2. Sess(e, r) = Sess(d, r) BY <1>3, HistoryKept
  <2>3. Justified(d, e, r) BY <2>1, <1>1, <1>2, <1>3, JustifiedKept
  <2>4. Excused(e, P, ql, r) BY <2>1, <1>2 DEF Makes, Excused
  <2>5. QED BY <2>1, <2>2, <2>3, <2>4, <1>2 DEF Makes
<1>5. Goes(d, e, P, c) BY <1>2, <1>3, <1>4 DEF Makes, Goes, Continued, Passes
<1>6. Fewer(P, P) BY DEF Fewer
<1>7. Proceeds(d, e, P, P, c, pl, ql, t) BY <1>3, <1>4, <1>5, <1>6 DEF Proceeds
<1>8. QED BY <1>2, <1>7, SoundGoes

(* A revision is recorded, unless it is there.                                *)
Joining(d, P, c, s, y, members, at) ==
  /\ Joins(d, P, c, s, y, at) /\ s \in Nat /\ y \in Nat
  /\ y # 0 => members = Mem(d, y)
  /\ y # 0 /\ Sess(d, y) = s => Sess(d, d.current) > s

LEMMA GrowsContinues ==
  ASSUME NEW d, NEW e, NEW P, NEW c, NEW S, NEW x, NEW s, NEW y, NEW members, NEW at,
         Grows(d, e, S, x, s, y, at), Joining(d, P, c, s, y, members, at), Mem(e, x) = members
  PROVE  Evolves(d, e) /\ Continued(d, e, P, c) /\ Opened(d, e) \subseteq S /\ RowsKept(d, e, None)
<1>1. s \in Nat BY DEF Joining
<1>2. Adds(d, e, x, s, y, at) => Registers(d, e, P, c, x, s, y, at)
  BY <1>1 DEF Joining, Registers
<1>3. Continued(d, e, P, c) BY <1>2 DEF Grows, Continued
<1>4. QED BY <1>3 DEF Grows, Opened

(* x is there now, as it was asked for, and the others are as they were.      *)
Adopts(d, e, x, s, y, members, at) ==
  /\ Evolves(d, e) /\ Grows(d, e, {}, x, s, y, at) /\ Mem(e, x) = members
  /\ \A i \in DOMAIN d.revisions : e.revisions[i] = d.revisions[i]

LEMMA SoundRecorded ==
  ASSUME NEW d, NEW P, NEW c \in Nat, NEW pl, NEW t \in Nat, Sound(d, P, c, pl, t),
         NEW s, NEW y, NEW members, NEW at,
         Joining(d, P, c, s, y, members, at), Recordable(d, s, y, members, at),
         NEW n, n = Recorded(d, s, y, members, at), NEW e, e = n.desired, NEW x, x = n.revision,
         Dropped(e) = {}
  PROVE  Sound(e, P, c, pl, t) /\ Adopts(d, e, x, s, y, members, at)
<1>1. WellFormed(d) /\ Latest(d) BY DEF Sound, Disciplined, Ordered
<1>2. y \in Nat BY DEF Joining
<1>3. WellFormed(e) /\ Records(d, e, x, s, y, members) BY <1>1, <1>2, RecordedFacts
<1>4. Grows(d, e, {}, x, s, y, at) /\ Mem(e, x) = members BY <1>1, <1>2, RecordedGrows
<1>5. Evolves(d, e) /\ Continued(d, e, P, c) /\ Opened(d, e) = {} /\ RowsKept(d, e, None)
  BY <1>4, GrowsContinues
<1>6. Goes(d, e, P, c) BY <1>5 DEF Goes
<1>7. Fewer(P, P) /\ NewPlans(e, pl, pl) BY DEF Fewer, NewPlans
<1>8. Proceeds(d, e, P, P, c, pl, pl, t) BY <1>5, <1>6, <1>7 DEF Proceeds
<1>9. Adopts(d, e, x, s, y, members, at) BY <1>3, <1>4, <1>5 DEF Adopts, Records
<1>10. QED BY <1>3, <1>8, <1>9, SoundGoes

-----------------------------------------------------------------------------
(* What the transactions of the operator and of the controller do to it.      *)

LEMMA LastServedKept ==
  ASSUME NEW d, NEW e, WellFormed(d), WellFormed(e), Evolves(d, e), NEW s, NEW y \in DOMAIN d.revisions,
         LastServed(d, s, y), Opened(d, e) \subseteq {y}
  PROVE  LastServed(e, s, y)
<1>1. IsServed(e, y) /\ Sess(e, y) = Sess(d, y) /\ y \in DOMAIN e.revisions BY HistoryKept DEF LastServed
<1>2. ASSUME NEW j \in DOMAIN e.revisions, IsServed(e, j), Sess(e, j) <= s PROVE AtMost(e, j, y)
  <2>1. CASE j \in DOMAIN d.revisions /\ IsServed(d, j)
    <3>1. Sess(d, j) <= s BY <2>1, <1>2, HistoryKept
    <3>2. AtMost(d, j, y) BY <2>1, <3>1 DEF LastServed
    <3>3. QED BY <2>1, <3>2, OrderKept
  <2>2. CASE ~(j \in DOMAIN d.revisions /\ IsServed(d, j))
    <3>1. j = y BY <2>2, <1>2 DEF Opened
    <3>2. QED BY <3>1 DEF AtMost
  <2>3. QED BY <2>1, <2>2
<1>3. QED BY <1>1, <1>2 DEF LastServed

(* The revision a session is served with.                                     *)
Chosen(e, s, r) ==
  /\ r \in DOMAIN e.revisions
  /\ \/ r = e.current
     \/ LastServed(e, s, r)
     \/ \E v \in DOMAIN e.revisions : Src(e, r) = v /\ Sess(e, v) < s /\ LastServed(e, s, v)

LEMMA RecordedChosen ==
  ASSUME NEW d, NEW e, WellFormed(d), WellFormed(e), Latest(d), Evolves(d, e), NEW s, NEW v, NEW r, NEW at,
         Continues(d, s, v), Sess(d, v) < s, Grows(d, e, {}, r, s, v, at)
  PROVE  Chosen(e, s, r)
<1>1. /\ r \in DOMAIN e.revisions /\ Sess(e, r) = s /\ Src(e, r) = v
      /\ v \in DOMAIN d.revisions /\ v \in DOMAIN e.revisions /\ Sess(e, v) = Sess(d, v)
  BY HistoryKept DEF Grows, Continues
<1>2. CASE Sess(d, d.current) <= s
  <2>1. v = d.current BY <1>2 DEF Continues
  <2>2. ~(DOMAIN e.revisions = DOMAIN d.revisions /\ e.current = d.current)
    <3>1. SUFFICES ASSUME DOMAIN e.revisions = DOMAIN d.revisions PROVE FALSE OBVIOUS
    <3>2. r \in DOMAIN d.revisions /\ Sess(d, r) = s BY <3>1, <1>1, HistoryKept
    <3>3. AtMost(d, r, v) BY <2>1, <3>2 DEF Latest
    <3>4. Sess(d, r) <= Sess(d, v) BY <3>2, <3>3, <1>1, OrderFacts
    <3>5. Sess(d, r) \in Nat /\ Sess(d, v) \in Nat BY <3>2, <1>1, HistoryFacts
    <3>6. QED BY <3>2, <3>4, <3>5
  <2>3. Adds(d, e, r, s, v, at) BY <2>2 DEF Grows
  <2>4. Sess(d, d.current) < s BY <2>1
  <2>5. r \in Leaders(e) BY <2>3, <2>4, AddsFacts
  <2>6. e.current = r BY <2>3, <2>5, AddsFacts
  <2>7. QED BY <2>6, <1>1 DEF Chosen
<1>3. CASE ~(Sess(d, d.current) <= s)
  <2>1. LastServed(d, s, v) BY <1>3 DEF Continues
  <2>2. Opened(d, e) \subseteq {v} BY DEF Grows, Opened
  <2>3. LastServed(e, s, v) BY <2>1, <2>2, <1>1, LastServedKept
  <2>4. QED BY <2>3, <1>1 DEF Chosen
<1>4. QED BY <1>2, <1>3

LEMMA SoundEnsured ==
  ASSUME now \in Nat, NEW d, NEW P, NEW c \in Nat, NEW pl, Sound(d, P, c, pl, now),
         NEW s \in Nat \ {0}, NEW v \in Effective(d, s), NEW at, at = 2 * c + 1, NEW fresh,
         NEW n, n = Ensured(d, v, s, at, fresh), NEW e, e = n.desired, NEW r, r = n.revision,
         Dropped(e) = {}
  PROVE  Sound(e, P, c, pl, now) /\ Chosen(e, s, r)
<1>1. WellFormed(d) /\ Latest(d) BY DEF Sound, Disciplined, Ordered
<1>2. Continues(d, s, v) /\ Sess(d, v) <= s BY <1>1, EffectiveContinues
<1>3. v \in DOMAIN d.revisions /\ v \in Nat /\ Sess(d, v) \in Nat BY <1>1, <1>2, HistoryFacts DEF Continues
<1>4. PICK g : g = Reconciled(d, v, now, FALSE, fresh) OBVIOUS
<1>5. WellFormed(g) /\ Makes(d, g, v, now, FALSE) BY <1>1, <1>3, <1>4, ReconciledOpens
<1>6. /\ Evolves(d, g) /\ DOMAIN g.revisions = DOMAIN d.revisions /\ g.current = d.current
      /\ Opened(d, g) \subseteq {v}
      /\ v \in Opened(d, g) => ~IsServed(d, v)
  BY <1>5 DEF Makes, Passes
<1>7. Sess(g, v) = Sess(d, v) /\ Sess(g, d.current) = Sess(d, d.current)
  BY <1>1, <1>3, <1>6, HistoryKept, HistoryFacts
<1>8. CASE Sess(d, v) = s
  <2>1. e = d /\ r = v BY <1>8 DEF Ensured, Sess
  <2>2. Chosen(d, s, v) BY <1>2, <1>3 DEF Chosen, Continues
  <2>3. QED BY <2>1, <2>2
<1>9. ASSUME Dropped(g) = {} PROVE Sound(g, P, c, pl, now)
  <2>1. v \in Opened(d, g) => Justified(d, d, v)
    <3>1. v \in Opened(d, g) => v = d.current BY <1>2, <1>6 DEF Continues, LastServed
    <3>2. d.current \in Leaders(d) BY <1>1, CurrentLeads
    <3>3. QED BY <3>1, <3>2 DEF Justified
  <2>2. NewPlans(g, pl, pl) BY DEF NewPlans
  <2>3. QED BY <2>1, <2>2, <1>3, <1>4, <1>9, SoundReconciled
<1>10. CASE Sess(d, v) # s /\ ~IsServed(g, v)
  <2>1. e = g /\ r = v BY <1>4, <1>10 DEF Ensured, Sess, IsServed
  <2>2. ~IsServed(d, v) BY <1>3, <1>6, <1>10, HistoryKept
  <2>3. v = g.current BY <2>2, <1>2, <1>6 DEF Continues, LastServed
  <2>4. Chosen(g, s, v) BY <2>3, <1>3, <1>6 DEF Chosen
  <2>5. QED BY <2>1, <2>4, <1>9
<1>11. CASE Sess(d, v) # s /\ IsServed(g, v)
  <2>1. PICK members : members = g.revisions[v].members OBVIOUS
  <2>2. n = Recorded(g, s, v, members, at) BY <2>1, <1>4, <1>11 DEF Ensured, Sess, IsServed
  <2>3. Sess(g, v) < s BY <1>2, <1>3, <1>7, <1>11
  <2>4. Continues(g, s, v)
    <3>1. CASE Sess(d, d.current) <= s BY <3>1, <1>2, <1>6, <1>7 DEF Continues
    <3>2. CASE ~(Sess(d, d.current) <= s)
      <4>1. LastServed(d, s, v) BY <3>2, <1>2 DEF Continues
      <4>2. LastServed(g, s, v) BY <4>1, <1>1, <1>3, <1>5, <1>6, LastServedKept
      <4>3. QED BY <3>2, <4>2, <1>3, <1>6, <1>7 DEF Continues
    <3>3. QED BY <3>1, <3>2
  <2>5. members \in Intents
    <3>1. Fits(g.revisions[v], SourceBase(g, g.revisions[v].source)) BY <1>3, <1>5, <1>6 DEF WellFormed
    <3>2. QED BY <2>1, <3>1 DEF Fits
  <2>6. Joining(g, P, c, s, v, members, at) /\ Recordable(g, s, v, members, at)
    <3>1. Joins(g, P, c, s, v, at) BY <2>3, <2>4 DEF Joins, Forwarded
    <3>2. Recordable(g, s, v, members, at)
      BY <2>5, <1>3, <1>6, <1>11 DEF Recordable, IsServed
    <3>3. members = Mem(g, v) BY <2>1 DEF Mem
    <3>4. Sess(g, v) # s BY <1>7, <1>11
    <3>5. QED BY <3>1, <3>2, <3>3, <3>4, <1>3 DEF Joining
  <2>7. Latest(g) BY <1>1, <1>5, LatestPasses DEF Makes
  <2>8. WellFormed(e) /\ Evolves(g, e)
    <3>1. WellFormed(n.desired) /\ Evolves(g, n.desired) BY <2>2, <2>6, <1>3, <1>5, RecordedFacts
    <3>2. QED BY <3>1
  <2>9. Dropped(g) = {} BY <2>8, <1>5, NoneDropped
  <2>10. Sound(g, P, c, pl, now) BY <2>9, <1>9
  <2>11. Sound(e, P, c, pl, now) /\ Grows(g, e, {}, r, s, v, at)
    <3>1. Adopts(g, e, r, s, v, members, at) /\ Sound(e, P, c, pl, now)
      BY <2>2, <2>6, <2>10, SoundRecorded
    <3>2. QED BY <3>1 DEF Adopts
  <2>12. Chosen(e, s, r) BY <2>3, <2>4, <2>7, <2>8, <2>11, <1>5, RecordedChosen
  <2>13. QED BY <2>11, <2>12
<1>12. QED BY <1>8, <1>10, <1>11

LEMMA SoundEnsure ==
  ASSUME now \in Nat, claims \in Nat, Sound(desired, proc, claims, plans, now),
         Ensure(Reading), Dropped(desired') = {}
  PROVE  Sound(desired', proc, claims, plans, now)
<1>1. PICK v \in Effective(desired, Session(now)), fresh \in BOOLEAN :
        LET after == Ensured(desired, v, Session(now), Reading, fresh).desired
        IN  WithinBound(after) /\ desired' = after
  BY DEF Ensure
<1>2. PICK s, at : s = Session(now) /\ at = Reading OBVIOUS
<1>3. PICK n : n = Ensured(desired, v, s, at, fresh) OBVIOUS
<1>4. desired' = n.desired BY <1>1, <1>2, <1>3
<1>5. s \in Nat \ {0} /\ at = 2 * claims + 1 /\ v \in Effective(desired, s)
  BY <1>2, SessionType DEF Reading
<1>6. QED BY <1>3, <1>4, <1>5, SoundEnsured

LEMMA SoundActivate ==
  ASSUME now \in Nat, claims \in Nat, Sound(desired, proc, claims, plans, now),
         Activate(Reading), Dropped(desired') = {}
  PROVE  Sound(desired', proc, claims, plans', now)
<1>1. PICK v \in Effective(desired, Session(now)), fresh \in BOOLEAN :
        LET ensured == Ensured(desired, v, Session(now), Reading, fresh)
            after == Reconciled(ensured.desired, ensured.revision, now, TRUE, fresh)
        IN  /\ after.revisions[ensured.revision].snapshot # {}
            /\ after.revisions[ensured.revision].session = Session(now)
            /\ desired' = after
            /\ plans' = plans \cup {[session |-> Session(now), revision |-> ensured.revision]}
  BY DEF Activate
<1>2. PICK s, at : s = Session(now) /\ at = Reading OBVIOUS
<1>3. PICK n : n = Ensured(desired, v, s, at, fresh) OBVIOUS
<1>4. PICK e, r : e = n.desired /\ r = n.revision OBVIOUS
<1>5. PICK h, ql : h = desired' /\ ql = plans' OBVIOUS
<1>6. PICK p : p = [session |-> s, revision |-> r] OBVIOUS
<1>7. h = Reconciled(e, r, now, TRUE, fresh) BY <1>1, <1>2, <1>3, <1>4, <1>5
<1>8. IsServed(h, r) /\ Sess(h, r) = s BY <1>1, <1>2, <1>3, <1>4, <1>5 DEF IsServed, Sess
<1>9. ql = plans \cup {p} BY <1>1, <1>2, <1>3, <1>4, <1>5, <1>6
<1>10. s \in Nat \ {0} /\ at = 2 * claims + 1 /\ v \in Effective(desired, s)
  BY <1>2, SessionType DEF Reading
<1>11. WellFormed(desired) /\ v \in DOMAIN desired.revisions BY <1>10, EffectiveFacts DEF Sound
<1>12. WellFormed(e) /\ r \in DOMAIN e.revisions
  <2>1. at \in Nat BY <1>10
  <2>2. Transacts(desired, n.desired) /\ n.revision \in DOMAIN n.desired.revisions
    BY <2>1, <1>3, <1>10, <1>11, EnsuredFacts
  <2>3. QED BY <2>2, <1>4 DEF Transacts
<1>13. WellFormed(h) /\ Makes(e, h, r, now, TRUE) BY <1>7, <1>12, ReconciledOpens
<1>14. /\ Evolves(e, h) /\ DOMAIN h.revisions = DOMAIN e.revisions
       /\ Opened(e, h) \subseteq {r} /\ (r \in Opened(e, h) => ~IsServed(e, r))
  BY <1>13 DEF Makes, Passes
<1>15. Dropped(h) = {} /\ Dropped(e) = {}
  <2>1. Dropped(h) = {} BY <1>5
  <2>2. QED BY <2>1, <1>12, <1>14, NoneDropped
<1>16. Sound(e, proc, claims, plans, now) /\ Chosen(e, s, r)
  BY <1>3, <1>4, <1>10, <1>15, SoundEnsured
<1>17. Latest(e) /\ Sess(e, r) = s BY <1>8, <1>12, <1>14, <1>16, HistoryKept DEF Sound, Disciplined, Ordered
<1>18. r \in Opened(e, h) => Justified(e, e, r)
  <2>1. SUFFICES ASSUME ~IsServed(e, r) PROVE Justified(e, e, r) BY <1>14
  <2>2. CASE r = e.current BY <2>2, <1>12, <1>17, CurrentLeads DEF Justified
  <2>3. CASE \E w \in DOMAIN e.revisions : Src(e, r) = w /\ Sess(e, w) < s /\ LastServed(e, s, w)
    BY <2>3, <1>17 DEF Justified
  <2>4. QED BY <2>1, <2>2, <2>3, <1>16 DEF Chosen, LastServed
<1>19. ASSUME NEW i \in DOMAIN h.revisions, IsServed(h, i), Sess(h, i) = s PROVE AtMost(h, i, r)
  <2>1. i \in DOMAIN e.revisions /\ Sess(e, i) = s BY <1>14, <1>19, HistoryKept
  <2>2. s <= s BY <1>10
  <2>3. CASE i = r BY <2>3 DEF AtMost
  <2>4. CASE i # r
    <3>1. IsServed(e, i) BY <2>1, <2>4, <1>14, <1>19 DEF Opened
    <3>2. CASE r = e.current
      <4>1. AtMost(e, i, r) BY <2>1, <3>2, <1>17 DEF Latest
      <4>2. QED BY <4>1, <2>1, <1>12, <1>14, OrderKept
    <3>3. CASE LastServed(e, s, r)
      <4>1. AtMost(e, i, r) BY <2>1, <2>2, <3>1, <3>3 DEF LastServed
      <4>2. QED BY <4>1, <2>1, <1>12, <1>14, OrderKept
    <3>4. CASE \E w \in DOMAIN e.revisions : Src(e, r) = w /\ Sess(e, w) < s /\ LastServed(e, s, w)
      <4>1. PICK w \in DOMAIN e.revisions : Sess(e, w) < s /\ LastServed(e, s, w) BY <3>4
      <4>2. AtMost(e, i, w) BY <4>1, <2>1, <2>2, <3>1 DEF LastServed
      <4>3. Sess(e, i) <= Sess(e, w) BY <4>1, <4>2, <2>1, <1>12, OrderFacts
      <4>4. Sess(e, w) \in Nat BY <4>1, <1>12, HistoryFacts
      <4>5. QED BY <4>1, <4>3, <4>4, <2>1, <1>10
    <3>5. QED BY <3>2, <3>3, <3>4, <1>16 DEF Chosen
  <2>5. QED BY <2>3, <2>4
<1>20. NewPlans(h, plans, ql)
  <2>1. p.session = s /\ p.revision = r BY <1>6
  <2>2. QED BY <2>1, <1>8, <1>9, <1>12, <1>14, <1>19 DEF NewPlans
<1>21. Excused(h, proc, ql, r) BY <1>6, <1>8, <1>9 DEF Excused, Settled, Planned
<1>22. Sound(h, proc, claims, ql, now)
  BY <1>7, <1>12, <1>15, <1>16, <1>18, <1>20, <1>21, SoundReconciled
<1>23. QED BY <1>5, <1>22

LEMMA SoundApply ==
  ASSUME now \in Nat, claims \in Nat, Sound(desired, proc, claims, plans, now),
         Apply(Reading), Dropped(desired') = {}
  PROVE  Sound(desired', proc, claims, plans, now)
<1>1. PICK c \in Intents, fresh \in BOOLEAN :
        LET next == Recorded(desired, EffectiveNext(now), 0, c, Reading)
            after == Reconciled(next.desired, next.revision, now, FALSE, fresh)
        IN  desired' = after
  BY DEF Apply
<1>2. PICK s, at : s = EffectiveNext(now) /\ at = Reading OBVIOUS
<1>3. PICK n : n = Recorded(desired, s, 0, c, at) OBVIOUS
<1>4. PICK e, r : e = n.desired /\ r = n.revision OBVIOUS
<1>5. PICK h : h = desired' OBVIOUS
<1>6. h = Reconciled(e, r, now, FALSE, fresh) BY <1>1, <1>2, <1>3, <1>4, <1>5
<1>7. s \in Nat \ {0} /\ at = 2 * claims + 1
  <2>1. Session(now) \in Nat \ {0} BY SessionType
  <2>2. QED BY <2>1, <1>2 DEF Reading, EffectiveNext
<1>8. Joining(desired, proc, claims, s, 0, c, at) /\ Recordable(desired, s, 0, c, at)
  <2>1. Recordable(desired, s, 0, c, at) BY <1>7 DEF Recordable
  <2>2. Joins(desired, proc, claims, s, 0, at) BY <1>7 DEF Joins, Asked
  <2>3. QED BY <2>1, <2>2, <1>7 DEF Joining
<1>9. WellFormed(desired) BY DEF Sound
<1>10. WellFormed(e) /\ r \in DOMAIN e.revisions /\ Src(e, r) = 0
  <2>1. WellFormed(n.desired) /\ Records(desired, n.desired, n.revision, s, 0, c)
    BY <1>3, <1>8, <1>9, RecordedFacts
  <2>2. QED BY <2>1, <1>4 DEF Records, Src
<1>11. WellFormed(h) /\ Evolves(e, h)
  <2>1. Makes(e, h, r, now, FALSE) /\ WellFormed(h) BY <1>6, <1>10, ReconciledOpens
  <2>2. QED BY <2>1 DEF Makes, Passes
<1>12. Dropped(h) = {} /\ Dropped(e) = {}
  <2>1. Dropped(h) = {} BY <1>5
  <2>2. QED BY <2>1, <1>10, <1>11, NoneDropped
<1>13. Sound(e, proc, claims, plans, now) BY <1>3, <1>4, <1>8, <1>12, SoundRecorded
<1>14. Justified(e, e, r) BY <1>10 DEF Justified
<1>15. NewPlans(h, plans, plans) BY DEF NewPlans
<1>16. Sound(h, proc, claims, plans, now)
  BY <1>6, <1>10, <1>12, <1>13, <1>14, <1>15, SoundReconciled
<1>17. QED BY <1>5, <1>16

-----------------------------------------------------------------------------
(* A member is promoted.                                                      *)

(* A snapshot of y, if one is made now, is made without m.                    *)
Starts(d, a, y, m, ch) ==
  /\ Passes(d, a, None, {y})
  /\ y \in Opened(d, a) => ch >= Activation(Sess(d, y)) /\ m \notin a.revisions[y].snapshot
  /\ y \notin Opened(d, a) => Passes(d, a, None, {})

(* From activation on the snapshot of y is made first.                        *)
Active(d, a, y, ch, fresh) ==
  a = IF ch >= Activation(Sess(d, y)) THEN Reconciled(d, y, Activation(Sess(d, y)), TRUE, fresh) ELSE d

LEMMA PromotionStarts ==
  ASSUME NEW d, WellFormed(d), NEW y \in DOMAIN d.revisions, NEW m \in DOMAIN d.revisions[y].work,
         Prepared(d.revisions[y], m), d.revisions[y].ready[m] = "WARMING", NEW ch, NEW fresh,
         NEW a, Active(d, a, y, ch, fresh), NEW b, b = Readied(a, y, m)
  PROVE  /\ WellFormed(a) /\ WellFormed(b) /\ Starts(d, a, y, m, ch) /\ Starts(d, b, y, m, ch)
         /\ b.revisions[y].snapshot = a.revisions[y].snapshot
<1>1. /\ WellFormed(a) /\ Starts(d, a, y, m, ch) /\ y \in DOMAIN a.revisions
      /\ a.revisions[y].work = d.revisions[y].work
  <2>1. CASE ch >= Activation(Sess(d, y))
    <3>1. PICK at : at = Activation(Sess(d, y)) OBVIOUS
    <3>2. a = Reconciled(d, y, at, TRUE, fresh) BY <2>1, <3>1 DEF Active
    <3>3. WellFormed(a) /\ Makes(d, a, y, at, TRUE) BY <3>2, ReconciledOpens
    <3>4. Settles(d, a, y) BY <3>2, ReconciledFacts
    <3>5. m \notin Having(d.revisions[y], "READY") BY DEF Having
    <3>6. Starts(d, a, y, m, ch) BY <2>1, <3>3, <3>5 DEF Makes, Starts
    <3>7. QED BY <3>3, <3>4, <3>6 DEF Settles, Around
  <2>2. CASE ~(ch >= Activation(Sess(d, y)))
    <3>1. a = d BY <2>2 DEF Active
    <3>2. Opened(d, d) = {} BY DEF Opened
    <3>3. Passes(d, d, None, {y}) /\ Passes(d, d, None, {}) BY PassesNothing
    <3>4. QED BY <3>1, <3>2, <3>3 DEF Starts
  <2>3. QED BY <2>1, <2>2
<1>2. m \in DOMAIN a.revisions[y].work /\ Prepared(a.revisions[y], m) BY <1>1 DEF Prepared
<1>3. /\ WellFormed(b) /\ Around(a, b, y) /\ b.revisions[y].snapshot = a.revisions[y].snapshot
  BY <1>1, <1>2, ReadiedFacts
<1>4. Passes(a, b, None, {y}) /\ Passes(a, b, None, {}) BY <1>1, <1>2, ReadiedPasses
<1>5. Passes(d, b, None, {y}) BY <1>1, <1>3, <1>4, PassesThen DEF Starts
<1>6. y \in Opened(d, b) <=> y \in Opened(d, a) BY <1>3 DEF Opened, IsServed, Around
<1>7. y \notin Opened(d, a) => Passes(d, b, None, {}) BY <1>1, <1>3, <1>4, PassesThen DEF Starts
<1>8. Starts(d, b, y, m, ch) BY <1>1, <1>3, <1>5, <1>6, <1>7 DEF Starts
<1>9. QED BY <1>1, <1>3, <1>8

(* The claim x of o is on the revision y of the session s.                    *)
Claimed(d, P, o, x, y, s, pl) ==
  /\ o \in Lives(P) /\ x = P[o] /\ y = x.revision /\ s = Sess(d, y)
  /\ IsServed(d, y) /\ x.checked < Activation(s) => Settled(d, pl, s)

LEMMA ClaimedFacts ==
  ASSUME NEW d, NEW P, NEW c \in Nat, NEW pl, NEW t \in Nat, Sound(d, P, c, pl, t),
         NEW o, NEW x, NEW y, NEW s, Claimed(d, P, o, x, y, s, pl)
  PROVE  /\ y \in Leaders(d) /\ y \in DOMAIN d.revisions /\ y \in Nat /\ y # 0 /\ s \in Nat
         /\ x.reading \in Nat /\ x.checked \in Nat /\ x.checked <= t
         /\ Activation(s) \in Int /\ Activation(s + 1) \in Int /\ Activation(s) <= Activation(s + 1)
<1>1. /\ WellFormed(d) /\ Dated(d, P, t) /\ Clocks(d, P, c) /\ o \in Lives(P) /\ x = P[o]
      /\ y = x.revision /\ s = Sess(d, y)
  BY DEF Sound, Disciplined, Ordered, Claimed
<1>2. y \in Leaders(d) /\ x.reading \in Nat BY <1>1 DEF Clocks
<1>3. x.checked \in Nat /\ x.checked <= t BY <1>1 DEF Dated
<1>4. y \in DOMAIN d.revisions BY <1>2 DEF Leaders
<1>5. y \in Nat /\ y # 0 /\ s \in Nat BY <1>1, <1>4, HistoryFacts
<1>6. /\ Activation(s) \in Int /\ Activation(s + 1) \in Int /\ Activation(s) <= Activation(s + 1)
  <2>1. Day * s \in Nat /\ Day * (s + 1) = Day * s + Day /\ Day \in Nat BY <1>5, DesiredAssumption
  <2>2. QED BY <2>1 DEF Activation
<1>7. QED BY <1>2, <1>3, <1>4, <1>5, <1>6

(* The state h comes of d, and is sound if no member was dropped.             *)
Leads(d, h, P, c, pl, t) ==
  /\ WellFormed(h) /\ Evolves(d, h)
  /\ Dropped(h) = {} => Sound(h, P, c, pl, t)

(* The revision z of the session g that m is promoted to is recorded from y.  *)
Destined(d, s, g, x, pl) ==
  \/ g = s + 1
  \/ g = s /\ x.checked < Activation(s) /\ ~Planned(pl, s)

LEMMA PromotionRecords ==
  ASSUME NEW d, NEW P, NEW c \in Nat, NEW pl, NEW t \in Nat, Sound(d, P, c, pl, t),
         NEW o, NEW x, NEW y, NEW s, Claimed(d, P, o, x, y, s, pl),
         NEW g, Destined(d, s, g, x, pl), NEW members, members = Mem(d, y), NEW at, at = x.reading,
         x.checked >= Activation(s) => g = s + 1,
         NEW m, NEW b, WellFormed(b), Starts(d, b, y, m, x.checked), IsServed(b, y),
         NEW n, n = Recorded(b, g, y, members, at), NEW h, h = n.desired, NEW z, z = n.revision
  PROVE  Leads(d, h, P, c, pl, t) /\ Records(b, h, z, g, y, members)
<1>1. WellFormed(d) /\ Ordered(d, P, c) /\ Latest(d) BY DEF Sound, Disciplined, Ordered
<1>2. /\ y \in Leaders(d) /\ y \in DOMAIN d.revisions /\ y \in Nat /\ y # 0 /\ s \in Nat
      /\ at \in Nat /\ x.checked \in Nat /\ x.checked <= t /\ Activation(s) \in Int
  BY ClaimedFacts
<1>3. /\ o \in Lives(P) /\ x = P[o] /\ y = x.revision /\ s = Sess(d, y)
      /\ IsServed(d, y) /\ x.checked < Activation(s) => Settled(d, pl, s)
  BY DEF Claimed
<1>4. /\ Passes(d, b, None, {y})
      /\ y \in Opened(d, b) => x.checked >= Activation(s)
  BY <1>3 DEF Starts
<1>5. g \in Nat /\ g \in {s, s + 1} BY <1>2 DEF Destined
<1>6. Recordable(b, g, y, members, at)
  <2>1. Fits(d.revisions[y], SourceBase(d, d.revisions[y].source)) BY <1>1, <1>2 DEF WellFormed
  <2>2. s # 0 /\ members \in Intents BY <2>1, <1>3 DEF Fits, Sess, Mem
  <2>3. g # 0 BY <2>2, <1>2, <1>5
  <2>4. y \in DOMAIN b.revisions BY <1>2, <1>4 DEF Passes
  <2>5. QED BY <2>2, <2>3, <2>4, <1>2, <1>5 DEF Recordable, IsServed
<1>7. Latest(b) BY <1>1, <1>4, LatestPasses
<1>8. WellFormed(h) /\ Evolves(b, h) /\ Records(b, h, z, g, y, members)
  <2>1. /\ WellFormed(n.desired) /\ Evolves(b, n.desired)
        /\ Records(b, n.desired, n.revision, g, y, members)
    BY <1>2, <1>6, RecordedFacts
  <2>2. QED BY <2>1
<1>9. Grows(b, h, {y}, z, g, y, at) /\ Mem(h, z) = members
  <2>1. PICK S : S = {y} OBVIOUS
  <2>2. Grows(b, n.desired, S, n.revision, g, y, at) /\ Mem(n.desired, n.revision) = members
    BY <1>2, <1>6, <1>7, RecordedGrows
  <2>3. QED BY <2>1, <2>2
<1>10. Grows(d, h, {y}, z, g, y, at)
  <2>1. PICK S : S = {y} OBVIOUS
  <2>2. Grows(b, h, S, z, g, y, at) /\ Passes(d, b, None, S) BY <2>1, <1>4, <1>9
  <2>3. Grows(d, h, S, z, g, y, at) BY <2>2, <1>1, <1>8, PassesGrow
  <2>4. QED BY <2>1, <2>3
<1>11. Joining(d, P, c, g, y, members, at)
  <2>1. Promotes(d, P, g, y, at) BY <1>3, <1>5 DEF Promotes
  <2>2. ASSUME Sess(d, y) = g PROVE Sess(d, d.current) > g
    <3>1. g = s /\ x.checked < Activation(s) /\ ~Planned(pl, s)
      BY <2>2, <1>2, <1>3 DEF Destined
    <3>2. y \notin Opened(d, b) BY <3>1, <1>2, <1>4
    <3>3. IsServed(d, y)
      <4>1. y \in DOMAIN b.revisions BY <1>2, <1>4 DEF Passes
      <4>2. QED BY <3>2, <4>1, <1>2 DEF Opened
    <3>4. QED BY <3>1, <3>3, <1>3 DEF Settled
  <2>3. QED BY <2>1, <2>2, <1>2, <1>5 DEF Joining, Joins
<1>12. Evolves(d, h) /\ Continued(d, h, P, c) /\ Opened(d, h) \subseteq {y} /\ RowsKept(d, h, None)
  BY <1>9, <1>10, <1>11, GrowsContinues
<1>13. ASSUME NEW i \in Opened(d, h)
       PROVE  Justified(d, h, i) /\ t >= Activation(Sess(h, i)) /\ Excused(h, P, pl, i)
  <2>1. i = y /\ ~IsServed(d, y) BY <1>2, <1>12 DEF Opened
  <2>2. y \in Opened(d, b)
    <3>1. y \in DOMAIN b.revisions BY <1>2, <1>4 DEF Passes
    <3>2. QED BY <2>1, <3>1 DEF Opened
  <2>3. x.checked >= Activation(s) /\ g = s + 1 BY <2>2, <1>4
  <2>4. Sess(h, y) = s /\ y \in Leaders(h) BY <1>1, <1>2, <1>3, <1>8, <1>12, HistoryKept, LeadersKept
  <2>5. t >= Activation(s) BY <2>3, <1>2
  <2>6. Sess(h, h.current) > s
    <3>1. Ordered(h, P, c) BY <1>1, <1>8, <1>12, OrderedContinues
    <3>2. z \in DOMAIN h.revisions /\ Sess(h, z) = s + 1 BY <2>3, <1>10 DEF Grows
    <3>3. AtMost(h, z, h.current) BY <3>1, <3>2 DEF Ordered, Latest
    <3>4. h.current \in DOMAIN h.revisions /\ Sess(h, h.current) \in Nat BY <1>8, HistoryFacts
    <3>5. Sess(h, z) <= Sess(h, h.current) BY <3>2, <3>3, <3>4, <1>8, OrderFacts
    <3>6. QED BY <3>2, <3>4, <3>5, <1>2
  <2>7. QED BY <2>1, <2>4, <2>5, <2>6 DEF Justified, Excused, Settled
<1>14. Goes(d, h, P, c) BY <1>12, <1>13 DEF Goes
<1>15. Fewer(P, P) /\ NewPlans(h, pl, pl) BY DEF Fewer, NewPlans
<1>16. Proceeds(d, h, P, P, c, pl, pl, t) BY <1>12, <1>13, <1>14, <1>15 DEF Proceeds
<1>17. Dropped(h) = {} => Sound(h, P, c, pl, t) BY <1>8, <1>16, SoundGoes
<1>18. QED BY <1>8, <1>12, <1>17 DEF Leads

(* The readiness of the member is copied to z, and z gets its snapshot if it  *)
(* is time.                                                                   *)
LEMMA PromotionOpens ==
  ASSUME NEW d, NEW P, NEW c \in Nat, NEW pl, NEW t \in Nat, Sound(d, P, c, pl, t),
         NEW o, NEW x, NEW y, NEW s, Claimed(d, P, o, x, y, s, pl), NEW g, Destined(d, s, g, x, pl),
         NEW h, Leads(d, h, P, c, pl, t),
         NEW z \in DOMAIN h.revisions, Src(h, z) = y, Sess(h, z) = g, Mem(h, z) = Mem(d, y),
         NEW a, a = Carried(h, y, z), NEW fresh,
         NEW e, e = IF x.checked < Activation(g) THEN a ELSE Reconciled(a, z, x.checked, TRUE, fresh),
         Dropped(e) = {}
  PROVE  Sound(e, P, c, pl, t)
<1>1. /\ WellFormed(d) /\ WellFormed(h) /\ Evolves(d, h)
      /\ Dropped(h) = {} => Sound(h, P, c, pl, t)
  BY DEF Sound, Leads
<1>2. /\ y \in Leaders(d) /\ y \in DOMAIN d.revisions /\ y \in Nat /\ y # 0 /\ s \in Nat
      /\ x.reading \in Nat /\ x.checked \in Nat /\ x.checked <= t
      /\ Activation(s) \in Int /\ Activation(s + 1) \in Int /\ Activation(s) <= Activation(s + 1)
  BY ClaimedFacts
<1>3. o \in Lives(P) /\ x = P[o] /\ y = x.revision /\ s = Sess(d, y) BY DEF Claimed
<1>4. y \in DOMAIN h.revisions /\ Sess(h, y) = s /\ Mem(h, y) = Mem(d, y) /\ y \in Leaders(h)
  BY <1>1, <1>2, <1>3, HistoryKept, LeadersKept
<1>5. Follows(h, y, z)
  <2>1. z # y BY <1>1, <1>2, HistoryFacts
  <2>2. QED BY <2>1, <1>4 DEF Follows, Src, Mem
<1>6. WellFormed(a) /\ Passes(h, a, None, {}) /\ Evolves(h, a) /\ z \in DOMAIN a.revisions
  <2>1. WellFormed(a) /\ Evolves(h, a) BY <1>1, <1>4, <1>5, CarriedFacts
  <2>2. Passes(h, a, None, {}) BY <1>1, <1>4, <1>5, CarriedPasses
  <2>3. QED BY <2>1, <2>2 DEF Passes
<1>7. ASSUME Dropped(a) = {} PROVE Sound(a, P, c, pl, t)
  <2>1. Dropped(h) = {} BY <1>1, <1>6, <1>7, NoneDropped
  <2>2. Sound(h, P, c, pl, t) BY <2>1, <1>1
  <2>3. QED BY <2>2, <1>6, <1>7, SoundPasses
<1>8. CASE x.checked < Activation(g)
  <2>1. e = a BY <1>8
  <2>2. QED BY <2>1, <1>7
<1>9. CASE ~(x.checked < Activation(g))
  <2>1. g = s + 1 BY <1>9, <1>2 DEF Destined
  <2>2. x.checked >= Activation(s + 1) BY <1>2, <1>9, <2>1
  <2>3. PICK at : at = x.checked OBVIOUS
  <2>4. e = Reconciled(a, z, at, TRUE, fresh) BY <1>9, <2>3
  <2>5. WellFormed(e) /\ Makes(a, e, z, at, TRUE) BY <2>4, <1>6, ReconciledOpens
  <2>6. Evolves(a, e) BY <2>5 DEF Makes, Passes
  <2>7. Dropped(a) = {} BY <2>6, <1>6, NoneDropped
  <2>8. Sound(a, P, c, pl, t) BY <2>7, <1>7
  <2>9. /\ Src(a, z) = y /\ Sess(a, z) = s + 1 /\ Sess(a, y) = s
        /\ y \in Leaders(a) /\ y \in DOMAIN a.revisions
    BY <1>1, <1>4, <1>6, <2>1, HistoryKept, LeadersKept
  <2>10. Sess(e, z) = s + 1
    <3>1. PICK u : u = e OBVIOUS
    <3>2. Evolves(a, u) BY <2>6, <3>1
    <3>3. Sess(u, z) = Sess(a, z) BY <3>2, <1>6, HistoryKept
    <3>4. QED BY <3>1, <3>3, <2>9
  <2>11. Justified(a, a, z) BY <2>9 DEF Justified
  <2>12. at >= Activation(Sess(a, z)) => t >= Activation(Sess(a, z)) BY <2>3, <2>9, <1>2
  <2>13. Excused(e, P, pl, z)
    <3>1. SUFFICES ASSUME NEW q \in Lives(P), P[q].revision = z PROVE P[q].checked >= Activation(s + 1)
      BY <2>10 DEF Excused
    <3>2. /\ DrawnInOrder(a, P) /\ Clocks(a, P, c) /\ ReadInOrder(P) /\ Dated(a, P, t)
      BY <2>8 DEF Sound, Disciplined, Ordered
    <3>3. P[q].reading \in Nat /\ P[q].checked \in Nat BY <3>2 DEF Clocks, Dated
    <3>4. ~(P[q].reading < x.reading)
      <4>1. SUFFICES ASSUME P[q].reading < x.reading PROVE FALSE OBVIOUS
      <4>2. Drawn(a, P, z, P[q].reading) /\ Drawn(a, P, y, x.reading) BY <3>1, <1>3 DEF Drawn
      <4>3. AtMost(a, z, y) BY <4>1, <4>2, <3>2, <3>3, <2>9, <1>2, <1>6 DEF DrawnInOrder
      <4>4. Sess(a, z) <= Sess(a, y) BY <4>3, <2>9, <1>6, OrderFacts
      <4>5. QED BY <4>4, <2>9, <1>2
    <3>5. x.reading <= P[q].reading BY <3>3, <3>4, <1>2
    <3>6. x.checked <= P[q].checked BY <3>2, <3>5, <1>3 DEF ReadInOrder
    <3>7. QED BY <3>3, <3>6, <2>2, <1>2
  <2>14. NewPlans(e, pl, pl) BY DEF NewPlans
  <2>15. QED BY <2>4, <2>8, <2>11, <2>12, <2>13, <2>14, <1>6, SoundReconciled
<1>10. QED BY <1>8, <1>9

LEMMA SoundPromoted ==
  ASSUME NEW d, NEW P, NEW c \in Nat, NEW t \in Nat, Sound(d, P, c, plans, t),
         NEW o, NEW x, NEW y, NEW s, Claimed(d, P, o, x, y, s, plans),
         NEW m \in DOMAIN d.revisions[y].work, Prepared(d.revisions[y], m),
         d.revisions[y].ready[m] = "WARMING", NEW ch, ch = x.checked, NEW at, at = x.reading,
         NEW fresh, NEW e, e = Promoted(d, y, m, ch, at, fresh), Dropped(e) = {}
  PROVE  Sound(e, P, c, plans, t)
<1>1. WellFormed(d) BY DEF Sound
<1>2. /\ y \in Leaders(d) /\ y \in DOMAIN d.revisions /\ y \in Nat /\ y # 0 /\ s \in Nat
      /\ at \in Nat /\ ch \in Nat /\ Activation(s) \in Int
  BY ClaimedFacts
<1>3. s = Sess(d, y) BY DEF Claimed
<1>4. PICK a : Active(d, a, y, ch, fresh) BY DEF Active
<1>5. PICK b : b = Readied(a, y, m) OBVIOUS
<1>6. /\ WellFormed(a) /\ WellFormed(b) /\ Starts(d, a, y, m, ch) /\ Starts(d, b, y, m, ch)
      /\ b.revisions[y].snapshot = a.revisions[y].snapshot
  BY <1>1, <1>2, <1>4, <1>5, PromotionStarts
<1>7. y \in DOMAIN a.revisions /\ y \in DOMAIN b.revisions BY <1>2, <1>6 DEF Starts, Passes
<1>8. PICK members : members = Mem(d, y) OBVIOUS
<1>9. PICK g : g = IF ch >= Activation(s) \/ Planned(plans, s) THEN s + 1 ELSE s OBVIOUS
<1>10. g = Target(d.revisions[y].session, ch)
  BY <1>3, <1>9 DEF Target, Pinned, Planned, Sess
<1>11. PICK n : n = Recorded(b, g, y, members, at) OBVIOUS
<1>12. PICK h, z : h = n.desired /\ z = n.revision OBVIOUS
<1>13. PICK f : f = Carried(h, y, z) OBVIOUS
<1>14. PICK kept : kept = a.revisions[y].snapshot OBVIOUS
<1>15. e = IF kept = {} /\ ch >= Activation(s) THEN a
           ELSE IF kept = {} \/ m \in kept THEN b
           ELSE IF ch < Activation(f.revisions[z].session) THEN f
           ELSE Reconciled(f, z, ch, TRUE, fresh)
  <2>1. s = d.revisions[y].session /\ members = d.revisions[y].members BY <1>3, <1>8 DEF Sess, Mem
  <2>2. a = IF ch >= Activation(d.revisions[y].session)
            THEN Reconciled(d, y, Activation(d.revisions[y].session), TRUE, fresh) ELSE d
    BY <1>4 DEF Active, Sess
  <2>3. n = Recorded(b, Target(d.revisions[y].session, ch), y, d.revisions[y].members, at)
    BY <2>1, <1>10, <1>11
  <2>4. f = Carried(n.desired, y, n.revision) BY <1>12, <1>13
  <2>5. CASE a.revisions[y].snapshot = {} /\ ch >= Activation(d.revisions[y].session)
    BY Zenon, <2>1, <2>2, <2>5, <1>14 DEF Promoted
  <2>6. CASE /\ ~(a.revisions[y].snapshot = {} /\ ch >= Activation(d.revisions[y].session))
             /\ a.revisions[y].snapshot = {} \/ m \in a.revisions[y].snapshot
    BY Zenon, <2>1, <2>2, <2>6, <1>5, <1>14 DEF Promoted, Readied
  <2>7. CASE /\ ~(a.revisions[y].snapshot = {} \/ m \in a.revisions[y].snapshot)
    <3>1. CASE ch < Activation(f.revisions[n.revision].session)
      <4>1. e = f BY Zenon, <2>2, <2>3, <2>4, <2>7, <3>1, <1>5 DEF Promoted, Readied
      <4>2. QED BY <4>1, <2>7, <3>1, <1>12, <1>14
    <3>2. CASE ~(ch < Activation(f.revisions[n.revision].session))
      <4>1. e = Reconciled(f, n.revision, ch, TRUE, fresh)
        BY Zenon, <2>2, <2>3, <2>4, <2>7, <3>2, <1>5 DEF Promoted, Readied
      <4>2. QED BY <4>1, <2>7, <3>2, <1>12, <1>14
    <3>3. QED BY <3>1, <3>2
  <2>8. QED BY <2>5, <2>6, <2>7
<1>16. CASE kept = {} \/ m \in kept
  <2>1. e = a \/ e = b BY <1>15, <1>16
  <2>2. y \notin Opened(d, a) /\ y \notin Opened(d, b)
    BY <1>6, <1>14, <1>16 DEF Opened, IsServed, Starts
  <2>3. Passes(d, a, None, {}) /\ Passes(d, b, None, {}) BY <2>2, <1>6 DEF Starts
  <2>4. CASE e = a BY <2>3, <2>4, <1>6, SoundPasses
  <2>5. CASE e = b BY <2>3, <2>5, <1>6, SoundPasses
  <2>6. QED BY <2>1, <2>4, <2>5
<1>17. CASE kept # {} /\ m \notin kept
  <2>1. e = IF ch < Activation(f.revisions[z].session) THEN f ELSE Reconciled(f, z, ch, TRUE, fresh)
    BY <1>15, <1>17
  <2>2. IsServed(b, y) BY <1>6, <1>14, <1>17 DEF IsServed
  <2>3. Destined(d, s, g, x, plans) BY <1>2, <1>9 DEF Destined
  <2>4. x.checked >= Activation(s) => g = s + 1 BY <1>9
  <2>5. Leads(d, h, P, c, plans, t) /\ Records(b, h, z, g, y, members)
    BY <2>2, <2>3, <2>4, <1>6, <1>8, <1>11, <1>12, PromotionRecords
  <2>6. z \in DOMAIN h.revisions /\ Src(h, z) = y /\ Sess(h, z) = g /\ Mem(h, z) = Mem(d, y)
    BY <2>5, <1>8 DEF Records, Src, Sess, Mem
  <2>7. f.revisions[z].session = g
    <3>1. y \in DOMAIN h.revisions /\ Mem(h, y) = Mem(d, y) BY <2>5, <1>2, HistoryKept DEF Leads
    <3>2. z # y BY <2>5, <2>6, <1>2, HistoryFacts DEF Leads
    <3>3. Follows(h, y, z) BY <3>1, <3>2, <2>6 DEF Follows, Src, Mem
    <3>4. Evolves(h, f) BY <3>1, <3>3, <2>5, <1>13, CarriedFacts DEF Leads
    <3>5. Sess(f, z) = Sess(h, z) BY <3>4, <2>6, HistoryKept
    <3>6. QED BY <3>5, <2>6 DEF Sess
  <2>8. e = IF x.checked < Activation(g) THEN f ELSE Reconciled(f, z, x.checked, TRUE, fresh)
    BY <2>1, <2>7
  <2>9. QED BY <2>3, <2>5, <2>6, <2>8, <1>13, PromotionOpens
<1>18. QED BY <1>16, <1>17

-----------------------------------------------------------------------------
(* Each step keeps the discipline.                                            *)

LEMMA SoundComplete ==
  ASSUME now \in Nat, claims \in Nat, WithinBound(desired), Processes,
         Sound(desired, proc, claims, plans, now),
         NEW o \in Owners, Complete(o), Dropped(desired') = {}
  PROVE  Sound(desired', proc, claims, plans, now)
<1>1. PICK y, m, k : At(o, y, m, k) BY DEF At
<1>2. PICK x : x = proc[o] OBVIOUS
<1>3. y = x.revision /\ m = x.member /\ k = x.stage BY <1>1, <1>2 DEF At
<1>4. proc[o].pc # "off" /\ Verify(o) BY DEF Complete
<1>5. o \in Lives(proc) BY <1>4 DEF Lives
<1>6. WellFormed(desired) /\ Awaited(desired, proc, plans) BY DEF Sound, Disciplined
<1>7. /\ y \in DOMAIN desired.revisions /\ m \in DOMAIN desired.revisions[y].work /\ k \in 1..Stages
      /\ x.mark + 1 \in Nat /\ Slots[k] \in Nat
  <2>1. /\ y \in DOMAIN desired.revisions /\ m \in DOMAIN desired.revisions[y].work /\ k \in 1..Stages
        /\ x.mark \in Nat
    BY Zenon, <1>2, <1>3, <1>4, <1>6, Held
  <2>2. Slots[k] \in Nat BY <2>1, NumberFacts
  <2>3. QED BY <2>1, <2>2
<1>8. PICK h : h = desired' OBVIOUS
<1>9. PICK mark, requests : mark = proc[o].mark + 1 /\ requests = Slots[k] OBVIOUS
<1>10. PICK status, rested :
         /\ status \in {"COMPLETE", "PENDING"}
         /\ rested = Rested(o, status, mark, requests)
         /\ \/ h = rested
            \/ /\ status = "COMPLETE" /\ k = Stages
               /\ \E fresh \in BOOLEAN :
                    h = Promoted(rested, y, m, proc[o].checked, proc[o].reading, fresh)
  BY <1>2, <1>3, <1>8, <1>9 DEF Complete
<1>11. /\ Transacts(desired, rested) /\ Passes(desired, rested, None, {})
       /\ rested.revisions[y].snapshot = desired.revisions[y].snapshot
       /\ rested.revisions[y].work[m][k].status = status
       /\ rested.revisions[y].ready[m] = desired.revisions[y].ready[m]
  <2>1. Rests(o, status, mark, requests, rested) BY <1>2, <1>4, <1>7, <1>9, <1>10 DEF Rests
  <2>2. QED BY <2>1, <1>1, <1>6, RestedFacts
<1>12. WellFormed(rested) /\ Evolves(desired, rested) BY <1>11 DEF Transacts
<1>13. ASSUME Dropped(rested) = {} PROVE Sound(rested, proc, claims, plans, now)
  BY <1>11, <1>12, <1>13, SoundPasses
<1>14. CASE h = rested BY <1>8, <1>13, <1>14
<1>15. ASSUME status = "COMPLETE", k = Stages, NEW fresh \in BOOLEAN,
              h = Promoted(rested, y, m, proc[o].checked, proc[o].reading, fresh)
       PROVE  Sound(desired', proc, claims, plans, now)
  <2>1. PICK ch, at : ch = x.checked /\ at = x.reading OBVIOUS
  <2>2. h = Promoted(rested, y, m, ch, at, fresh) BY <2>1, <1>2, <1>15
  <2>3. at \in Nat BY <2>1, <1>2 DEF Processes, Places
  <2>4. Holds(x, desired) BY <1>2, <1>4 DEF Processes
  <2>5. Holds(x, rested) BY <2>4, <1>6, <1>12, HoldsKept
  <2>6. y \in DOMAIN rested.revisions /\ m \in DOMAIN rested.revisions[y].work
    BY <2>5, <1>3 DEF Holds
  <2>7. Prepared(rested.revisions[y], m)
    <3>1. rested.revisions[y].work[m][Stages].status = "COMPLETE" BY <1>11, <1>15
    <3>2. \A j \in 1..(Stages - 1) : rested.revisions[y].work[m][j].status = "COMPLETE"
      <4>1. Stages \in 1..Stages BY DesiredAssumption
      <4>2. QED BY <2>6, <3>1, <4>1, <1>12, RowType
    <3>3. QED BY <3>1, <3>2, DesiredAssumption DEF Prepared
  <2>8. Transacts(rested, h) BY <2>2, <2>3, <2>6, <2>7, <1>12, PromotedFacts
  <2>9. Dropped(h) = {} /\ Dropped(rested) = {} /\ Dropped(desired) = {}
    <3>1. Dropped(h) = {} BY <1>8
    <3>2. Dropped(rested) = {} BY <3>1, <2>8, <1>12, NoneDropped DEF Transacts
    <3>3. QED BY <3>1, <3>2, <1>6, <1>12, NoneDropped
  <2>10. Sound(rested, proc, claims, plans, now) BY <2>9, <1>13
  <2>11. Works(desired, x, o) BY Zenon, <1>2, <1>4 DEF Works, Verify, Row, ItemOf
  <2>12. desired.revisions[y].ready[m] = "WARMING" BY <2>4, <2>9, <2>11, <1>3, <1>6, RunningWarms
  <2>13. PICK s : s = Sess(desired, y) OBVIOUS
  <2>14. Sess(rested, y) = s /\ Sess(rested, rested.current) = Sess(desired, desired.current)
    BY <2>13, <1>6, <1>7, <1>11, <1>12, HistoryKept, HistoryFacts DEF Passes
  <2>15. IsServed(rested, y) /\ ch < Activation(s) => Settled(rested, plans, s)
    <3>1. SUFFICES ASSUME IsServed(rested, y), ch < Activation(s) PROVE Settled(rested, plans, s)
      OBVIOUS
    <3>2. IsServed(desired, y) BY <3>1, <1>11 DEF IsServed
    <3>3. Settled(desired, plans, s) BY <3>1, <3>2, <2>1, <2>11, <2>13, <1>2, <1>3, <1>5, <1>6 DEF Awaited
    <3>4. QED BY <3>3, <2>14 DEF Settled
  <2>16. Claimed(rested, proc, o, x, y, s, plans)
    BY <2>1, <2>14, <2>15, <1>2, <1>3, <1>5 DEF Claimed
  <2>17. rested.revisions[y].ready[m] = "WARMING" BY <2>12, <1>11
  <2>18. Sound(h, proc, claims, plans, now)
    BY <2>1, <2>2, <2>6, <2>7, <2>9, <2>10, <2>16, <2>17, SoundPromoted
  <2>19. QED BY <2>18, <1>8
<1>16. QED BY <1>10, <1>14, <1>15

LEMMA SoundRests ==
  ASSUME NEW d, NEW P, NEW c \in Nat, NEW pl, NEW t \in Nat, Sound(d, P, c, pl, t),
         NEW e, WellFormed(e), Dropped(e) = {}, Passes(d, e, None, {}),
         NEW Q, Fewer(P, Q), NEW u \in Nat, t <= u
  PROVE  Disciplined(e, Q, c, pl, u)
<1>1. WellFormed(d) /\ Dated(d, P, t) /\ Disciplined(d, P, c, pl, t) BY DEF Sound
<1>2. Goes(d, e, P, c) /\ Opened(d, e) = {} BY GoesPasses
<1>3. RowsKept(d, e, None) BY DEF Passes
<1>4. NewPlans(e, pl, pl) BY DEF NewPlans
<1>5. Proceeds(d, e, P, Q, c, pl, pl, t) BY <1>2, <1>3, <1>4 DEF Proceeds
<1>6. QED BY <1>1, <1>5, DisciplineGoes

LEMMA ProcessDated == ASSUME IInv PROVE Dated(desired, proc, now)
<1>1. ASSUME NEW o \in Lives(proc)
      PROVE  o # None /\ Holds(proc[o], desired) /\ proc[o].checked \in Nat /\ proc[o].checked <= now
  BY PreparationAssumption DEF IInv, Processes, Places, Lives
<1>2. QED BY <1>1 DEF Dated

(* A process lets go of its claim, or stays with it.                          *)
LEMMA LeavesFewer ==
  ASSUME Processes, NEW o \in Owners, NEW x, x.pc = "off" \/ x = [proc[o] EXCEPT !.pc = "fetch"],
         proc[o].pc = "off" => x.pc = "off", NEW Q, Q = [proc EXCEPT ![o] = x]
  PROVE  Fewer(proc, Q)
<1> SUFFICES ASSUME NEW p \in Lives(Q)
             PROVE  /\ p \in Lives(proc) /\ proc[p].revision = Q[p].revision
                    /\ proc[p].reading = Q[p].reading /\ proc[p].checked = Q[p].checked
                    /\ proc[p].member = Q[p].member /\ proc[p].stage = Q[p].stage
  BY DEF Fewer
<1>1. p \in Owners /\ proc \in [Owners -> Places] /\ proc[o] \in Places BY DEF Lives, Processes
<1>2. CASE p # o
  <2>1. Q[p] = proc[p] BY <1>1, <1>2
  <2>2. QED BY <2>1, <1>1 DEF Lives
<1>3. CASE p = o
  <2>1. Q[p] = x /\ x.pc # "off" BY <1>1, <1>3 DEF Lives
  <2>2. proc[p].pc # "off" /\ x = [proc[p] EXCEPT !.pc = "fetch"] BY <2>1, <1>3
  <2>3. QED BY <2>1, <2>2, <1>1, <1>3 DEF Lives, Places
<1>4. QED BY <1>2, <1>3

(* A member that was dropped may be READY with work of it running, which the  *)
(* argument about the claims excludes (RunningWarms).                         *)
Discipline == Dropped(desired) = {} => Disciplined(desired, proc, claims, plans, now)

LEMMA SoundNow ==
  ASSUME IInv, Discipline, [Next]_vars, Dropped(desired') = {}
  PROVE  Sound(desired, proc, claims, plans, now)
<1>1. WellFormed(desired) /\ (Transacts(desired, desired') \/ desired' = desired) BY Evolution
<1>2. Dropped(desired) = {} BY <1>1, NoneDropped DEF Transacts
<1>3. Dated(desired, proc, now) BY ProcessDated
<1>4. QED BY <1>1, <1>2, <1>3 DEF Discipline, Sound

LEMMA DisciplineProcess ==
  ASSUME IInv, Sound(desired, proc, claims, plans, now), NEW o \in Owners, Step(o),
         Dropped(desired') = {}
  PROVE  Disciplined(desired', proc', claims', plans', now')
<1>1. /\ now \in 0..MaxTime /\ now \in Nat /\ claims \in Nat
      /\ WellFormed(desired) /\ WithinBound(desired) /\ Processes
  BY DesiredAssumption DEF IInv, Processes
<1>2. WellFormed(desired') /\ now' = now /\ plans' = plans BY ProcessKeeps DEF Transacts
<1>3. PICK h, Q : h = desired' /\ Q = proc' OBVIOUS
<1>4. now <= now /\ WellFormed(h) /\ Dropped(h) = {} BY <1>1, <1>2, <1>3
<1>5. CASE Claim(o)
  <2>1. PICK at : at = 2 * (claims + 1) OBVIOUS
  <2>2. PICK x \in Places : /\ proc' = [proc EXCEPT ![o] = x]
                            /\ x.checked = now /\ x.reading = at /\ x.revision = desired.current
    BY <2>1, <1>1, <1>5, ClaimTransacts
  <2>3. Passes(desired, h, o, {}) BY <1>1, <1>3, <1>5, ClaimTransacts
  <2>4. Q[o] = x /\ \A p \in Owners \ {o} : Q[p] = proc[p]
    BY <2>2, <1>1, <1>3 DEF Processes
  <2>5. Claims(proc, Q, o, desired.current, at) BY <2>2, <2>4 DEF Claims, Lives
  <2>6. Q[o].checked = now BY <2>2, <2>4
  <2>7. Dated(desired, proc, now) /\ Disciplined(desired, proc, claims, plans, now) BY DEF Sound
  <2>8. Disciplined(h, Q, claims + 1, plans, now)
    BY <2>1, <2>3, <2>5, <2>6, <2>7, <1>1, <1>4, DisciplineClaims
  <2>9. claims' = claims + 1 BY <1>5 DEF Claim
  <2>10. QED BY <2>8, <2>9, <1>2, <1>3
<1>6. ASSUME Passes(desired, h, None, {}), Fewer(proc, Q), claims' = claims
      PROVE  Disciplined(desired', proc', claims', plans', now')
  <2>1. Disciplined(h, Q, claims, plans, now) BY <1>1, <1>4, <1>6, SoundRests
  <2>2. QED BY <2>1, <1>2, <1>3, <1>6
<1>7. CASE Reserve(o)
  <2>1. PICK r, m, k : r = proc[o].revision /\ m = proc[o].member /\ k = proc[o].stage OBVIOUS
  <2>2. Holds(proc[o], desired) BY <1>1, <1>7 DEF Processes, Reserve
  <2>3. r \in DOMAIN desired.revisions /\ m \in DOMAIN desired.revisions[r].work /\ k \in 1..Stages
    BY <2>1, <2>2 DEF Holds
  <2>4. desired.revisions[r].reserved[m] \in Nat /\ Slots[k] \in Nat BY <2>3, <1>1, RowType, NumberFacts
  <2>5. PICK reserved : reserved = desired.revisions[r].reserved[m] + Slots[k] OBVIOUS
  <2>6. reserved \in Nat BY <2>4, <2>5
  <2>7. h = Reserving(desired, r, m, reserved)
    BY Zenon, <2>1, <2>5, <1>3, <1>7 DEF Reserve, RevisionOf, Reserving
  <2>8. Passes(desired, h, None, {}) BY <2>3, <2>6, <2>7, <1>1, ReservingPasses
  <2>9. PICK x : x = [proc[o] EXCEPT !.pc = "fetch"] OBVIOUS
  <2>10. Q = [proc EXCEPT ![o] = x] BY <2>9, <1>1, <1>3, <1>7 DEF Reserve, Processes
  <2>11. proc[o].pc # "off" BY <1>7 DEF Reserve
  <2>12. Fewer(proc, Q) BY <2>9, <2>10, <2>11, <1>1, LeavesFewer
  <2>13. claims' = claims BY <1>7 DEF Reserve
  <2>14. QED BY <2>8, <2>12, <2>13, <1>6
<1>8. CASE Block(o) \/ Complete(o) \/ Retry(o) \/ Stop(o)
  <2>1. claims' = claims /\ proc' = [proc EXCEPT ![o] = Off]
    BY <1>8 DEF Block, Complete, Retry, Stop, Leave
  <2>2. Fewer(proc, Q)
    <3>1. PICK x : x = Off OBVIOUS
    <3>2. Q = [proc EXCEPT ![o] = x] /\ x.pc = "off" BY <3>1, <2>1, <1>3, OffFacts
    <3>3. QED BY <3>2, <1>1, LeavesFewer
  <2>3. CASE Block(o)
    <3>1. proc[o].pc # "off" /\ Verify(o) /\ h = Blocked(o, 0) BY <2>3, <1>3 DEF Block
    <3>2. Passes(desired, h, None, {}) BY <3>1, <1>1, BlockedFacts
    <3>3. QED BY <3>2, <2>1, <2>2, <1>6
  <2>4. CASE Retry(o)
    <3>1. proc[o].pc # "off" /\ Verify(o) BY <2>4 DEF Retry
    <3>2. PICK k, mark : k = proc[o].stage /\ mark = proc[o].mark OBVIOUS
    <3>3. PICK requests \in 0..Slots[k] :
            h = Blocked(o, requests) \/ h = Rested(o, "RETRY", mark, requests)
      BY <2>4, <3>2, <1>3 DEF Retry
    <3>4. k \in 1..Stages /\ mark \in Nat BY Zenon, <3>1, <3>2, <1>1, Held
    <3>5. requests \in Nat
      <4>1. Slots[k] \in Nat BY <3>4, NumberFacts
      <4>2. QED BY <4>1
    <3>6. Passes(desired, h, None, {})
      <4>1. CASE h = Blocked(o, requests) BY <4>1, <3>1, <3>5, <1>1, BlockedFacts
      <4>2. CASE h = Rested(o, "RETRY", mark, requests)
        <5>1. Rests(o, "RETRY", mark, requests, h) BY <4>2, <3>1, <3>4, <3>5 DEF Rests
        <5>2. PICK r, m, j : At(o, r, m, j) BY DEF At
        <5>3. QED BY <5>1, <5>2, <1>1, RestedFacts
      <4>3. QED BY <4>1, <4>2, <3>3
    <3>7. QED BY <3>6, <2>1, <2>2, <1>6
  <2>5. CASE Stop(o)
    <3>1. h = desired BY <2>5, <1>3 DEF Stop
    <3>2. Passes(desired, h, None, {}) BY <3>1, <1>1, PassesNothing
    <3>3. QED BY <3>2, <2>1, <2>2, <1>6
  <2>6. CASE Complete(o)
    <3>1. Sound(h, proc, claims, plans, now) BY <2>6, <1>1, <1>3, <1>4, SoundComplete
    <3>2. Passes(h, h, None, {}) BY <1>4, PassesNothing
    <3>3. Disciplined(h, Q, claims, plans, now) BY <3>1, <3>2, <2>2, <1>1, <1>4, SoundRests
    <3>4. QED BY <3>3, <2>1, <1>2, <1>3
  <2>7. QED BY <1>8, <2>3, <2>4, <2>5, <2>6
<1>9. QED BY <1>5, <1>7, <1>8 DEF Step

LEMMA DisciplineKept == IInv /\ Discipline /\ [Next]_vars => Discipline'
<1> SUFFICES ASSUME IInv, Discipline, [Next]_vars, Dropped(desired') = {}
             PROVE  Disciplined(desired', proc', claims', plans', now')
  BY DEF Discipline
<1>1. now \in Nat /\ claims \in Nat /\ now \in 0..MaxTime /\ WellFormed(desired)
  BY DesiredAssumption DEF IInv, Processes
<1>2. Sound(desired, proc, claims, plans, now) BY SoundNow
<1>3. ASSUME Sound(desired', proc, claims, plans', now), now' = now, proc' = proc, claims' = claims
      PROVE  Disciplined(desired', proc', claims', plans', now')
  BY <1>3 DEF Sound
<1>4. CASE UNCHANGED vars BY <1>2, <1>4 DEF vars, Sound
<1>5. CASE Tick
  <2>1. /\ desired' = desired /\ plans' = plans /\ proc' = proc /\ claims' = claims
        /\ now' = now + 1
    BY <1>5 DEF Tick
  <2>2. PICK u : u = now' OBVIOUS
  <2>3. u \in Nat /\ now <= u BY <2>1, <2>2, <1>1
  <2>4. Passes(desired, desired, None, {}) /\ Fewer(proc, proc) BY <1>1, PassesNothing DEF Fewer
  <2>5. Dropped(desired) = {} BY <2>1
  <2>6. Disciplined(desired, proc, claims, plans, u) BY <2>3, <2>4, <2>5, <1>1, <1>2, SoundRests
  <2>7. QED BY <2>1, <2>2, <2>6
<1>6. CASE \E o \in Owners : Step(o) BY <1>2, <1>6, DisciplineProcess
<1>7. CASE Apply(Reading) /\ UNCHANGED <<proc, claims>>
  <2>1. Sound(desired', proc, claims, plans, now) BY <1>1, <1>2, <1>7, SoundApply
  <2>2. now' = now /\ plans' = plans BY <1>7 DEF Apply
  <2>3. QED BY <2>1, <2>2, <1>3, <1>7
<1>8. CASE Ensure(Reading) /\ UNCHANGED <<proc, claims>>
  <2>1. Sound(desired', proc, claims, plans, now) BY <1>1, <1>2, <1>8, SoundEnsure
  <2>2. now' = now /\ plans' = plans BY <1>8 DEF Ensure
  <2>3. QED BY <2>1, <2>2, <1>3, <1>8
<1>9. CASE Activate(Reading) /\ UNCHANGED <<proc, claims>>
  <2>1. Sound(desired', proc, claims, plans', now) BY <1>1, <1>2, <1>9, SoundActivate
  <2>2. now' = now BY <1>9 DEF Activate
  <2>3. QED BY <2>1, <2>2, <1>3, <1>9
<1>10. QED BY <1>4, <1>5, <1>6, <1>7, <1>8, <1>9 DEF Next

(* At the start nothing was claimed, served or planned.                       *)
LEMMA DisciplineFirst == ASSUME Init PROVE Discipline
<1>1. /\ plans = {} /\ claims = 0 /\ proc = [o \in Owners |-> Off] /\ now = 0
      /\ desired = [revisions |-> <<NewRevision([revisions |-> <<>>], 1, 0, UNION Intents, 0)>>,
                    current |-> 1]
  BY DEF Init, InitDesired
<1>2. Lives(proc) = {} BY <1>1, OffFacts DEF Lives
<1>3. PICK v : v = NewRevision([revisions |-> <<>>], 1, 0, UNION Intents, 0) OBVIOUS
<1>4. v.session = 1 /\ v.recorded = 0 /\ v.source = 0 /\ v.snapshot = {} BY <1>3 DEF NewRevision
<1>5. desired.revisions = <<v>> /\ desired.current = 1 BY <1>1, <1>3
<1>6. DOMAIN desired.revisions = {1} /\ desired.revisions[1] = v BY <1>5
<1>7. /\ Sess(desired, 1) = 1 /\ Rec(desired, 1) = 0 /\ Src(desired, 1) = 0 /\ ~IsServed(desired, 1)
  BY <1>4, <1>6 DEF Sess, Rec, Src, IsServed
<1>8. \A i \in DOMAIN desired.revisions :
        /\ i = 1 /\ Src(desired, i) = 0 /\ ~IsServed(desired, i) /\ Rec(desired, i) = 0
        /\ ~IsPromotion(desired, i) /\ ~IsForwarded(desired, i)
  BY <1>6, <1>7 DEF IsPromotion, IsForwarded
<1>9. Latest(desired) /\ Sourced(desired) /\ Keyed(desired)
  BY <1>5, <1>8 DEF Latest, AtMost, Sourced, Keyed
<1>10. PromotedFrom(desired) /\ ForwardedFrom(desired) BY <1>8 DEF PromotedFrom, ForwardedFrom
<1>11. Numbering(desired) /\ Clocks(desired, proc, claims)
  BY <1>1, <1>2, <1>8 DEF Numbering, Clocks
<1>12. \A y, t : ~Drawn(desired, proc, y, t) BY <1>2, <1>8 DEF Drawn, Carrier
<1>13. Ordered(desired, proc, claims)
  BY <1>9, <1>10, <1>11, <1>12 DEF Ordered, DrawnInOrder, DrawnAfter
<1>14. Apart(desired) /\ Supplied(desired) BY <1>8 DEF Apart, Beside, Supplied
<1>15. Timely(desired, now) /\ ReadInOrder(proc) /\ Awaited(desired, proc, plans)
  BY <1>2, <1>8 DEF Timely, ReadInOrder, Awaited
<1>16. PlansServed(desired, plans) BY <1>1 DEF PlansServed
<1>17. ASSUME NEW f PROVE Distinct(desired, f) /\ PlansLast(desired, f, plans)
  BY <1>1, <1>8 DEF Distinct, PlansLast, Leaders
<1>18. QED BY <1>13, <1>14, <1>15, <1>16, <1>17 DEF Discipline, Disciplined

LEMMA DisciplineInvariance == Spec => [](IInv /\ Discipline)
<1>1. Init => IInv /\ Discipline BY Initially, DisciplineFirst
<1>2. IInv /\ Discipline /\ [Next]_vars => IInv' /\ Discipline' BY InvariantKept, DisciplineKept
<1>3. QED BY <1>1, <1>2, PTL DEF Spec

\* Where no member was dropped, a session gets a second plan only if an operator changed
\* its members: whatever clock a late promotion works with and whatever is carried forward
\* meanwhile, of the revisions that go back to one record only the last that is served is
\* planned (promote_prepared_desired_member_cursor, ensure_desired_session_revision_cursor).
THEOREM PlansOfAChange == Spec => []OnePlanPerChange
<1>1. IInv /\ Discipline => OnePlanPerChange
  <2> SUFFICES ASSUME IInv, Discipline, Dropped(desired) = {}, NEW p \in plans, NEW q \in plans,
                      p.session = q.session, Origin[p.revision] = Origin[q.revision]
               PROVE  p = q
    BY DEF OnePlanPerChange
  <2>1. WellFormed(desired) /\ PlansOK /\ Disciplined(desired, proc, claims, plans, now)
    BY DEF IInv, Discipline
  <2>2. PICK f : f = Origin OBVIOUS
  <2>3. Lineage(f, desired) BY <2>1, <2>2, OriginTraces
  <2>4. p.revision = q.revision BY <2>1, <2>2, <2>3, DisciplinedPlans
  <2>5. p \in [session : Nat, revision : DOMAIN desired.revisions]
        /\ q \in [session : Nat, revision : DOMAIN desired.revisions]
    BY <2>1 DEF PlansOK
  <2>6. QED BY <2>4, <2>5
<1>2. QED BY <1>1, DisciplineInvariance, PTL
=============================================================================
