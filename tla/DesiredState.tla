---------------------------- MODULE DesiredState ----------------------------
(* The desired state: revisions of the members to acquire, the readiness of   *)
(* each member, the pointer to the current revision, the immutable snapshot   *)
(* of a session, and the plan the controller pins for it                      *)
(* (advanced_realtime_desired_state_repository.py,                            *)
(* advanced_equity_lifecycle.py, run_realtime_v2_advanced_controller.py).     *)
(* The operators map one desired state to the next, so that a transaction of  *)
(* several steps is their composition; EquityPreparation adds the processes   *)
(* that prepare members.                                                      *)
EXTENDS Integers, Sequences, FiniteSets

CONSTANTS
  Base,           \* the members of the source cohort
  Intents,        \* the sets of members an operator may ask for
  Stages,         \* the number of stages of a member's preparation
  Day,            \* ticks from one session to the next
  None,           \* no owner
  MaxRevisions,   \* bound: revisions recorded
  MaxTime         \* bound: the clock

ASSUME DesiredAssumption ==
  /\ Stages \in Nat \ {0} /\ Day \in Nat /\ Day > 2
  /\ MaxRevisions \in Nat \ {0} /\ MaxTime \in Nat
  /\ Base # {} /\ UNION Intents \in Intents /\ \A c \in Intents : Base \subseteq c

VARIABLES
  now,      \* the clock of the database and of every process
  desired,  \* the revisions in the order they were recorded, and the current one
  plans     \* rt.advanced_ingress_plans: the session and the revision of each

-----------------------------------------------------------------------------
(* Sessions.  A session is activated a tick before it opens and ends a tick   *)
(* after; the rest of a day is the time in which members are prepared.        *)

Activation(s) == Day * s - 2
Open(s) == Day * s - 1
Close(s) == Day * s
Session(t) == t \div Day + 1
MarketHours(t) == t >= Open(Session(t))

\* effective_next_session: a change made in market hours is for the next session.
EffectiveNext(t) == IF MarketHours(t) THEN Session(t) + 1 ELSE Session(t)

-----------------------------------------------------------------------------
(* Revisions.  One is identified by its session, its source cohort (that of    *)
(* the snapshot of another revision, or 0) and its members.                    *)

Pending == [status |-> "PENDING", owner |-> None, until |-> 0, mark |-> 0]

SourceBase(d, source) == IF source = 0 THEN Base ELSE d.revisions[source].snapshot

\* _persist_desired_members_cursor and _persist_equity_preparation_work_cursor:
\* the members of the source cohort are READY, the others have all to be prepared.
NewRevision(d, s, source, members, at) ==
  LET base == SourceBase(d, source) IN
  [session |-> s, recorded |-> at, source |-> source, members |-> members, snapshot |-> {},
   ready |-> [m \in members |-> IF m \in base THEN "READY" ELSE "WARMING"],
   work |-> [m \in members \ base |-> [k \in 1..Stages |-> Pending]],
   reserved |-> [m \in members \ base |-> 0],
   used |-> [m \in members \ base |-> 0]]

Same(d, s, source, members) ==
  {i \in DOMAIN d.revisions :
     /\ d.revisions[i].session = s /\ d.revisions[i].source = source
     /\ d.revisions[i].members = members}

\* Deliberate error: the pointer goes by the order of the records, not by the clock
\* the process had read before.
LaterRecord(d, i, j) ==
  \/ d.revisions[i].session > d.revisions[j].session
  \/ d.revisions[i].session = d.revisions[j].session /\ i > j

\* _select_current_desired_state_revision_cursor: the session decides, then the
\* clock the process had read when it recorded the revision, or before.
Later(d, i, j) ==
  LET new == d.revisions[i]
      old == d.revisions[j]
  IN  \/ new.session > old.session
      \/ new.session = old.session /\ new.recorded > old.recorded
      \/ new.session = old.session /\ new.recorded = old.recorded /\ i > j

\* _record_desired_state_revision_cursor: the revision and the desired state.
\* One that is there already is neither changed nor recorded anew.
Recorded(d, s, source, members, at) ==
  LET same == Same(d, s, source, members)
      r == IF same # {} THEN CHOOSE i \in same : TRUE ELSE Len(d.revisions) + 1
      e == IF same # {} THEN d
           ELSE [d EXCEPT !.revisions = Append(@, NewRevision(d, s, source, members, at))]
  IN  [revision |-> r, desired |-> [e EXCEPT !.current = IF Later(e, r, d.current) THEN r ELSE d.current]]

-----------------------------------------------------------------------------
(* reconcile_desired_state_revision_cursor.                                    *)

Having(revision, status) == {m \in revision.members : revision.ready[m] = status}

\* A member of the source cohort that failed blocks the snapshot; a changed
\* universe needs a capability profile of its own, which is either fresh or not.
Materializes(d, r, at, partial, fresh) ==
  LET revision == d.revisions[r]
      base == SourceBase(d, revision.source)
  IN  /\ Having(revision, "FAILED") \cap base = {}
      /\ at >= Activation(revision.session)
      /\ partial \/ Having(revision, "WARMING") = {}
      /\ fresh \/ Having(revision, "READY") = base

\* Deliberate error: the snapshot follows the readiness of the members.
RefreshedSnapshot(d, r, at, partial, fresh) ==
  IF Materializes(d, r, at, partial, fresh)
  THEN [d EXCEPT !.revisions[r].snapshot = Having(d.revisions[r], "READY")]
  ELSE d

\* The snapshot has the members that are READY, and is made once.
Reconciled(d, r, at, partial, fresh) ==
  IF d.revisions[r].snapshot = {} /\ Materializes(d, r, at, partial, fresh)
  THEN [d EXCEPT !.revisions[r].snapshot = Having(d.revisions[r], "READY")]
  ELSE d

-----------------------------------------------------------------------------
(* promote_prepared_desired_member_cursor.                                     *)

\* Deliberate error: the owner of work that runs is carried with it.
CarriedWithOwner(row) ==
  [row EXCEPT !.status = IF @ = "RUNNING" THEN "RETRY" ELSE @]

\* The work as it is carried to another revision: nobody holds it there.
CarriedRow(row) ==
  [row EXCEPT !.status = IF @ = "RUNNING" THEN "RETRY" ELSE @, !.owner = None, !.until = 0]

\* Deliberate error: the readiness is carried to the promoted revision, the work is not.
CarriedReadiness(d, r, p) ==
  LET from == d.revisions[r]
      to == d.revisions[p]
  IN  [d EXCEPT !.revisions[p].ready =
         [m \in to.members |-> IF m \in from.members THEN from.ready[m] ELSE to.ready[m]]]

\* Readiness, progress and use of the members of r, copied over those of p.
Carried(d, r, p) ==
  LET from == d.revisions[r]
      to == d.revisions[p]
      both == DOMAIN to.work \cap DOMAIN from.work
  IN  [d EXCEPT !.revisions[p] =
        [to EXCEPT
          !.ready = [m \in to.members |-> IF m \in from.members THEN from.ready[m] ELSE to.ready[m]],
          !.work = [m \in DOMAIN to.work |-> IF m \in both
                      THEN [k \in 1..Stages |-> CarriedRow(from.work[m][k])] ELSE to.work[m]],
          !.used = [m \in DOMAIN to.work |-> IF m \in both THEN from.used[m] ELSE to.used[m]]]]

Pinned(s) == \E plan \in plans : plan.session = s

\* Deliberate error: only the clock tells whether the session is already planned.
TargetByClock(s, checked) == IF checked >= Activation(s) THEN s + 1 ELSE s

\* The session a member that missed the snapshot of s is promoted to.
Target(s, checked) == IF checked >= Activation(s) \/ Pinned(s) THEN s + 1 ELSE s

\* From activation on the snapshot is made first, without the member; where it
\* cannot be made the member stays as it is.
Promoted(d, r, m, checked, at, fresh) ==
  LET s == d.revisions[r].session
      active == IF checked >= Activation(s) THEN Reconciled(d, r, Activation(s), TRUE, fresh) ELSE d
      snapshot == active.revisions[r].snapshot
      ready == [active EXCEPT !.revisions[r].ready[m] = "READY"]
      next == Recorded(ready, Target(s, checked), r, d.revisions[r].members, at)
      p == next.revision
      carried == Carried(next.desired, r, p)
  IN
  IF snapshot = {} /\ checked >= Activation(s) THEN active
  ELSE IF snapshot = {} \/ m \in snapshot THEN ready
  ELSE IF checked < Activation(carried.revisions[p].session) THEN carried
  ELSE Reconciled(carried, p, checked, TRUE, fresh)

-----------------------------------------------------------------------------
(* The operator and the controller.                                            *)

\* load_effective_desired_state_reconciliation_cursor: the current revision, or
\* for an earlier session the last one that has a snapshot, if there is one.
Effective(d, s) ==
  LET served == {i \in DOMAIN d.revisions :
                   d.revisions[i].session <= s /\ d.revisions[i].snapshot # {}}
  IN  IF d.revisions[d.current].session <= s THEN {d.current}
      ELSE {i \in served : \A j \in served \ {i} : Later(d, i, j)}

\* ensure_desired_session_revision_cursor: the members of the effective revision e
\* are carried forward to session s, once it has a snapshot to start from.
Ensured(d, e, s, at, fresh) ==
  LET settled == Reconciled(d, e, now, FALSE, fresh) IN
  IF d.revisions[e].session = s THEN [revision |-> e, desired |-> d]
  ELSE IF settled.revisions[e].snapshot = {} THEN [revision |-> e, desired |-> settled]
  ELSE Recorded(settled, s, e, settled.revisions[e].members, at)

WithinBound(d) == Len(d.revisions) <= MaxRevisions

\* An operator asked for every member, at the end of the session before.
InitDesired ==
  /\ now = 0
  /\ desired = [revisions |-> <<NewRevision([revisions |-> <<>>], 1, 0, UNION Intents, 0)>>,
                current |-> 1]
  /\ plans = {}

\* apply_desired_state.
Apply(at) ==
  \E c \in Intents, fresh \in BOOLEAN :
    LET next == Recorded(desired, EffectiveNext(now), 0, c, at)
        after == Reconciled(next.desired, next.revision, now, FALSE, fresh)
    IN  /\ WithinBound(after) /\ desired' = after
        /\ UNCHANGED <<now, plans>>

\* The first transaction of the controller's loop.
Ensure(at) ==
  \E e \in Effective(desired, Session(now)), fresh \in BOOLEAN :
    LET after == Ensured(desired, e, Session(now), at, fresh).desired
    IN  /\ WithinBound(after) /\ desired' = after
        /\ UNCHANGED <<now, plans>>

\* _prepare_continuous_session_cursor: the snapshot of the session with what is
\* READY, and the plan that is pinned to it; all of it, or nothing.
Activate(at) ==
  \E e \in Effective(desired, Session(now)), fresh \in BOOLEAN :
    LET s == Session(now)
        ensured == Ensured(desired, e, s, at, fresh)
        r == ensured.revision
        after == Reconciled(ensured.desired, r, now, TRUE, fresh)
    IN  /\ now >= Activation(s)
        /\ after.revisions[r].snapshot # {} /\ after.revisions[r].session = s
        /\ WithinBound(after) /\ desired' = after
        /\ plans' = plans \cup {[session |-> s, revision |-> r]}
        /\ UNCHANGED now

-----------------------------------------------------------------------------
(* Properties of the desired state.                                            *)

\* A late promotion takes the desired state neither back to an earlier session nor
\* behind what was recorded since its process had read the clock.
CurrentGoesForward ==
  [][LET before == desired.revisions[desired.current]
         after == desired'.revisions[desired'.current]
     IN  \/ after.session > before.session
         \/ after.session = before.session /\ after.recorded >= before.recorded]_desired

\* The revision an operator asked for that another is carried from, in the end.
Origin ==
  LET origin[r \in DOMAIN desired.revisions] ==
        IF desired.revisions[r].source = 0 THEN r ELSE origin[desired.revisions[r].source]
  IN  origin

\* The members that a session was served with and a later one, carried from it, was
\* not: a promotion had copied an older readiness of theirs over that of the source.
Dropped(d) ==
  UNION {SourceBase(d, revision.source) \ revision.snapshot :
           revision \in {d.revisions[r] : r \in {i \in DOMAIN d.revisions : d.revisions[i].snapshot # {}}}}

\* A session gets a second plan, and with it a second budget, only if an operator
\* changed its members: a member that is ready late makes none, whatever clock its
\* process read and however often the members have been carried forward.  Of a dropped
\* member it is not so: it may be READY, by a readiness that was copied, while its work
\* runs, so that the snapshot a promotion makes has it and the session is not left.
OnePlanPerChange ==
  Dropped(desired) = {} =>
    \A p, q \in plans :
      p.session = q.session /\ Origin[p.revision] = Origin[q.revision] => p = q

\* Intended: a session's plan and its budget are pinned by the first activation,
\* "so a restart or same-day configuration change cannot create a second usage
\* ledger" (docs/REALTIME_V3_PIPELINE.md).
FirstPlanPinned ==
  \A p, q \in plans : p.session = q.session => p = q
=============================================================================
