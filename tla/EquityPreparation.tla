-------------------------- MODULE EquityPreparation --------------------------
(* The preparation of members that are not ready (advanced_equity_preparation.py): *)
(* processes claim the stages of a member under a lease, one chunk at a time,  *)
(* reserve the provider's requests, fetch, and commit the chunk with the        *)
(* promotion of the member once its last stage is complete.                     *)
EXTENDS DesiredState

CONSTANTS
  Owners,          \* the processes that prepare members
  Chunks,          \* [stages -> Nat]: chunks of a stage
  Slots,           \* [stages -> Nat]: provider requests of a chunk
  Concurrency,     \* EquityPreparationLimits.maximum_concurrency
  MemberRequests,  \* maximum_requests_per_member
  LeaseSeconds,    \* lease_seconds
  MaxClaims        \* bound: claims of all processes

ASSUME PreparationAssumption ==
  /\ Chunks \in [1..Stages -> Nat \ {0}] /\ Slots \in [1..Stages -> Nat]
  /\ {Concurrency, LeaseSeconds} \subseteq Nat \ {0} /\ {MemberRequests, MaxClaims} \subseteq Nat
  /\ None \notin Owners

VARIABLES
  proc,     \* the locals of each process: its claim, and the clock it read
  claims    \* claims made, for the bound

\* The clocks in the order they were read: even at a claim, odd between two claims.
Reading == 2 * claims + 1

vars == <<now, desired, plans, proc, claims>>

Off == [pc |-> "off", checked |-> 0, reading |-> 0, revision |-> 0, member |-> None, stage |-> 0, mark |-> 0]

Init == InitDesired /\ proc = [o \in Owners |-> Off] /\ claims = 0

-----------------------------------------------------------------------------

Items == {item \in (DOMAIN desired.revisions) \X (UNION Intents) \X (1..Stages) :
            item[2] \in DOMAIN desired.revisions[item[1]].work}
Row(item) == desired.revisions[item[1]].work[item[2]][item[3]]
ItemOf(o) == <<proc[o].revision, proc[o].member, proc[o].stage>>
RevisionOf(o) == desired.revisions[proc[o].revision]

\* The claims of any revision that run count.
Running == {item \in Items : Row(item).status = "RUNNING" /\ Row(item).until > now}

\* The backoff of a RETRY is over at some time.
Due(item) ==
  /\ item[1] = desired.current
  /\ desired.revisions[item[1]].ready[item[2]] = "WARMING"
  /\ \/ Row(item).status \in {"PENDING", "RETRY"}
     \/ Row(item).status = "RUNNING" /\ Row(item).until <= now
  /\ \A k \in 1..(item[3] - 1) : Row(<<item[1], item[2], k>>).status = "COMPLETE"

\* _verify_running_claim_cursor: not the clock of the lease, nor whether the
\* revision is still the current one.  An owner has one claim at a time.
Verify(o) ==
  LET row == Row(ItemOf(o)) IN
  row.status = "RUNNING" /\ row.owner = o /\ row.mark = proc[o].mark

\* The revision of a process's claim with its row at rest, at this mark.
AtRest(o, status, mark, requests) ==
  [RevisionOf(o) EXCEPT
     !.work[proc[o].member][proc[o].stage] =
       [status |-> status, owner |-> None, until |-> 0, mark |-> mark],
     !.used[proc[o].member] = @ + requests]

Rested(o, status, mark, requests) ==
  [desired EXCEPT !.revisions[proc[o].revision] = AtRest(o, status, mark, requests)]

\* block_equity_preparation_work_cursor: the member has FAILED with its work.
Blocked(o, requests) ==
  [desired EXCEPT !.revisions[proc[o].revision] =
     [AtRest(o, "BLOCKED", proc[o].mark, requests) EXCEPT !.ready[proc[o].member] = "FAILED"]]

Leave(o) == proc' = [proc EXCEPT ![o] = Off]

-----------------------------------------------------------------------------
(* run_once of a process.                                                      *)

\* claim_equity_preparation_work_cursor.  Nothing is claimed while live
\* acquisition has priority.
Claim(o) ==
  /\ proc[o].pc = "off" /\ ~MarketHours(now)
  /\ claims < MaxClaims /\ claims' = claims + 1
  /\ Cardinality(Running) < Concurrency
  /\ \E item \in Items :
       /\ Due(item)
       /\ desired' = [desired EXCEPT !.revisions[item[1]].work[item[2]][item[3]] =
            [@ EXCEPT !.status = "RUNNING", !.owner = o, !.until = now + LeaseSeconds]]
       /\ proc' = [proc EXCEPT ![o] =
            [pc |-> "claimed", checked |-> now, reading |-> 2 * claims', revision |-> item[1], member |-> item[2],
             stage |-> item[3], mark |-> Row(item).mark]]
  /\ UNCHANGED <<now, plans>>

\* reserve_equity_preparation_provider_requests_cursor; it does not ask whether
\* the claim is still held.
Reserve(o) ==
  LET reserved == RevisionOf(o).reserved[proc[o].member] + Slots[proc[o].stage] IN
  /\ proc[o].pc = "claimed" /\ reserved <= MemberRequests
  /\ desired' = [desired EXCEPT !.revisions[proc[o].revision].reserved[proc[o].member] = reserved]
  /\ proc' = [proc EXCEPT ![o].pc = "fetch"]
  /\ UNCHANGED <<now, plans, claims>>

\* The budget of the member or of the account is exhausted, what the provider
\* answers can never be prepared, or the chunk does not fit the member's budget.
Block(o) ==
  /\ proc[o].pc = "claimed" => Slots[proc[o].stage] > 0
  /\ proc[o].pc # "off" /\ Verify(o)
  /\ desired' = Blocked(o, 0) /\ Leave(o)
  /\ UNCHANGED <<now, plans, claims>>

Exhausted(o, requests) == RevisionOf(o).used[proc[o].member] + requests > MemberRequests

\* complete_equity_preparation_chunk_cursor.
Complete(o) ==
  LET mark == proc[o].mark + 1
      done == mark = Chunks[proc[o].stage]
      status == IF done THEN "COMPLETE" ELSE "PENDING"
      rested == Rested(o, status, mark, Slots[proc[o].stage])
  IN
  /\ proc[o].pc = "fetch" /\ Verify(o) /\ ~Exhausted(o, Slots[proc[o].stage])
  /\ \/ /\ ~(done /\ proc[o].stage = Stages)
        /\ desired' = rested
     \/ /\ done /\ proc[o].stage = Stages
        /\ \E fresh \in BOOLEAN :
             LET after == Promoted(rested, proc[o].revision, proc[o].member,
                                   proc[o].checked, proc[o].reading, fresh)
             IN  WithinBound(after) /\ desired' = after
  /\ Leave(o)
  /\ UNCHANGED <<now, plans, claims>>

\* retry_equity_preparation_work_cursor, with the requests that were made.
Retry(o) ==
  /\ proc[o].pc = "fetch" /\ Verify(o)
  /\ \E requests \in 0..Slots[proc[o].stage] :
       desired' = IF Exhausted(o, requests) THEN Blocked(o, requests)
                  ELSE Rested(o, "RETRY", proc[o].mark, requests)
  /\ Leave(o)
  /\ UNCHANGED <<now, plans, claims>>

\* The claim is found to be lost, or the process is: nothing it did is committed.
Stop(o) ==
  /\ proc[o].pc # "off" /\ Leave(o)
  /\ UNCHANGED <<now, desired, plans, claims>>

Tick ==
  /\ now < MaxTime /\ now' = now + 1
  /\ UNCHANGED <<desired, plans, proc, claims>>

Step(o) ==
  \/ Claim(o) \/ Reserve(o) \/ Block(o) \/ Complete(o) \/ Retry(o) \/ Stop(o)

Next ==
  \/ \E o \in Owners : Step(o)
  \/ Apply(Reading) /\ UNCHANGED <<proc, claims>>
  \/ Ensure(Reading) /\ UNCHANGED <<proc, claims>>
  \/ Activate(Reading) /\ UNCHANGED <<proc, claims>>
  \/ Tick

Spec == Init /\ [][Next]_vars

-----------------------------------------------------------------------------
(* Properties.                                                                 *)

Members == UNION Intents
Rows == [status : {"PENDING", "RUNNING", "RETRY", "COMPLETE", "BLOCKED"},
         owner : Owners \cup {None}, until : 0..(MaxTime + LeaseSeconds), mark : Nat]

\* The types of the variables; work that runs has an owner, and no other has.
TypeOK ==
  /\ now \in 0..MaxTime
  /\ desired.current \in DOMAIN desired.revisions /\ Len(desired.revisions) <= MaxRevisions
  /\ \A r \in DOMAIN desired.revisions :
       LET revision == desired.revisions[r] IN
       /\ revision.session \in Nat \ {0} /\ revision.recorded \in Nat
       /\ revision.source \in 0..(r - 1)
       /\ revision.members \in Intents /\ revision.snapshot \subseteq revision.members
       /\ revision.ready \in [revision.members -> {"WARMING", "READY", "FAILED"}]
       /\ \A m \in DOMAIN revision.work :
            /\ revision.work[m] \in [1..Stages -> Rows]
            /\ \A k \in 1..Stages :
                 revision.work[m][k].status = "RUNNING" <=> revision.work[m][k].owner # None
            /\ revision.reserved[m] \in Nat /\ revision.used[m] \in Nat
  /\ plans \subseteq [session : Nat, revision : DOMAIN desired.revisions]
  /\ \A o \in Owners : /\ proc[o].pc \in {"off", "claimed", "fetch"}
                       /\ proc[o].checked \in 0..now /\ proc[o].reading <= 2 * claims
                       /\ proc[o].pc # "off" => ItemOf(o) \in Items

Prepared(revision, m) == \A k \in 1..Stages : revision.work[m][k].status = "COMPLETE"

\* Readiness says what the work says, in every revision and whatever was carried
\* into it: a READY member has no stage left, a FAILED one a stage that is blocked.
\* Of a dropped member the one may be carried without the other.
ReadinessMatchesWork ==
  \A r \in DOMAIN desired.revisions :
    LET revision == desired.revisions[r] IN
    \A m \in DOMAIN revision.work \ Dropped(desired) :
      /\ revision.ready[m] = "READY" => Prepared(revision, m)
      /\ revision.ready[m] = "FAILED" <=>
           \E k \in 1..Stages : revision.work[m][k].status = "BLOCKED"

\* The membership of a session that is served is made once, of members that are of
\* its source or fully prepared, and does not change however readiness develops
\* ("existing active session membership remains unchanged").
SessionMembershipKept ==
  [][\A r \in DOMAIN desired'.revisions :
       LET after == desired'.revisions[r] IN
       IF r \in DOMAIN desired.revisions /\ desired.revisions[r].snapshot # {}
       THEN after.snapshot = desired.revisions[r].snapshot
       ELSE \A m \in (after.snapshot \cap DOMAIN after.work) \ Dropped(desired') :
              Prepared(after, m)]_desired
=============================================================================
