----------------------------- MODULE StageGraph -----------------------------
(* Stage resolution: which stage of a window may run, must wait or is        *)
(* blocked, decided from the recorded states of its prerequisites.  Pure     *)
(* operators over a stage catalog (backend/realtime/stage_graph.py).         *)
EXTENDS Integers, FiniteSets

CONSTANTS
  Stages,          \* stage ids of one catalog version
  Prerequisites,   \* [Stages -> SUBSET Stages]
  LaneOf,          \* [Stages -> execution lane]
  Rank,            \* [Stages -> Nat], the position of a stage in its catalog
  Resident,        \* stages whose schedule kind is INTERVAL or CONTINUOUS
  Session,         \* stages whose schedule kind is SESSION
  Shared           \* stages of the "shared" domain

ASSUME CatalogAssumption ==
  /\ Prerequisites \in [Stages -> SUBSET Stages]
  /\ Rank \in [Stages -> Nat]
  /\ LaneOf \in [Stages -> {LaneOf[s] : s \in Stages}]
  /\ Resident \subseteq Stages
  /\ Session \subseteq Stages
  /\ Shared \subseteq Stages

\* The stage has no record in the window ("stage not in states").
Absent == "ABSENT"

NonCompletingStates ==
  {"FAILED", "BLOCKED_PREREQ", "BLOCKED_POLICY", "MISSED", "UNAVAILABLE"}
TerminalStates == NonCompletingStates \cup {"COMPLETE"}
ReadinessStates == {"READY", "DEGRADED", "BLOCKED", "WAITING_INPUT", Absent}

\* Deliberate error: a prerequisite that has not failed is good enough.
NotFailed(p, states, readiness, enabled) == states[p] \notin NonCompletingStates

\* A prerequisite is satisfied by a completed run, or by READY readiness when
\* it is a resident loop or is not part of this plan.
Satisfied(p, states, readiness, enabled) ==
  \/ states[p] = "COMPLETE"
  \/ /\ p \in Resident \/ p \notin enabled
     /\ readiness[p] = "READY"
     /\ states[p] = Absent

Blockers(s, states) == {p \in Prerequisites[s] : states[p] \in NonCompletingStates}

\* The stages that could still act: enabled, and neither settled, nor running,
\* nor deferred.
Undecided(s, states, enabled) ==
  s \in enabled /\ states[s] \notin TerminalStates \cup {"RUNNING", "DEFERRED"}

Decision(s, states, readiness, enabled) ==
  CASE s \notin enabled -> "SKIPPED_DISABLED"
    [] s \in enabled /\ states[s] \in TerminalStates -> "DONE"
    [] s \in enabled /\ states[s] \in {"RUNNING", "DEFERRED"} -> "WAIT"
    [] Undecided(s, states, enabled) /\ Blockers(s, states) # {} -> "BLOCK_PREREQ"
    [] OTHER -> IF \A p \in Prerequisites[s] : Satisfied(p, states, readiness, enabled)
                  THEN "RUN"
                  ELSE "WAIT"

\* Stages a resident service may start with, from readiness alone.
Startable(enabled, readiness) ==
  {s \in enabled :
     /\ readiness[s] # "BLOCKED"
     /\ s \in Resident => \A p \in Prerequisites[s] \cap Session : readiness[p] = "READY"
     /\ \A p \in Prerequisites[s] : readiness[p] # "BLOCKED" /\ (p \in enabled \/ p \in Shared)}

LanesRequired(enabled) == {LaneOf[s] : s \in enabled}
=============================================================================
