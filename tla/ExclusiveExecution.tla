------------------------- MODULE ExclusiveExecution -------------------------
(* What the window leases, the stage runs and their fences promise together:  *)
(* of each piece of work (a stage in a window) the attempts follow one        *)
(* another, one at a time, and only the attempt that is executing writes the  *)
(* work's data.  Nothing is said of processes, leases or crashes.             *)
EXTENDS Naturals

CONSTANT Work

VARIABLES
  begun,       \* [Work -> Nat], the attempts recorded so far
  executing,   \* [Work -> Nat], the attempt being executed, 0 for none
  data         \* [Work -> Nat], the attempt whose data is stored, 0 for none

vars == <<begun, executing, data>>

Init ==
  /\ begun = [k \in Work |-> 0]
  /\ executing = [k \in Work |-> 0]
  /\ data = [k \in Work |-> 0]

Begin(k) ==
  /\ executing[k] = 0
  /\ begun' = [begun EXCEPT ![k] = @ + 1]
  /\ executing' = [executing EXCEPT ![k] = begun[k] + 1]
  /\ UNCHANGED data

\* Attempts that are only recorded (blocked, missed, unavailable).
Record(K) ==
  /\ begun' = [k \in Work |-> IF k \in K THEN begun[k] + 1 ELSE begun[k]]
  /\ UNCHANGED <<executing, data>>

\* Executions end: they report, time out, or their owner is known to be gone.
Stop(K) ==
  /\ executing' = [k \in Work |-> IF k \in K THEN 0 ELSE executing[k]]
  /\ UNCHANGED <<begun, data>>

Write(k) ==
  /\ executing[k] # 0
  /\ data' = [data EXCEPT ![k] = executing[k]]
  /\ UNCHANGED <<begun, executing>>

Next ==
  \/ \E k \in Work : Begin(k) \/ Write(k)
  \/ \E K \in SUBSET Work : Record(K) \/ Stop(K)

Spec == Init /\ [][Next]_vars
=============================================================================
