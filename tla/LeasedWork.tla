----------------------------- MODULE LeasedWork -----------------------------
(* What a queue of leased jobs promises: a job is granted any number of       *)
(* times, is finished at most once and only by the grant made last, and a     *)
(* job that was finished or given up is never granted again.                  *)
EXTENDS Naturals

CONSTANT Work

VARIABLES
  granted,   \* how often each job was granted
  finished,  \* 0, or the grant whose output was committed
  given      \* jobs given up: failed or blocked for good

vars == <<granted, finished, given>>

Init ==
  /\ granted = [x \in Work |-> 0]
  /\ finished = [x \in Work |-> 0]
  /\ given = {}

Open(x) == finished[x] = 0 /\ x \notin given

Same(x) ==
  granted'[x] = granted[x] /\ finished'[x] = finished[x] /\ (x \in given' <=> x \in given)
Grant(x) ==
  Open(x) /\ granted'[x] = granted[x] + 1 /\ finished'[x] = 0 /\ x \notin given'
Finish(x) ==
  /\ Open(x) /\ granted[x] # 0
  /\ granted'[x] = granted[x] /\ finished'[x] = granted[x] /\ x \notin given'
GiveUp(x) ==
  /\ Open(x) /\ granted[x] # 0
  /\ granted'[x] = granted[x] /\ finished'[x] = 0 /\ x \in given'

\* One claim may grant several jobs and give up others.
Next == \A x \in Work : Same(x) \/ Grant(x) \/ Finish(x) \/ GiveUp(x)

Spec == Init /\ [][Next]_vars
=============================================================================
