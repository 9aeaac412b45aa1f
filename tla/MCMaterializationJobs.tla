----------------------- MODULE MCMaterializationJobs -----------------------
(* Small instances of MaterializationJobs.                                    *)
EXTENDS MaterializationJobs, TLC

CONSTANTS run1, run2   \* two finalizer runs

RunSymmetry == Permutations(Members) \cup Permutations(Runners)

OneWindow == {1}
Deadlines == [w \in Windows |-> w]

\* The incremental finalizer run again: its lease owner is derived from the window.
SameWindow == [r \in Runners |-> 1]
SameOwner == [r \in Runners |-> 1]
=============================================================================
