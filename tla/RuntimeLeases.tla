--------------------------- MODULE RuntimeLeases ---------------------------
(* The durable runtime leases of advanced_realtime_fencing.py: one row of     *)
(* rt.worker_leases per resource, taken over only once it has lapsed, under   *)
(* an epoch that grows with every claim.  These operators are the statements  *)
(* of that module; EquityRollover and RuntimeFencing use them.                *)
EXTENDS Integers

CONSTANTS
  LeaseSeconds,   \* the duration of a lease
  None            \* no owner

ASSUME LeaseAssumption == LeaseSeconds \in Nat \ {0}

NoRow == [owner |-> None, epoch |-> 0, until |-> 0]

\* A lease that no statement recognizes.
NoLease == NoRow

\* claim_durable_runtime_lease_cursor: the row is new, or it has lapsed at t.
Claimable(row, t) == row.epoch = 0 \/ row.until <= t
Claimed(row, o, t) == [owner |-> o, epoch |-> row.epoch + 1, until |-> t + LeaseSeconds]

\* The row is still that of the claim that returned this lease.
Owns(row, lease) ==
  row.epoch # 0 /\ row.owner = lease.owner /\ row.epoch = lease.epoch

\* assert_durable_runtime_lease_cursor.
Valid(row, lease, t) == Owns(row, lease) /\ row.until > t

\* renew_durable_runtime_lease_cursor: a valid lease runs anew from t.
Renewed(row, t) == [row EXCEPT !.until = t + LeaseSeconds]

\* release_durable_runtime_lease_cursor: the row lapses at t, be it valid or not.
ReleasedAt(row, lease, t) == IF Owns(row, lease) THEN [row EXCEPT !.until = t] ELSE row
=============================================================================
