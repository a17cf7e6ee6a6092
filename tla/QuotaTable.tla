------------------------------ MODULE QuotaTable ------------------------------
(***************************************************************************)
(* One row of the table quotas, and what the statements of quota_repo.go   *)
(* do to it.  Used by the quota service and by the declaration service.    *)
(***************************************************************************)
EXTENDS Integers

CONSTANT DailyLimit     \* the configured limit

QuotaRow == [used : Int, reserved : Nat, version : Nat]

\* A row of version 0 does not exist yet.
NoQuota == [used |-> 0, reserved |-> 0, version |-> 0]

\* The row INSERTed by GetOrCreateQuota.
NewQuota == [used |-> 0, reserved |-> 0, version |-> 1]

\* Mutant of Remaining: committed amounts are forgotten.
RemainingOfReserved(row) == DailyLimit - row.reserved

\* daily_limit - used_amount - reserved_amount
Remaining(row) == DailyLimit - row.used - row.reserved

\* Quota.Available
Available(row) == IF Remaining(row) < 0 THEN 0 ELSE Remaining(row)

\* Mutant of ReleaseMatches: no test of the reserved amount.
ReleaseAnyAmount(row, n, version) == row.version = version

\* UPDATE ... WHERE id = ? AND version = ? AND <guard on the amounts>
ReserveMatches(row, n, version) == row.version = version /\ Remaining(row) >= n
CommitMatches(row, n, version)  == row.version = version /\ row.reserved >= n
ReleaseMatches(row, n, version) == row.version = version /\ row.reserved >= n

ReserveQuota(row, n) ==
  [used |-> row.used, reserved |-> row.reserved + n, version |-> row.version + 1]

CommitQuota(row, n) ==
  [used |-> row.used + n, reserved |-> row.reserved - n, version |-> row.version + 1]

ReleaseQuota(row, n) ==
  [used |-> row.used, reserved |-> row.reserved - n, version |-> row.version + 1]
=============================================================================
