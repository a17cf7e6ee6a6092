----------------------------- MODULE QuotaLedger -----------------------------
(***************************************************************************)
(* What quota reservation promises, without reads, versions and retries: a *)
(* daily allowance, where asking for a positive amount is granted or       *)
(* refused at one instant, granted if and only if the amount fits at that  *)
(* instant; or given up without having counted.  Commit and Release move   *)
(* amounts of either sign, up to what is reserved.                         *)
(***************************************************************************)
EXTENDS Integers

CONSTANTS Quota, Caller, Amount, DailyLimit

VARIABLES
  used,      \* committed amount of each quota
  reserved,  \* granted and not yet committed or released
  request    \* what each caller asks for, and the answer it has

ledger == <<used, reserved, request>>

NoRequest == [state |-> "none"]
Request(q, n, state) == [state |-> state, quota |-> q, amount |-> n]

Fits(q, n) == used[q] + reserved[q] + n <= DailyLimit

Init ==
  /\ used = [q \in Quota |-> 0]
  /\ reserved = [q \in Quota |-> 0]
  /\ request = [c \in Caller |-> NoRequest]

Ask(c, q, n) ==
  /\ n > 0
  /\ request[c] = NoRequest
  /\ request' = [request EXCEPT ![c] = Request(q, n, "pending")]
  /\ UNCHANGED <<used, reserved>>

Grant(c, q, n) ==
  /\ request[c] = Request(q, n, "pending")
  /\ Fits(q, n)
  /\ reserved' = [reserved EXCEPT ![q] = reserved[q] + n]
  /\ request' = [request EXCEPT ![c] = Request(q, n, "granted")]
  /\ UNCHANGED used

Refuse(c, q, n) ==
  /\ request[c] = Request(q, n, "pending")
  /\ ~Fits(q, n)
  /\ request' = [request EXCEPT ![c] = Request(q, n, "refused")]
  /\ UNCHANGED <<used, reserved>>

\* The caller has its answer, or none at all.
Leave(c) ==
  /\ request' = [request EXCEPT ![c] = NoRequest]
  /\ UNCHANGED <<used, reserved>>

Commit(q, n) ==
  /\ n <= reserved[q]
  /\ reserved' = [reserved EXCEPT ![q] = reserved[q] - n]
  /\ used' = [used EXCEPT ![q] = used[q] + n]
  /\ UNCHANGED request

Release(q, n) ==
  /\ n <= reserved[q]
  /\ reserved' = [reserved EXCEPT ![q] = reserved[q] - n]
  /\ UNCHANGED <<used, request>>

Next ==
  \/ \E c \in Caller, q \in Quota, n \in Amount : Ask(c, q, n) \/ Grant(c, q, n) \/ Refuse(c, q, n)
  \/ \E c \in Caller : Leave(c)
  \/ \E q \in Quota, n \in Amount : Commit(q, n) \/ Release(q, n)

Spec == Init /\ [][Next]_ledger
=============================================================================
