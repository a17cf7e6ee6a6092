-------------------------------- MODULE Quota --------------------------------
(***************************************************************************)
(* Daily cabin and yard quotas: internal/quota over the table quotas.      *)
(*                                                                         *)
(* Reserve, Commit and Release are loops around one optimistic UPDATE:     *)
(* read the row, test it, write it if its version has not moved, and start *)
(* again a bounded number of times when it has.  Every action is one SQL   *)
(* statement or the answer of a call.  The declaration service reserves    *)
(* through a loop of its own that is statement for statement the same      *)
(* (declaration/submit.go).                                                *)
(*                                                                         *)
(* Reserve refuses an amount below 1.  Commit and Release take any: an     *)
(* amount below 0 passes their guard and adds to what is reserved.         *)
(*                                                                         *)
(* Not modelled: the audit row, the wait estimate and wording of an        *)
(* answer, the width of the integers.                                      *)
(***************************************************************************)
EXTENDS QuotaTable

CONSTANTS
  Quota,          \* (quota type, date) pairs: UNIQUE(quota_type, period_date)
  Caller,         \* goroutines that call the service
  Amount,         \* amounts clients send
  MaxRetries,     \* of Reserve (25 in the code)
  MaxAttempts,    \* of Commit and Release (5 in the code)
  MaxVersion      \* bound: no call starts on a row of this version

ASSUME QuotaAssumption ==
  /\ Amount \subseteq Int
  /\ DailyLimit \in Nat
  /\ MaxRetries \in Nat
  /\ MaxAttempts \in Nat \ {0}
  /\ MaxVersion \in Nat

VARIABLES
  quotas,   \* the table; a row of version 0 does not exist yet
  call,     \* local state of each caller
  raised    \* history: what releases of negative amounts added to each row

vars == <<quotas, call, raised>>

\* seen is the version read last.  since and busy are history: the version
\* when the call began, and how often its UPDATE found the database locked.
CallState ==
  [pc : {"select", "insert", "read", "write", "reserved", "rejected", "conflict"},
   op : {"reserve", "commit", "release"}, quota : Quota, amount : Amount,
   attempt : Nat, seen : Nat, since : Nat, busy : Nat]

Idle == [pc |-> "idle"]

Active(c) == call[c].pc # "idle"

TypeOK ==
  /\ quotas \in [Quota -> QuotaRow]
  /\ call \in [Caller -> CallState \cup {Idle}]
  /\ raised \in [Quota -> Nat]

Init ==
  /\ quotas = [q \in Quota |-> NoQuota]
  /\ call = [c \in Caller |-> Idle]
  /\ raised = [q \in Quota |-> 0]

-----------------------------------------------------------------------------
(* Calls. *)

Exists(q) == quotas[q].version # 0

Start(c, op, pc, q, n) ==
  /\ ~Active(c)
  /\ quotas[q].version < MaxVersion
  /\ call' = [call EXCEPT ![c] =
                [pc |-> pc, op |-> op, quota |-> q, amount |-> n, attempt |-> 0,
                 seen |-> 0, since |-> quotas[q].version, busy |-> 0]]
  /\ UNCHANGED <<quotas, raised>>

\* How many times an operation tries its UPDATE.
Attempts(op) == IF op = "reserve" THEN MaxRetries + 1 ELSE MaxAttempts

\* The head of the loop: another attempt, or Conflict.
Again(r, first) ==
  [r EXCEPT !.attempt = r.attempt + 1,
            !.pc = IF r.attempt + 1 < Attempts(r.op) THEN first ELSE "conflict"]

\* Mutant of Decide: the amount is left to the UPDATE to test.
DecideToWrite(r, row) == [r EXCEPT !.pc = "write", !.seen = row.version]

\* Reserve: what to do with the row GetOrCreateQuota returns.
Decide(r, row) ==
  [r EXCEPT !.pc = IF Remaining(row) < r.amount THEN "rejected" ELSE "write",
            !.seen = row.version]

\* Reserve is the only operation that looks at the sign of the amount.
ReserveStart(c, q, n) == n > 0 /\ Start(c, "reserve", "select", q, n)

\* GetOrCreateQuota, its SELECT (also the one after a lost INSERT).
GetQuota(c) ==
  /\ call[c].pc = "select"
  /\ call' = [call EXCEPT ![c] =
                IF Exists(@.quota) THEN Decide(@, quotas[@.quota])
                                   ELSE [@ EXCEPT !.pc = "insert"]]
  /\ UNCHANGED <<quotas, raised>>

\* Its INSERT; the unique key refuses the second of two.
CreateQuota(c) ==
  /\ call[c].pc = "insert"
  /\ IF Exists(call[c].quota)
     THEN /\ call' = [call EXCEPT ![c].pc = "select"]
          /\ UNCHANGED <<quotas, raised>>
     ELSE /\ quotas' = [quotas EXCEPT ![call[c].quota] = NewQuota]
          /\ call' = [call EXCEPT ![c] = Decide(@, NewQuota)]
          /\ UNCHANGED raised

\* Mutant of ReserveWrite: a successful UPDATE does not end the loop.
ReserveWriteAgain(c) ==
  /\ call[c].pc = "write" /\ call[c].op = "reserve"
  /\ LET r == call[c]
         row == quotas[r.quota]
     IN /\ quotas' = IF ReserveMatches(row, r.amount, r.seen)
                     THEN [quotas EXCEPT ![r.quota] = ReserveQuota(row, r.amount)]
                     ELSE quotas
        /\ call' = [call EXCEPT ![c] = Again(r, "select")]
        /\ UNCHANGED raised

ReserveWrite(c) ==
  /\ call[c].pc = "write" /\ call[c].op = "reserve"
  /\ LET r == call[c]
         row == quotas[r.quota]
     IN IF ReserveMatches(row, r.amount, r.seen)
        THEN /\ quotas' = [quotas EXCEPT ![r.quota] = ReserveQuota(row, r.amount)]
             /\ call' = [call EXCEPT ![c].pc = "reserved"]
             /\ UNCHANGED raised
        ELSE /\ call' = [call EXCEPT ![c] = Again(r, "select")]
             /\ UNCHANGED <<quotas, raised>>

\* IsRetryableContention: the UPDATE of Reserve found the database locked.
\* On the last attempt the error is returned.
ReserveBusy(c) ==
  /\ call[c].pc = "write" /\ call[c].op = "reserve"
  /\ LET r == call[c]
     IN call' = [call EXCEPT ![c] =
                   IF r.attempt < MaxRetries
                   THEN [r EXCEPT !.pc = "select", !.attempt = r.attempt + 1,
                                  !.busy = r.busy + 1]
                   ELSE Idle]
  /\ UNCHANGED <<quotas, raised>>

CommitStart(c, q, n) == Exists(q) /\ Start(c, "commit", "read", q, n)

ReleaseStart(c, q, n) == Exists(q) /\ Start(c, "release", "read", q, n)

\* GetQuota.  Commit returns when not enough is reserved, Release does not look.
ReadQuota(c) ==
  /\ call[c].pc = "read"
  /\ call' = [call EXCEPT ![c] =
                IF @.op = "commit" /\ quotas[@.quota].reserved < @.amount THEN Idle
                ELSE [@ EXCEPT !.pc = "write", !.seen = quotas[call[c].quota].version]]
  /\ UNCHANGED <<quotas, raised>>

CommitWrite(c) ==
  /\ call[c].pc = "write" /\ call[c].op = "commit"
  /\ LET r == call[c]
         row == quotas[r.quota]
     IN IF CommitMatches(row, r.amount, r.seen)
        THEN /\ quotas' = [quotas EXCEPT ![r.quota] = CommitQuota(row, r.amount)]
             /\ call' = [call EXCEPT ![c] = Idle]
             /\ UNCHANGED raised
        ELSE /\ call' = [call EXCEPT ![c] = Again(r, "read")]
             /\ UNCHANGED <<quotas, raised>>

\* By how much an amount is below 0.
Below0(n) == IF n < 0 THEN -n ELSE 0

ReleaseWrite(c) ==
  /\ call[c].pc = "write" /\ call[c].op = "release"
  /\ LET r == call[c]
         row == quotas[r.quota]
     IN IF ReleaseMatches(row, r.amount, r.seen)
        THEN /\ quotas' = [quotas EXCEPT ![r.quota] = ReleaseQuota(row, r.amount)]
             /\ raised' = [raised EXCEPT ![r.quota] = @ + Below0(r.amount)]
             /\ call' = [call EXCEPT ![c] = Idle]
        ELSE /\ call' = [call EXCEPT ![c] = Again(r, "read")]
             /\ UNCHANGED <<quotas, raised>>

\* The call returns its answer, or the error of a failed statement; after a
\* granted Reserve the failing statement is the re-read, and the amount stays
\* reserved.
Return(c) ==
  /\ Active(c)
  /\ call' = [call EXCEPT ![c] = Idle]
  /\ UNCHANGED <<quotas, raised>>

Next ==
  \E c \in Caller :
    \/ \E q \in Quota, n \in Amount :
         ReserveStart(c, q, n) \/ CommitStart(c, q, n) \/ ReleaseStart(c, q, n)
    \/ GetQuota(c) \/ CreateQuota(c) \/ ReserveWrite(c) \/ ReserveBusy(c)
    \/ ReadQuota(c) \/ CommitWrite(c) \/ ReleaseWrite(c)
    \/ Return(c)

Spec == Init /\ [][Next]_vars

-----------------------------------------------------------------------------
(* Properties. *)

\* Whatever overtakes the reads, reservations and commits never overdraw the
\* day's limit (the version and the guard in the UPDATE of ReserveQuota): it is
\* passed by no more than releases of negative amounts added.
LimitKept ==
  \A q \in Quota : quotas[q].used + quotas[q].reserved <= DailyLimit + raised[q]

\* What a capacity limit promises: the day's limit is never overdrawn.  It is,
\* by a release of a negative amount (Release tests no amount, and
\* reserved_amount >= ? holds of every amount below 0).
NeverOverbooked ==
  \A q \in Quota : quotas[q].used + quotas[q].reserved <= DailyLimit

\* Reserve and Commit give up with a conflict only after real contention: on
\* every attempt but those that found the database locked, somebody else had
\* changed the row.  So 25 retries are enough for 26 concurrent reservations
\* and 5 attempts for 5 concurrent commits, with none to spare.
ConflictMeansContention ==
  \A c \in Caller : call[c].pc = "conflict" /\ call[c].op \in {"reserve", "commit"} =>
    Attempts(call[c].op) <= quotas[call[c].quota].version - call[c].since + call[c].busy

\* The request a call stands for.
RequestOf(r) ==
  IF r.pc = "idle" \/ r.op # "reserve" THEN [state |-> "none"]
  ELSE [state |-> CASE r.pc = "reserved" -> "granted"
                    [] r.pc = "rejected" -> "refused"
                    [] OTHER -> "pending",
        quota |-> r.quota, amount |-> r.amount]

\* The ledger these tables and calls stand for.
Ledger == INSTANCE QuotaLedger WITH
  used <- [q \in Quota |-> quotas[q].used],
  reserved <- [q \in Quota |-> quotas[q].reserved],
  request <- [c \in Caller |-> RequestOf(call[c])]

\* The loops implement QuotaLedger: a reservation counts once, at one instant,
\* if it is granted, and a refused one did not fit at some instant of the call
\* (reserveWithRetry: SELECT, test, UPDATE, again).
KeepsLedger == Ledger!Spec
=============================================================================
