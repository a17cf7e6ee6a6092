---------------------------- MODULE Quota_proofs ----------------------------
(***************************************************************************)
(* Proofs about Quota for every set of quotas, callers and amounts, every  *)
(* limit, every number of retries and any number of calls.                 *)
(***************************************************************************)
EXTENDS Quota, TLAPS

-----------------------------------------------------------------------------
(* What a call's record looks like after one of its fields is set. *)

ActivePc == {"select", "insert", "read", "write", "reserved", "rejected", "conflict"}

LEMMA SetPc ==
  \A r \in CallState, p \in ActivePc :
    LET s == [r EXCEPT !.pc = p] IN
    /\ s \in CallState /\ s.pc = p
    /\ s.op = r.op /\ s.quota = r.quota /\ s.amount = r.amount /\ s.attempt = r.attempt
    /\ s.seen = r.seen /\ s.since = r.since /\ s.busy = r.busy
BY DEF CallState, ActivePc

LEMMA SetAttempt ==
  \A r \in CallState, n \in Nat :
    LET s == [r EXCEPT !.attempt = n] IN
    /\ s \in CallState /\ s.attempt = n
    /\ s.pc = r.pc /\ s.op = r.op /\ s.quota = r.quota /\ s.amount = r.amount
    /\ s.seen = r.seen /\ s.since = r.since /\ s.busy = r.busy
BY DEF CallState

LEMMA SetSeen ==
  \A r \in CallState, n \in Nat :
    LET s == [r EXCEPT !.seen = n] IN
    /\ s \in CallState /\ s.seen = n
    /\ s.pc = r.pc /\ s.op = r.op /\ s.quota = r.quota /\ s.amount = r.amount
    /\ s.attempt = r.attempt /\ s.since = r.since /\ s.busy = r.busy
BY DEF CallState

LEMMA SetBusy ==
  \A r \in CallState, n \in Nat :
    LET s == [r EXCEPT !.busy = n] IN
    /\ s \in CallState /\ s.busy = n
    /\ s.pc = r.pc /\ s.op = r.op /\ s.quota = r.quota /\ s.amount = r.amount
    /\ s.attempt = r.attempt /\ s.seen = r.seen /\ s.since = r.since
BY DEF CallState

\* s is the same call as r, about the same thing, as long begun.
SameCall(r, s) ==
  /\ s \in CallState
  /\ s.op = r.op /\ s.quota = r.quota /\ s.amount = r.amount /\ s.since = r.since

LEMMA AgainFacts ==
  ASSUME NEW r \in CallState, NEW first \in {"select", "read"}
  PROVE  LET s == Again(r, first) IN
         /\ SameCall(r, s)
         /\ s.attempt = r.attempt + 1 /\ s.seen = r.seen /\ s.busy = r.busy
         /\ s.pc = IF r.attempt + 1 < Attempts(r.op) THEN first ELSE "conflict"
<1> DEFINE p == IF r.attempt + 1 < Attempts(r.op) THEN first ELSE "conflict"
           m == [r EXCEPT !.attempt = r.attempt + 1]
<1>1. r.attempt + 1 \in Nat
  BY DEF CallState
<1>2. /\ m \in CallState /\ m.attempt = r.attempt + 1
      /\ m.op = r.op /\ m.quota = r.quota /\ m.amount = r.amount /\ m.since = r.since
      /\ m.seen = r.seen /\ m.busy = r.busy
  BY <1>1, SetAttempt
<1>3. p \in ActivePc
  BY DEF ActivePc
<1>4. Again(r, first) = [m EXCEPT !.pc = p]
  BY DEF Again
<1> HIDE DEF m, p
<1>5. LET s == [m EXCEPT !.pc = p] IN
      /\ s \in CallState /\ s.pc = p
      /\ s.op = m.op /\ s.quota = m.quota /\ s.amount = m.amount /\ s.attempt = m.attempt
      /\ s.seen = m.seen /\ s.since = m.since /\ s.busy = m.busy
  BY <1>2, <1>3, SetPc
<1> QED BY <1>2, <1>4, <1>5 DEF SameCall, p

LEMMA DecideFacts ==
  ASSUME NEW r \in CallState, NEW row \in QuotaRow
  PROVE  LET s == Decide(r, row) IN
         /\ SameCall(r, s)
         /\ s.attempt = r.attempt /\ s.seen = row.version /\ s.busy = r.busy
         /\ s.pc = IF Remaining(row) < r.amount THEN "rejected" ELSE "write"
<1> DEFINE p == IF Remaining(row) < r.amount THEN "rejected" ELSE "write"
           m == [r EXCEPT !.pc = p]
<1>1. p \in ActivePc /\ row.version \in Nat
  BY DEF QuotaRow, ActivePc
<1>2. Decide(r, row) = [m EXCEPT !.seen = row.version]
  BY DEF Decide
<1> HIDE DEF p
<1>3. /\ m \in CallState /\ m.pc = p
      /\ m.op = r.op /\ m.quota = r.quota /\ m.amount = r.amount /\ m.attempt = r.attempt
      /\ m.since = r.since /\ m.busy = r.busy
  BY <1>1, SetPc
<1> HIDE DEF m
<1>4. LET s == [m EXCEPT !.seen = row.version] IN
      /\ s \in CallState /\ s.seen = row.version
      /\ s.pc = m.pc /\ s.op = m.op /\ s.quota = m.quota /\ s.amount = m.amount
      /\ s.attempt = m.attempt /\ s.since = m.since /\ s.busy = m.busy
  BY <1>1, <1>3, SetSeen
<1> QED BY <1>2, <1>3, <1>4 DEF SameCall, p

-----------------------------------------------------------------------------
(* The inductive invariant: a call that has read a row and is about to     *)
(* write it knows that the amount fits, or is reserved, if the version has *)
(* not moved; and every attempt it has lost is a version somebody else     *)
(* produced, or a locked database.                                         *)

Counted(r) == r.op \in {"reserve", "commit"}

CallInv(c) ==
  LET r == call[c]
      row == quotas[r.quota]
  IN
  Active(c) =>
    /\ r.since <= row.version
    /\ r.op = "reserve" => r.amount > 0
    /\ r.pc \in {"select", "insert", "reserved", "rejected"} => r.op = "reserve"
    /\ r.pc = "read" => r.op \in {"commit", "release"}
    /\ r.pc \in {"select", "insert", "read"} /\ Counted(r) =>
         r.attempt <= row.version - r.since + r.busy
    /\ r.pc = "write" =>
         /\ r.since <= r.seen /\ r.seen <= row.version
         /\ Counted(r) => r.attempt <= r.seen - r.since + r.busy
         /\ r.seen = row.version =>
              /\ r.op = "reserve" => Remaining(row) >= r.amount
              /\ r.op = "commit" => row.reserved >= r.amount
    /\ r.pc = "conflict" /\ Counted(r) =>
         Attempts(r.op) <= row.version - r.since + r.busy

QuotaInv ==
  /\ TypeOK
  /\ LimitKept
  /\ \A q \in Quota : quotas[q].version = 0 => quotas[q] = NoQuota
  /\ \A c \in Caller : CallInv(c)

LEMMA InitQuota == Init => QuotaInv
BY QuotaAssumption
   DEF Init, QuotaInv, TypeOK, LimitKept, CallInv, Active, NoQuota, Idle, QuotaRow

\* A step writes at most the version after the one it found.
RowsMove ==
  \A q \in Quota : \/ quotas'[q] = quotas[q]
                   \/ quotas'[q].version = quotas[q].version + 1

LEMMA AttemptsType == \A op : Attempts(op) \in Nat
BY QuotaAssumption DEF Attempts

\* The calls a step is not about keep what they knew.
LEMMA CallKept ==
  ASSUME QuotaInv, RowsMove, quotas' \in [Quota -> QuotaRow],
         NEW c \in Caller, call'[c] = call[c]
  PROVE  CallInv(c)'
<1> SUFFICES ASSUME Active(c) PROVE CallInv(c)'
  BY DEF CallInv, Active
<1>1. call[c] \in CallState /\ CallInv(c)
  BY DEF QuotaInv, TypeOK, Active, Idle
<1> DEFINE r == call[c]
<1>2. /\ r.quota \in Quota /\ r.since \in Nat /\ r.attempt \in Nat /\ r.busy \in Nat
      /\ r.seen \in Nat /\ r.amount \in Int
  BY <1>1, QuotaAssumption DEF CallState
<1>3. quotas[r.quota].version \in Nat
  BY <1>2 DEF QuotaInv, TypeOK, QuotaRow
<1>4. CASE quotas'[r.quota] = quotas[r.quota]
  BY <1>1, <1>4 DEF CallInv, Active
<1>5. CASE quotas'[r.quota].version = quotas[r.quota].version + 1
  BY <1>1, <1>2, <1>3, <1>5, AttemptsType DEF CallInv, Active
<1> QED BY <1>2, <1>4, <1>5 DEF RowsMove

\* So a step of c only has to establish what c itself knows afterwards.
LEMMA StepOf ==
  ASSUME QuotaInv, NEW c \in Caller, RowsMove, quotas' \in [Quota -> QuotaRow],
         raised' \in [Quota -> Nat], LimitKept', NEW s \in CallState \cup {Idle},
         call' = [call EXCEPT ![c] = s], CallInv(c)'
  PROVE  QuotaInv'
<1>1. call \in [Caller -> CallState \cup {Idle}]
  BY DEF QuotaInv, TypeOK
<1>2. TypeOK'
  BY <1>1 DEF TypeOK
<1>3. \A d \in Caller : CallInv(d)'
  BY <1>1, CallKept
<1>4. \A q \in Quota : quotas'[q].version = 0 => quotas'[q] = NoQuota
  <2>1. \A q \in Quota : quotas[q].version \in Nat
    BY DEF QuotaInv, TypeOK, QuotaRow
  <2> QED BY <2>1 DEF QuotaInv, RowsMove
<1> QED BY <1>2, <1>3, <1>4 DEF QuotaInv

LEMMA Reads ==
  ASSUME QuotaInv, UNCHANGED <<quotas, raised>>
  PROVE  /\ RowsMove /\ quotas' \in [Quota -> QuotaRow]
         /\ raised' \in [Quota -> Nat] /\ LimitKept'
BY DEF QuotaInv, TypeOK, RowsMove, LimitKept

LEMMA StartInv ==
  ASSUME QuotaInv, NEW c \in Caller, NEW q \in Quota, NEW n \in Amount,
         ReserveStart(c, q, n) \/ CommitStart(c, q, n) \/ ReleaseStart(c, q, n)
  PROVE  QuotaInv'
<1>1. PICK op \in {"reserve", "commit", "release"}, pc \in {"select", "read"} :
        /\ Start(c, op, pc, q, n)
        /\ pc = "select" <=> op = "reserve"
        /\ op = "reserve" => n > 0
  BY DEF ReserveStart, CommitStart, ReleaseStart
<1> DEFINE s == [pc |-> pc, op |-> op, quota |-> q, amount |-> n, attempt |-> 0,
                 seen |-> 0, since |-> quotas[q].version, busy |-> 0]
<1>2. UNCHANGED <<quotas, raised>> /\ call' = [call EXCEPT ![c] = s]
  BY <1>1 DEF Start
<1>3. quotas[q].version \in Nat
  BY DEF QuotaInv, TypeOK, QuotaRow
<1>4. s \in CallState
  BY <1>3 DEF CallState
<1>5. call'[c] = s
  BY <1>2 DEF QuotaInv, TypeOK
<1>6. CallInv(c)'
  BY <1>1, <1>2, <1>3, <1>5 DEF CallInv, Active
<1> HIDE DEF s
<1> QED BY <1>2, <1>4, <1>6, Reads, StepOf

LEMMA ReturnInv == ASSUME QuotaInv, NEW c \in Caller, Return(c) PROVE QuotaInv'
<1>1. UNCHANGED <<quotas, raised>> /\ call' = [call EXCEPT ![c] = Idle] /\ call'[c] = Idle
  BY DEF Return, QuotaInv, TypeOK
<1>2. CallInv(c)'
  BY <1>1 DEF CallInv, Active, Idle
<1> QED BY <1>1, <1>2, Reads, StepOf

\* What is known of an active call.
LEMMA CallFacts ==
  ASSUME QuotaInv, NEW c \in Caller, Active(c)
  PROVE  /\ call[c] \in CallState /\ CallInv(c)
         /\ call[c].quota \in Quota /\ call[c].amount \in Int
         /\ call[c].since \in Nat /\ call[c].attempt \in Nat /\ call[c].busy \in Nat
         /\ call[c].seen \in Nat
         /\ quotas[call[c].quota] \in QuotaRow
         /\ quotas[call[c].quota].version \in Nat
         /\ quotas[call[c].quota].used \in Int /\ quotas[call[c].quota].reserved \in Nat
<1>1. call[c] \in CallState
  BY DEF QuotaInv, TypeOK, Active, Idle
<1>2. /\ call[c].quota \in Quota /\ call[c].amount \in Amount
      /\ call[c].since \in Nat /\ call[c].attempt \in Nat /\ call[c].busy \in Nat
      /\ call[c].seen \in Nat
  BY <1>1 DEF CallState
<1>4. call[c].amount \in Int
  BY <1>2, QuotaAssumption
<1> QED BY <1>1, <1>2, <1>4 DEF QuotaInv, TypeOK, QuotaRow

\* A read that finds the row leaves a call that knows it.
LEMMA DecideInv ==
  ASSUME QuotaInv, NEW c \in Caller, call[c].pc \in {"select", "insert"}, RowsMove,
         quotas' \in [Quota -> QuotaRow], raised' \in [Quota -> Nat], LimitKept',
         call' = [call EXCEPT ![c] = Decide(call[c], quotas'[call[c].quota])],
         quotas[call[c].quota].version <= quotas'[call[c].quota].version
  PROVE  QuotaInv'
<1> DEFINE r == call[c]
           row == quotas'[r.quota]
           s == Decide(r, row)
<1>0. Active(c)
  BY DEF Active
<1>1. r \in CallState /\ CallInv(c) /\ r.quota \in Quota
  BY <1>0, CallFacts
<1>2. row \in QuotaRow /\ row.version \in Nat
  BY <1>1 DEF QuotaRow
<1>3. /\ s \in CallState /\ s.op = "reserve" /\ s.quota = r.quota /\ s.amount = r.amount
      /\ s.since = r.since /\ s.attempt = r.attempt /\ s.seen = row.version
      /\ s.busy = r.busy
      /\ s.pc = IF Remaining(row) < r.amount THEN "rejected" ELSE "write"
  BY <1>0, <1>1, <1>2, DecideFacts DEF SameCall, CallInv
<1>4. call'[c] = s
  BY DEF QuotaInv, TypeOK
<1>5. /\ r.since \in Nat /\ r.attempt \in Nat /\ r.busy \in Nat /\ r.amount \in Int
      /\ quotas[r.quota].version \in Nat
      /\ r.since <= quotas[r.quota].version
      /\ r.attempt <= quotas[r.quota].version - r.since + r.busy
      /\ r.amount > 0
  BY <1>0, <1>1, CallFacts DEF CallInv, Counted
<1>6. Remaining(row) \in Int
  BY <1>2, QuotaAssumption DEF Remaining, QuotaRow
<1> HIDE DEF s
<1>7. s.pc \in {"rejected", "write"} /\ (s.pc = "write" => Remaining(row) >= r.amount)
  BY <1>3, <1>5, <1>6
<1>8. CallInv(c)'
  BY <1>2, <1>3, <1>4, <1>5, <1>7 DEF CallInv, Active, Counted
<1> QED BY <1>3, <1>8, StepOf DEF s

LEMMA GetQuotaInv == ASSUME QuotaInv, NEW c \in Caller, GetQuota(c) PROVE QuotaInv'
<1>0. Active(c) /\ UNCHANGED <<quotas, raised>>
  BY DEF GetQuota, Active
<1>1. CASE Exists(call[c].quota)
  <2>1. call' = [call EXCEPT ![c] = Decide(call[c], quotas'[call[c].quota])]
    BY <1>0, <1>1 DEF GetQuota, QuotaInv, TypeOK
  <2>2. quotas[call[c].quota].version <= quotas'[call[c].quota].version
    BY <1>0, CallFacts
  <2> QED BY <1>0, <2>1, <2>2, Reads, DecideInv DEF GetQuota
<1>2. CASE ~Exists(call[c].quota)
  <2> DEFINE s == [call[c] EXCEPT !.pc = "insert"]
  <2>1. call' = [call EXCEPT ![c] = s] /\ call'[c] = s
    BY <1>2 DEF GetQuota, QuotaInv, TypeOK
  <2>2. /\ s \in CallState /\ s.pc = "insert"
        /\ s.op = call[c].op /\ s.quota = call[c].quota /\ s.attempt = call[c].attempt
        /\ s.amount = call[c].amount
        /\ s.since = call[c].since /\ s.busy = call[c].busy
    BY <1>0, CallFacts, SetPc DEF ActivePc
  <2> HIDE DEF s
  <2>3. CallInv(c)'
    BY <1>0, <2>1, <2>2, CallFacts DEF CallInv, Active, Counted, GetQuota
  <2> QED BY <1>0, <2>1, <2>2, <2>3, Reads, StepOf
<1> QED BY <1>1, <1>2

LEMMA CreateQuotaInv == ASSUME QuotaInv, NEW c \in Caller, CreateQuota(c) PROVE QuotaInv'
<1>0. Active(c) /\ call[c].quota \in Quota /\ quotas \in [Quota -> QuotaRow]
  BY CallFacts DEF CreateQuota, Active, QuotaInv, TypeOK
<1>1. CASE ~Exists(call[c].quota)
  <2>1. /\ quotas' = [quotas EXCEPT ![call[c].quota] = NewQuota]
        /\ call' = [call EXCEPT ![c] = Decide(call[c], NewQuota)]
    BY <1>1 DEF CreateQuota, QuotaInv, TypeOK
  <2>2. quotas[call[c].quota].version = 0
    BY <1>1 DEF Exists
  <2>3. NewQuota \in QuotaRow /\ NewQuota.version = 1 /\ NewQuota.used + NewQuota.reserved = 0
    BY DEF NewQuota, QuotaRow
  <2>4. quotas' \in [Quota -> QuotaRow] /\ quotas'[call[c].quota] = NewQuota
    BY <1>0, <2>1, <2>3
  <2>5. RowsMove /\ quotas[call[c].quota].version <= quotas'[call[c].quota].version
    BY <1>0, <2>1, <2>2, <2>3, <2>4 DEF RowsMove
  <2>6. UNCHANGED raised /\ raised' \in [Quota -> Nat]
    BY <1>1 DEF CreateQuota, QuotaInv, TypeOK
  <2>7. LimitKept'
    BY <1>0, <2>1, <2>3, <2>4, <2>6, QuotaAssumption DEF LimitKept, QuotaInv
  <2> QED BY <2>1, <2>4, <2>5, <2>6, <2>7, DecideInv DEF CreateQuota
<1>2. CASE Exists(call[c].quota)
  <2> DEFINE s == [call[c] EXCEPT !.pc = "select"]
  <2>1. call' = [call EXCEPT ![c] = s] /\ call'[c] = s /\ UNCHANGED <<quotas, raised>>
    BY <1>2 DEF CreateQuota, QuotaInv, TypeOK
  <2>2. /\ s \in CallState /\ s.pc = "select"
        /\ s.op = call[c].op /\ s.quota = call[c].quota /\ s.attempt = call[c].attempt
        /\ s.amount = call[c].amount
        /\ s.since = call[c].since /\ s.busy = call[c].busy
    BY <1>0, CallFacts, SetPc DEF ActivePc
  <2> HIDE DEF s
  <2>3. CallInv(c)'
    BY <1>0, <2>1, <2>2, CallFacts DEF CallInv, Active, Counted, CreateQuota
  <2> QED BY <2>1, <2>2, <2>3, Reads, StepOf
<1> QED BY <1>1, <1>2

\* A lost UPDATE: somebody else had changed the row, or it is a Release of more
\* than is reserved.
LEMMA AgainInv ==
  ASSUME QuotaInv, NEW c \in Caller, call[c].pc = "write", UNCHANGED <<quotas, raised>>,
         NEW first \in {"select", "read"}, first = "select" <=> call[c].op = "reserve",
         call' = [call EXCEPT ![c] = Again(call[c], first)],
         Counted(call[c]) => call[c].seen # quotas[call[c].quota].version
  PROVE  QuotaInv'
<1> DEFINE r == call[c]
           s == Again(r, first)
<1>0. Active(c)
  BY DEF Active
<1>1. r \in CallState /\ CallInv(c)
  BY <1>0, CallFacts
<1>2. /\ s \in CallState /\ s.op = r.op /\ s.quota = r.quota /\ s.amount = r.amount
      /\ s.since = r.since /\ s.attempt = r.attempt + 1 /\ s.busy = r.busy
      /\ s.pc = IF r.attempt + 1 < Attempts(r.op) THEN first ELSE "conflict"
  BY <1>1, AgainFacts DEF SameCall
<1>3. call'[c] = s
  BY DEF QuotaInv, TypeOK
<1>4. /\ r.since \in Nat /\ r.attempt \in Nat /\ r.busy \in Nat /\ r.seen \in Nat
      /\ quotas[r.quota].version \in Nat
  BY <1>0, CallFacts
<1>5. r.op \in {"reserve", "commit", "release"} /\ Attempts(r.op) \in Nat
  BY <1>1, AttemptsType DEF CallState
<1>6. Counted(r) => r.attempt + 1 <= quotas[r.quota].version - r.since + r.busy
  BY <1>0, <1>1, <1>4 DEF CallInv
<1>7. r.since <= quotas[r.quota].version
  BY <1>0, <1>1 DEF CallInv
<1>8. \/ s.pc = first
      \/ s.pc = "conflict" /\ Attempts(r.op) <= r.attempt + 1
  BY <1>2, <1>4, <1>5
<1> HIDE DEF s
<1>9. CallInv(c)'
  <2>1. (Counted(s) <=> Counted(r)) /\ s.pc # "write" /\ s.pc \notin {"reserved", "rejected", "insert"}
    BY <1>2, <1>8 DEF Counted
  <2>2. (s.pc = "select" => s.op = "reserve") /\ (s.pc = "read" => s.op \in {"commit", "release"})
    BY <1>2, <1>5, <1>8
  <2>3. s.since <= quotas[s.quota].version /\ (s.op = "reserve" => s.amount > 0)
    BY <1>0, <1>1, <1>2, <1>7 DEF CallInv
  <2>4. Counted(s) => s.attempt <= quotas[s.quota].version - s.since + s.busy
    BY <1>2, <1>6, <2>1
  <2>5. s.pc = "conflict" /\ Counted(s) =>
          Attempts(s.op) <= quotas[s.quota].version - s.since + s.busy
    BY <1>2, <1>4, <1>5, <1>6, <1>8, <2>1
  <2> QED BY <1>3, <2>1, <2>2, <2>3, <2>4, <2>5 DEF CallInv, Active
<1> QED BY <1>2, <1>9, Reads, StepOf DEF s

\* A row written by one of the three UPDATEs.
LEMMA WroteRow ==
  ASSUME QuotaInv, NEW q \in Quota, NEW row \in QuotaRow,
         quotas' = [quotas EXCEPT ![q] = row], row.version = quotas[q].version + 1,
         raised' \in [Quota -> Nat], \A p \in Quota \ {q} : raised'[p] = raised[p],
         row.used + row.reserved <= DailyLimit + raised'[q]
  PROVE  RowsMove /\ quotas' \in [Quota -> QuotaRow] /\ LimitKept'
BY DEF QuotaInv, TypeOK, RowsMove, LimitKept

LEMMA ReserveWriteInv == ASSUME QuotaInv, NEW c \in Caller, ReserveWrite(c) PROVE QuotaInv'
<1> DEFINE r == call[c]
           row == quotas[r.quota]
<1>0. Active(c) /\ r.pc = "write" /\ r.op = "reserve"
  BY DEF ReserveWrite, Active
<1>1. /\ r \in CallState /\ CallInv(c) /\ r.quota \in Quota /\ r.amount \in Int
      /\ r.seen \in Nat /\ row \in QuotaRow
      /\ row.version \in Nat /\ row.used \in Int /\ row.reserved \in Nat
  BY <1>0, CallFacts
<1>2. CASE ReserveMatches(row, r.amount, r.seen)
  <2> DEFINE new == ReserveQuota(row, r.amount)
             s == [r EXCEPT !.pc = "reserved"]
  <2>1. quotas' = [quotas EXCEPT ![r.quota] = new] /\ call' = [call EXCEPT ![c] = s]
    BY <1>2 DEF ReserveWrite, QuotaInv, TypeOK
  <2>r. UNCHANGED raised /\ raised' \in [Quota -> Nat] /\ raised'[r.quota] \in Nat
    BY <1>1, <1>2 DEF ReserveWrite, QuotaInv, TypeOK
  <2>2. /\ new \in QuotaRow /\ new.version = row.version + 1
        /\ new.used = row.used /\ new.reserved = row.reserved + r.amount
    <3>1. r.amount > 0
      BY <1>0, <1>1 DEF CallInv
    <3> QED BY <1>1, <3>1 DEF ReserveQuota, QuotaRow
  <2>3. new.used + new.reserved <= DailyLimit + raised'[r.quota]
    BY <1>1, <1>2, <2>r, <2>2, QuotaAssumption DEF ReserveMatches, Remaining
  <2>4. /\ s \in CallState /\ s.pc = "reserved" /\ s.op = r.op /\ s.quota = r.quota
        /\ s.since = r.since /\ s.amount = r.amount
    BY <1>1, SetPc DEF ActivePc
  <2>5. call'[c] = s /\ quotas'[r.quota] = new
    BY <1>1, <2>1 DEF QuotaInv, TypeOK
  <2> HIDE DEF s, new
  <2>6. RowsMove /\ quotas' \in [Quota -> QuotaRow] /\ LimitKept'
    BY <1>1, <2>1, <2>r, <2>2, <2>3, WroteRow
  <2>7. r.since <= row.version /\ r.since \in Nat
    BY <1>0, CallFacts DEF CallInv
  <2>8. CallInv(c)'
    BY <1>0, <1>1, <2>2, <2>4, <2>5, <2>7 DEF CallInv, Active
  <2> QED BY <2>1, <2>r, <2>4, <2>6, <2>8, StepOf
<1>3. CASE ~ReserveMatches(row, r.amount, r.seen)
  <2>1. UNCHANGED <<quotas, raised>> /\ call' = [call EXCEPT ![c] = Again(r, "select")]
    BY <1>3 DEF ReserveWrite
  <2>2. r.seen # row.version
    BY <1>0, <1>1, <1>3 DEF ReserveMatches, CallInv
  <2> QED BY <1>0, <2>1, <2>2, AgainInv
<1> QED BY <1>2, <1>3

\* The UPDATEs of Commit and Release end their call.
LEMMA EndInv ==
  ASSUME QuotaInv, NEW c \in Caller, NEW q \in Quota, NEW row \in QuotaRow,
         quotas' = [quotas EXCEPT ![q] = row], row.version = quotas[q].version + 1,
         raised' \in [Quota -> Nat], \A p \in Quota \ {q} : raised'[p] = raised[p],
         row.used + row.reserved <= DailyLimit + raised'[q],
         call' = [call EXCEPT ![c] = Idle]
  PROVE  QuotaInv'
<1>1. RowsMove /\ quotas' \in [Quota -> QuotaRow] /\ LimitKept'
  BY WroteRow
<1>2. CallInv(c)'
  BY DEF CallInv, Active, Idle, QuotaInv, TypeOK
<1> QED BY <1>1, <1>2, StepOf

LEMMA CommitWriteInv == ASSUME QuotaInv, NEW c \in Caller, CommitWrite(c) PROVE QuotaInv'
<1> DEFINE r == call[c]
           row == quotas[r.quota]
<1>0. Active(c) /\ r.pc = "write" /\ r.op = "commit"
  BY DEF CommitWrite, Active
<1>1. /\ CallInv(c) /\ r.quota \in Quota /\ r.amount \in Int /\ r.seen \in Nat
      /\ row \in QuotaRow /\ row.version \in Nat /\ row.used \in Int /\ row.reserved \in Nat
  BY <1>0, CallFacts
<1>2. CASE CommitMatches(row, r.amount, r.seen)
  <2> DEFINE new == CommitQuota(row, r.amount)
  <2>1. quotas' = [quotas EXCEPT ![r.quota] = new] /\ call' = [call EXCEPT ![c] = Idle]
    BY <1>2 DEF CommitWrite
  <2>2. /\ UNCHANGED raised /\ raised' \in [Quota -> Nat] /\ raised'[r.quota] \in Nat
        /\ row.reserved >= r.amount
        /\ row.used + row.reserved <= DailyLimit + raised[r.quota]
    BY <1>1, <1>2 DEF CommitMatches, CommitWrite, QuotaInv, TypeOK, LimitKept
  <2>3. /\ new \in QuotaRow /\ new.version = row.version + 1
        /\ new.used = row.used + r.amount /\ new.reserved = row.reserved - r.amount
    BY <1>1, <2>2 DEF CommitQuota, QuotaRow
  <2>4. new.used + new.reserved <= DailyLimit + raised'[r.quota]
    BY <1>1, <2>2, <2>3, QuotaAssumption
  <2> HIDE DEF new
  <2> QED BY <1>1, <2>1, <2>2, <2>3, <2>4, EndInv
<1>3. CASE ~CommitMatches(row, r.amount, r.seen)
  <2>1. UNCHANGED <<quotas, raised>> /\ call' = [call EXCEPT ![c] = Again(r, "read")]
    BY <1>3 DEF CommitWrite
  <2>2. r.seen # row.version
    BY <1>0, <1>1, <1>3 DEF CommitMatches, CallInv
  <2> QED BY <1>0, <2>1, <2>2, AgainInv
<1> QED BY <1>2, <1>3

LEMMA ReleaseWriteInv == ASSUME QuotaInv, NEW c \in Caller, ReleaseWrite(c) PROVE QuotaInv'
<1> DEFINE r == call[c]
           row == quotas[r.quota]
<1>0. Active(c) /\ r.pc = "write" /\ r.op = "release"
  BY DEF ReleaseWrite, Active
<1>1. /\ r.quota \in Quota /\ r.amount \in Int
      /\ row \in QuotaRow /\ row.version \in Nat /\ row.used \in Int /\ row.reserved \in Nat
  BY <1>0, CallFacts
<1>2. CASE ReleaseMatches(row, r.amount, r.seen)
  <2> DEFINE new == ReleaseQuota(row, r.amount)
  <2>1. quotas' = [quotas EXCEPT ![r.quota] = new] /\ call' = [call EXCEPT ![c] = Idle]
    BY <1>2 DEF ReleaseWrite
  <2>2. row.reserved >= r.amount /\ row.used + row.reserved <= DailyLimit + raised[r.quota]
    BY <1>1, <1>2 DEF ReleaseMatches, QuotaInv, LimitKept
  <2>r. /\ raised' = [raised EXCEPT ![r.quota] = raised[r.quota] + Below0(r.amount)]
        /\ raised[r.quota] \in Nat /\ raised \in [Quota -> Nat]
    BY <1>1, <1>2 DEF ReleaseWrite, QuotaInv, TypeOK
  <2>b. Below0(r.amount) \in Nat /\ -r.amount <= Below0(r.amount)
    BY <1>1 DEF Below0
  <2>n. /\ raised' \in [Quota -> Nat] /\ raised'[r.quota] = raised[r.quota] + Below0(r.amount)
        /\ \A p \in Quota \ {r.quota} : raised'[p] = raised[p]
    BY <1>1, <2>r, <2>b
  <2>3. /\ new \in QuotaRow /\ new.version = row.version + 1
        /\ new.used = row.used /\ new.reserved = row.reserved - r.amount
    BY <1>1, <2>2 DEF ReleaseQuota, QuotaRow
  <2>4. new.used + new.reserved <= DailyLimit + raised'[r.quota]
    BY <1>1, <2>2, <2>r, <2>b, <2>n, <2>3, QuotaAssumption
  <2> HIDE DEF new
  <2> QED BY <1>1, <2>1, <2>n, <2>3, <2>4, EndInv
<1>3. CASE ~ReleaseMatches(row, r.amount, r.seen)
  <2>1. UNCHANGED <<quotas, raised>> /\ call' = [call EXCEPT ![c] = Again(r, "read")]
    BY <1>3 DEF ReleaseWrite
  <2> QED BY <1>0, <2>1, AgainInv DEF Counted
<1> QED BY <1>2, <1>3

LEMMA ReserveBusyInv == ASSUME QuotaInv, NEW c \in Caller, ReserveBusy(c) PROVE QuotaInv'
<1> DEFINE r == call[c]
<1>0. Active(c) /\ r.pc = "write" /\ r.op = "reserve" /\ UNCHANGED <<quotas, raised>>
  BY DEF ReserveBusy, Active
<1>1. /\ r \in CallState /\ CallInv(c) /\ r.attempt \in Nat /\ r.busy \in Nat
      /\ r.seen \in Nat /\ r.since \in Nat /\ quotas[r.quota].version \in Nat
  BY <1>0, CallFacts
<1>2. CASE r.attempt < MaxRetries
  <2> DEFINE m == [r EXCEPT !.pc = "select"]
             n == [m EXCEPT !.attempt = r.attempt + 1]
             s == [n EXCEPT !.busy = r.busy + 1]
  <2>1. call' = [call EXCEPT ![c] = s] /\ call'[c] = s
    BY <1>2 DEF ReserveBusy, QuotaInv, TypeOK
  <2>2. /\ m \in CallState /\ m.pc = "select" /\ m.op = r.op /\ m.quota = r.quota
        /\ m.since = r.since /\ m.amount = r.amount
    BY <1>1, SetPc DEF ActivePc
  <2> HIDE DEF m
  <2>3. /\ n \in CallState /\ n.pc = "select" /\ n.op = r.op /\ n.quota = r.quota
        /\ n.since = r.since /\ n.attempt = r.attempt + 1
        /\ n.amount = r.amount
    <3>1. r.attempt + 1 \in Nat
      BY <1>1
    <3> QED BY <2>2, <3>1, SetAttempt
  <2> HIDE DEF n
  <2>4. /\ s \in CallState /\ s.pc = "select" /\ s.op = r.op /\ s.quota = r.quota
        /\ s.since = r.since /\ s.attempt = r.attempt + 1 /\ s.busy = r.busy + 1
        /\ s.amount = r.amount
    BY <1>1, <2>3, SetBusy
  <2> HIDE DEF s
  <2>5. CallInv(c)'
    BY <1>0, <1>1, <2>1, <2>4 DEF CallInv, Active, Counted
  <2> QED BY <1>0, <2>1, <2>4, <2>5, Reads, StepOf
<1>3. CASE ~(r.attempt < MaxRetries)
  <2>1. call' = [call EXCEPT ![c] = Idle]
    BY <1>3 DEF ReserveBusy
  <2> QED BY <1>0, <2>1, ReturnInv DEF Return
<1> QED BY <1>2, <1>3

LEMMA ReadQuotaInv == ASSUME QuotaInv, NEW c \in Caller, ReadQuota(c) PROVE QuotaInv'
<1> DEFINE r == call[c]
           row == quotas[r.quota]
<1>0. Active(c) /\ r.pc = "read" /\ UNCHANGED <<quotas, raised>>
  BY DEF ReadQuota, Active
<1>1. /\ r \in CallState /\ CallInv(c) /\ r.attempt \in Nat /\ r.busy \in Nat
      /\ r.since \in Nat /\ r.amount \in Int
      /\ row.version \in Nat /\ row.reserved \in Nat
  BY <1>0, CallFacts
<1>2. CASE r.op = "commit" /\ row.reserved < r.amount
  <2>1. call' = [call EXCEPT ![c] = Idle]
    BY <1>2 DEF ReadQuota
  <2> QED BY <1>0, <2>1, ReturnInv DEF Return
<1>3. CASE ~(r.op = "commit" /\ row.reserved < r.amount)
  <2> DEFINE m == [r EXCEPT !.pc = "write"]
             s == [m EXCEPT !.seen = row.version]
  <2>1. call' = [call EXCEPT ![c] = s] /\ call'[c] = s
    BY <1>3 DEF ReadQuota, QuotaInv, TypeOK
  <2>2. /\ m \in CallState /\ m.pc = "write" /\ m.op = r.op /\ m.quota = r.quota
        /\ m.since = r.since /\ m.amount = r.amount /\ m.attempt = r.attempt
        /\ m.busy = r.busy
    BY <1>1, SetPc DEF ActivePc
  <2> HIDE DEF m
  <2>3. /\ s \in CallState /\ s.pc = "write" /\ s.op = r.op /\ s.quota = r.quota
        /\ s.since = r.since /\ s.amount = r.amount /\ s.attempt = r.attempt
        /\ s.busy = r.busy /\ s.seen = row.version
    BY <1>1, <2>2, SetSeen
  <2> HIDE DEF s
  <2>4. CallInv(c)'
    BY <1>0, <1>1, <1>3, <2>1, <2>3 DEF CallInv, Active, Counted
  <2> QED BY <1>0, <2>1, <2>3, <2>4, Reads, StepOf
<1> QED BY <1>2, <1>3

LEMMA QuotaStep == QuotaInv /\ [Next]_vars => QuotaInv'
<1> SUFFICES ASSUME QuotaInv, [Next]_vars PROVE QuotaInv'
  OBVIOUS
<1>1. CASE Next
  BY <1>1, StartInv, GetQuotaInv, CreateQuotaInv, ReserveWriteInv, ReserveBusyInv,
     ReadQuotaInv, CommitWriteInv, ReleaseWriteInv, ReturnInv DEF Next
<1>2. CASE UNCHANGED vars
  BY <1>2 DEF vars, QuotaInv, TypeOK, LimitKept, CallInv, Active
<1> QED BY <1>1, <1>2

LEMMA QuotaInvariant == Spec => []QuotaInv
BY InitQuota, QuotaStep, PTL DEF Spec

\* What is reserved stays a natural number: no release or commit takes more
\* than is reserved, whatever has happened since the call read the row.
THEOREM QuotaTypeCorrect == Spec => []TypeOK
<1>1. QuotaInv => TypeOK
  BY DEF QuotaInv
<1> QED BY <1>1, QuotaInvariant, PTL

\* No interleaving of reservations, commits and releases, of whatever amounts,
\* takes a day further past its limit than negative releases added to it.
THEOREM OnlyReleasesOverdraw == Spec => []LimitKept
<1>1. QuotaInv => LimitKept
  BY DEF QuotaInv
<1> QED BY <1>1, QuotaInvariant, PTL

\* A conflict is answered only when every attempt lost to a real change of the
\* row or to a locked database: n concurrent calls need n attempts, not more.
THEOREM ConflictsAreReal == Spec => []ConflictMeansContention
<1>1. QuotaInv => ConflictMeansContention
  BY DEF QuotaInv, ConflictMeansContention, CallInv, Active, Counted
<1> QED BY <1>1, QuotaInvariant, PTL

-----------------------------------------------------------------------------
(* Quota implements QuotaLedger. *)


\* What a step of one caller does to the requests.
LEMMA RequestMoves ==
  ASSUME QuotaInv, NEW c \in Caller, NEW s, call' = [call EXCEPT ![c] = s]
  PROVE  [d \in Caller |-> RequestOf(call[d])]' =
           [[d \in Caller |-> RequestOf(call[d])] EXCEPT ![c] = RequestOf(s)]
BY DEF QuotaInv, TypeOK

LEMMA SameRequest ==
  ASSUME QuotaInv, NEW c \in Caller, NEW s, call' = [call EXCEPT ![c] = s],
         RequestOf(s) = RequestOf(call[c]), UNCHANGED <<quotas, raised>>
  PROVE  UNCHANGED Ledger!ledger
<1>1. [d \in Caller |-> RequestOf(call[d])]' = [d \in Caller |-> RequestOf(call[d])]
  BY RequestMoves
<1> QED BY <1>1 DEF Ledger!ledger

LEMMA LeaveStep == ASSUME QuotaInv, NEW c \in Caller, Return(c) PROVE Ledger!Leave(c)
<1>1. /\ UNCHANGED <<quotas, raised>>
      /\ [d \in Caller |-> RequestOf(call[d])]' =
           [[d \in Caller |-> RequestOf(call[d])] EXCEPT ![c] = RequestOf(Idle)]
  BY RequestMoves DEF Return
<1>2. RequestOf(Idle) = [state |-> "none"]
  BY DEF RequestOf, Idle
<1> QED BY <1>1, <1>2 DEF Ledger!Leave, Ledger!NoRequest

\* Requests of the calls by what they are doing.
LEMMA RequestValue ==
  ASSUME NEW r \in CallState
  PROVE  /\ r.op # "reserve" => RequestOf(r) = Ledger!NoRequest
         /\ r.op = "reserve" =>
              RequestOf(r) = Ledger!Request(r.quota, r.amount,
                CASE r.pc = "reserved" -> "granted"
                  [] r.pc = "rejected" -> "refused"
                  [] OTHER -> "pending")
<1>1. r.pc # "idle"
  BY DEF CallState
<1> QED BY <1>1 DEF RequestOf, Ledger!NoRequest, Ledger!Request

LedgerStep == Ledger!Next \/ UNCHANGED Ledger!ledger

LEMMA AskStep ==
  ASSUME QuotaInv, NEW c \in Caller, NEW q \in Quota, NEW n \in Amount,
         ReserveStart(c, q, n) \/ CommitStart(c, q, n) \/ ReleaseStart(c, q, n)
  PROVE  LedgerStep
<1> DEFINE s(op, pc) == [pc |-> pc, op |-> op, quota |-> q, amount |-> n, attempt |-> 0,
                         seen |-> 0, since |-> quotas[q].version, busy |-> 0]
<1>1. ~Active(c) /\ call[c] = Idle /\ UNCHANGED <<quotas, raised>>
  <2>1. ~Active(c) /\ UNCHANGED <<quotas, raised>>
    BY DEF ReserveStart, CommitStart, ReleaseStart, Start
  <2> QED BY <2>1 DEF QuotaInv, TypeOK, Active, CallState
<1>2. RequestOf(call[c]) = Ledger!NoRequest
  BY <1>1 DEF RequestOf, Idle, Ledger!NoRequest
<1>3. CASE ReserveStart(c, q, n)
  <2>1. n > 0 /\ call' = [call EXCEPT ![c] = s("reserve", "select")]
    BY <1>3 DEF ReserveStart, Start
  <2>2. RequestOf(s("reserve", "select")) = Ledger!Request(q, n, "pending")
    BY DEF RequestOf, Ledger!Request
  <2> HIDE DEF s
  <2>3. [d \in Caller |-> RequestOf(call[d])]' =
          [[d \in Caller |-> RequestOf(call[d])] EXCEPT ![c] = Ledger!Request(q, n, "pending")]
    BY <2>1, <2>2, RequestMoves
  <2>4. Ledger!Ask(c, q, n)
    BY <1>1, <1>2, <2>1, <2>3 DEF Ledger!Ask
  <2> QED BY <2>4 DEF LedgerStep, Ledger!Next
<1>4. CASE CommitStart(c, q, n) \/ ReleaseStart(c, q, n)
  <2>1. PICK op \in {"commit", "release"} : call' = [call EXCEPT ![c] = s(op, "read")]
    BY <1>4 DEF CommitStart, ReleaseStart, Start
  <2>2. RequestOf(s(op, "read")) = Ledger!NoRequest
    BY DEF RequestOf, Ledger!NoRequest
  <2> HIDE DEF s
  <2> QED BY <1>1, <1>2, <2>1, <2>2, SameRequest DEF LedgerStep
<1> QED BY <1>3, <1>4

\* Reading the row refuses the request, at this instant, or decides nothing.
LEMMA DecideStep ==
  ASSUME QuotaInv, NEW c \in Caller, call[c].pc \in {"select", "insert"},
         NEW row \in QuotaRow,
         row.used = quotas[call[c].quota].used, row.reserved = quotas[call[c].quota].reserved,
         call' = [call EXCEPT ![c] = Decide(call[c], row)],
         \A q \in Quota : /\ quotas'[q].used = quotas[q].used
                          /\ quotas'[q].reserved = quotas[q].reserved
  PROVE  LedgerStep
<1> DEFINE r == call[c]
           s == Decide(r, row)
<1>0. Active(c)
  BY DEF Active
<1>1. /\ r \in CallState /\ r.op = "reserve" /\ r.quota \in Quota /\ r.amount \in Amount
  BY <1>0, CallFacts DEF CallInv, CallState
<1>2. /\ s \in CallState /\ s.op = "reserve" /\ s.quota = r.quota /\ s.amount = r.amount
      /\ s.pc = IF Remaining(row) < r.amount THEN "rejected" ELSE "write"
  BY <1>1, DecideFacts DEF SameCall
<1>3. RequestOf(r) = Ledger!Request(r.quota, r.amount, "pending")
  BY <1>1, RequestValue
<1>4. [d \in Caller |-> RequestOf(call[d])]' =
        [[d \in Caller |-> RequestOf(call[d])] EXCEPT ![c] = RequestOf(s)]
  BY RequestMoves
<1> HIDE DEF s
<1>5. CASE Remaining(row) < r.amount
  <2>1. RequestOf(s) = Ledger!Request(r.quota, r.amount, "refused")
    BY <1>2, <1>5, RequestValue
  <2>2. ~Ledger!Fits(r.quota, r.amount)
    <3>1. /\ quotas[r.quota].used \in Int /\ quotas[r.quota].reserved \in Nat
          /\ r.amount \in Int
      BY <1>0, CallFacts
    <3> QED BY <1>1, <1>5, <3>1, QuotaAssumption DEF Remaining, Ledger!Fits
  <2>3. Ledger!Refuse(c, r.quota, r.amount)
    BY <1>3, <1>4, <2>1, <2>2 DEF Ledger!Refuse
  <2> QED BY <1>1, <2>3 DEF LedgerStep, Ledger!Next
<1>6. CASE ~(Remaining(row) < r.amount)
  <2>1. RequestOf(s) = RequestOf(r)
    BY <1>2, <1>3, <1>6, RequestValue
  <2>2. [d \in Caller |-> RequestOf(call[d])]' = [d \in Caller |-> RequestOf(call[d])]
    BY <1>4, <2>1
  <2> QED BY <2>2 DEF LedgerStep, Ledger!ledger
<1> QED BY <1>5, <1>6

LEMMA GetQuotaStep == ASSUME QuotaInv, NEW c \in Caller, GetQuota(c) PROVE LedgerStep
<1>0. Active(c) /\ UNCHANGED <<quotas, raised>> /\ call[c].pc = "select"
  BY DEF GetQuota, Active
<1>1. CASE Exists(call[c].quota)
  <2>1. call' = [call EXCEPT ![c] = Decide(call[c], quotas[call[c].quota])]
    BY <1>1 DEF GetQuota
  <2>2. quotas[call[c].quota] \in QuotaRow
    BY <1>0, CallFacts
  <2> QED BY <1>0, <2>1, <2>2, DecideStep
<1>2. CASE ~Exists(call[c].quota)
  <2>1. call' = [call EXCEPT ![c] = [call[c] EXCEPT !.pc = "insert"]]
    BY <1>2 DEF GetQuota
  <2>2. RequestOf([call[c] EXCEPT !.pc = "insert"]) = RequestOf(call[c])
    <3>1. LET s == [call[c] EXCEPT !.pc = "insert"] IN
          /\ s \in CallState /\ s.pc = "insert"
          /\ s.op = call[c].op /\ s.quota = call[c].quota /\ s.amount = call[c].amount
      BY <1>0, CallFacts, SetPc DEF ActivePc
    <3>2. call[c] \in CallState
      BY <1>0, CallFacts
    <3> QED BY <1>0, <3>1, <3>2, RequestValue
  <2> QED BY <1>0, <2>1, <2>2, SameRequest DEF LedgerStep
<1> QED BY <1>1, <1>2

LEMMA CreateQuotaStep == ASSUME QuotaInv, NEW c \in Caller, CreateQuota(c) PROVE LedgerStep
<1>0. /\ Active(c) /\ call[c].pc = "insert" /\ call[c].quota \in Quota
      /\ quotas \in [Quota -> QuotaRow]
  BY CallFacts DEF CreateQuota, Active, QuotaInv, TypeOK
<1>1. CASE ~Exists(call[c].quota)
  <2>1. /\ quotas' = [quotas EXCEPT ![call[c].quota] = NewQuota]
        /\ call' = [call EXCEPT ![c] = Decide(call[c], NewQuota)]
    BY <1>1 DEF CreateQuota
  <2>2. quotas[call[c].quota] = NoQuota
    BY <1>0, <1>1 DEF Exists, QuotaInv
  <2>3. /\ NewQuota \in QuotaRow /\ NewQuota.used = NoQuota.used
        /\ NewQuota.reserved = NoQuota.reserved
    BY DEF NewQuota, NoQuota, QuotaRow
  <2>4. \A q \in Quota : /\ quotas'[q].used = quotas[q].used
                         /\ quotas'[q].reserved = quotas[q].reserved
    BY <1>0, <2>1, <2>2, <2>3
  <2> QED BY <1>0, <2>1, <2>2, <2>3, <2>4, DecideStep
<1>2. CASE Exists(call[c].quota)
  <2>1. call' = [call EXCEPT ![c] = [call[c] EXCEPT !.pc = "select"]] /\ UNCHANGED <<quotas, raised>>
    BY <1>2 DEF CreateQuota
  <2>2. RequestOf([call[c] EXCEPT !.pc = "select"]) = RequestOf(call[c])
    <3>1. LET s == [call[c] EXCEPT !.pc = "select"] IN
          /\ s \in CallState /\ s.pc = "select"
          /\ s.op = call[c].op /\ s.quota = call[c].quota /\ s.amount = call[c].amount
      BY <1>0, CallFacts, SetPc DEF ActivePc
    <3>2. call[c] \in CallState
      BY <1>0, CallFacts
    <3> QED BY <1>0, <3>1, <3>2, RequestValue
  <2> QED BY <2>1, <2>2, SameRequest DEF LedgerStep
<1> QED BY <1>1, <1>2

\* A lost attempt changes no request: the reservation is still pending.
LEMMA AgainStep ==
  ASSUME QuotaInv, NEW c \in Caller, call[c].pc = "write", NEW first \in {"select", "read"},
         UNCHANGED <<quotas, raised>>, call' = [call EXCEPT ![c] = Again(call[c], first)]
  PROVE  LedgerStep
<1> DEFINE s == Again(call[c], first)
<1>1. call[c] \in CallState
  BY CallFacts DEF Active
<1>2. /\ s \in CallState /\ s.op = call[c].op /\ s.quota = call[c].quota
      /\ s.amount = call[c].amount /\ s.pc \in {"select", "read", "conflict"}
  BY <1>1, AgainFacts DEF SameCall
<1> HIDE DEF s
<1>3. RequestOf(s) = RequestOf(call[c])
  BY <1>1, <1>2, RequestValue
<1> QED BY <1>3, SameRequest DEF LedgerStep, s

(* A step of the ledger, from the operation it performs. *)
LEMMA GrantIsStep ==
  ASSUME NEW c \in Caller, NEW q \in Quota, NEW n \in Amount, Ledger!Grant(c, q, n)
  PROVE  LedgerStep
<1>1. Ledger!Next
  BY DEF Ledger!Next
<1> QED BY <1>1 DEF LedgerStep

LEMMA CommitIsStep ==
  ASSUME NEW q \in Quota, NEW n \in Amount, Ledger!Commit(q, n)
  PROVE  LedgerStep
<1>1. Ledger!Next
  BY DEF Ledger!Next
<1> QED BY <1>1 DEF LedgerStep

LEMMA ReleaseIsStep ==
  ASSUME NEW q \in Quota, NEW n \in Amount, Ledger!Release(q, n)
  PROVE  LedgerStep
<1>1. Ledger!Next
  BY DEF Ledger!Next
<1> QED BY <1>1 DEF LedgerStep

LEMMA ReserveWriteStep == ASSUME QuotaInv, NEW c \in Caller, ReserveWrite(c) PROVE LedgerStep
<1> DEFINE r == call[c]
           row == quotas[r.quota]
<1>0. Active(c) /\ r.pc = "write" /\ r.op = "reserve"
  BY DEF ReserveWrite, Active
<1>1. /\ r \in CallState /\ r.quota \in Quota /\ r.amount \in Amount /\ r.amount \in Int
      /\ row.used \in Int /\ row.reserved \in Nat /\ quotas \in [Quota -> QuotaRow]
  BY <1>0, CallFacts DEF CallState, QuotaInv, TypeOK
<1>q. PICK q \in Quota, n \in Amount : q = r.quota /\ n = r.amount
  BY <1>1
<1>2. CASE ReserveMatches(row, r.amount, r.seen)
  <2> DEFINE new == ReserveQuota(row, r.amount)
             s == [r EXCEPT !.pc = "reserved"]
  <2>1. quotas' = [quotas EXCEPT ![r.quota] = new] /\ call' = [call EXCEPT ![c] = s]
    BY <1>2 DEF ReserveWrite
  <2>2. new.used = row.used /\ new.reserved = row.reserved + r.amount
    BY DEF ReserveQuota
  <2>3. /\ s \in CallState /\ s.pc = "reserved" /\ s.op = r.op /\ s.quota = r.quota
        /\ s.amount = r.amount
    BY <1>1, SetPc DEF ActivePc
  <2> HIDE DEF new, s
  <2>4. /\ RequestOf(r) = Ledger!Request(r.quota, r.amount, "pending")
        /\ RequestOf(s) = Ledger!Request(r.quota, r.amount, "granted")
    BY <1>0, <1>1, <2>3, RequestValue
  <2>5. [d \in Caller |-> RequestOf(call[d])]' =
          [[d \in Caller |-> RequestOf(call[d])] EXCEPT ![c] = RequestOf(s)]
    BY <2>1, RequestMoves
  <2>6. Ledger!Fits(r.quota, r.amount)
    BY <1>1, <1>2, QuotaAssumption DEF ReserveMatches, Remaining, Ledger!Fits
  <2>7. Ledger!Grant(c, q, n)
    BY <1>1, <1>q, <2>1, <2>2, <2>4, <2>5, <2>6 DEF Ledger!Grant
  <2> QED BY <2>7, GrantIsStep
<1>3. CASE ~ReserveMatches(row, r.amount, r.seen)
  <2>1. UNCHANGED <<quotas, raised>> /\ call' = [call EXCEPT ![c] = Again(r, "select")]
    BY <1>3 DEF ReserveWrite
  <2> QED BY <1>0, <2>1, AgainStep
<1> QED BY <1>2, <1>3

LEMMA CommitWriteStep == ASSUME QuotaInv, NEW c \in Caller, CommitWrite(c) PROVE LedgerStep
<1> DEFINE r == call[c]
           row == quotas[r.quota]
<1>0. Active(c) /\ r.pc = "write" /\ r.op = "commit"
  BY DEF CommitWrite, Active
<1>1. /\ r \in CallState /\ r.quota \in Quota /\ r.amount \in Amount /\ r.amount \in Int
      /\ row.used \in Int /\ row.reserved \in Nat /\ quotas \in [Quota -> QuotaRow]
  BY <1>0, CallFacts DEF CallState, QuotaInv, TypeOK
<1>q. PICK q \in Quota, n \in Amount : q = r.quota /\ n = r.amount
  BY <1>1
<1>2. CASE CommitMatches(row, r.amount, r.seen)
  <2> DEFINE new == CommitQuota(row, r.amount)
  <2>1. quotas' = [quotas EXCEPT ![r.quota] = new] /\ call' = [call EXCEPT ![c] = Idle]
    BY <1>2 DEF CommitWrite
  <2>2. new.used = row.used + r.amount /\ new.reserved = row.reserved - r.amount
    BY DEF CommitQuota
  <2>3. RequestOf(r) = Ledger!NoRequest /\ RequestOf(Idle) = Ledger!NoRequest
    BY <1>0, <1>1, RequestValue DEF RequestOf, Idle, Ledger!NoRequest
  <2>4. [d \in Caller |-> RequestOf(call[d])]' = [d \in Caller |-> RequestOf(call[d])]
    BY <2>1, <2>3, RequestMoves
  <2>5. r.amount <= row.reserved
    BY <1>1, <1>2 DEF CommitMatches
  <2> HIDE DEF new
  <2>6. Ledger!Commit(q, n)
    BY <1>1, <1>q, <2>1, <2>2, <2>4, <2>5 DEF Ledger!Commit
  <2> QED BY <2>6, CommitIsStep
<1>3. CASE ~CommitMatches(row, r.amount, r.seen)
  <2>1. UNCHANGED <<quotas, raised>> /\ call' = [call EXCEPT ![c] = Again(r, "read")]
    BY <1>3 DEF CommitWrite
  <2> QED BY <1>0, <2>1, AgainStep
<1> QED BY <1>2, <1>3

LEMMA ReleaseWriteStep == ASSUME QuotaInv, NEW c \in Caller, ReleaseWrite(c) PROVE LedgerStep
<1> DEFINE r == call[c]
           row == quotas[r.quota]
<1>0. Active(c) /\ r.pc = "write" /\ r.op = "release"
  BY DEF ReleaseWrite, Active
<1>1. /\ r \in CallState /\ r.quota \in Quota /\ r.amount \in Amount /\ r.amount \in Int
      /\ row.used \in Int /\ row.reserved \in Nat /\ quotas \in [Quota -> QuotaRow]
  BY <1>0, CallFacts DEF CallState, QuotaInv, TypeOK
<1>q. PICK q \in Quota, n \in Amount : q = r.quota /\ n = r.amount
  BY <1>1
<1>2. CASE ReleaseMatches(row, r.amount, r.seen)
  <2> DEFINE new == ReleaseQuota(row, r.amount)
  <2>1. quotas' = [quotas EXCEPT ![r.quota] = new] /\ call' = [call EXCEPT ![c] = Idle]
    BY <1>2 DEF ReleaseWrite
  <2>2. new.used = row.used /\ new.reserved = row.reserved - r.amount
    BY DEF ReleaseQuota
  <2>3. RequestOf(r) = Ledger!NoRequest /\ RequestOf(Idle) = Ledger!NoRequest
    BY <1>0, <1>1, RequestValue DEF RequestOf, Idle, Ledger!NoRequest
  <2>4. [d \in Caller |-> RequestOf(call[d])]' = [d \in Caller |-> RequestOf(call[d])]
    BY <2>1, <2>3, RequestMoves
  <2>5. r.amount <= row.reserved
    BY <1>1, <1>2 DEF ReleaseMatches
  <2> HIDE DEF new
  <2>6. Ledger!Release(q, n)
    BY <1>1, <1>q, <2>1, <2>2, <2>4, <2>5 DEF Ledger!Release
  <2> QED BY <2>6, ReleaseIsStep
<1>3. CASE ~ReleaseMatches(row, r.amount, r.seen)
  <2>1. UNCHANGED <<quotas, raised>> /\ call' = [call EXCEPT ![c] = Again(r, "read")]
    BY <1>3 DEF ReleaseWrite
  <2> QED BY <1>0, <2>1, AgainStep
<1> QED BY <1>2, <1>3

LEMMA BusyStep ==
  ASSUME QuotaInv, NEW c \in Caller, ReserveBusy(c) \/ ReadQuota(c)
  PROVE  LedgerStep
<1> DEFINE r == call[c]
<1>0. Active(c) /\ UNCHANGED <<quotas, raised>> /\ r.pc \in {"write", "read"} /\ r \in CallState
  <2>1. Active(c) /\ UNCHANGED <<quotas, raised>> /\ r.pc \in {"write", "read"}
    BY DEF ReserveBusy, ReadQuota, Active
  <2> QED BY <2>1, CallFacts
<1>1. CASE call' = [call EXCEPT ![c] = Idle]
  BY <1>0, <1>1, LeaveStep DEF Return, LedgerStep, Ledger!Next
<1>2. ASSUME NEW s \in CallState, call' = [call EXCEPT ![c] = s], s.pc \in {"select", "write"},
             s.op = r.op, s.quota = r.quota, s.amount = r.amount
      PROVE  LedgerStep
  <2>1. RequestOf(s) = RequestOf(r)
    BY <1>0, <1>2, RequestValue
  <2> QED BY <1>0, <1>2, <2>1, SameRequest DEF LedgerStep
<1>3. CASE ReserveBusy(c) /\ r.attempt < MaxRetries
  <2> DEFINE m == [r EXCEPT !.pc = "select"]
             n == [m EXCEPT !.attempt = r.attempt + 1]
             s == [n EXCEPT !.busy = r.busy + 1]
  <2>1. call' = [call EXCEPT ![c] = s]
    BY <1>3 DEF ReserveBusy
  <2>2. r.attempt + 1 \in Nat /\ r.busy + 1 \in Nat
    BY <1>0 DEF CallState
  <2>3. /\ m \in CallState /\ m.pc = "select" /\ m.op = r.op /\ m.quota = r.quota
        /\ m.amount = r.amount
    BY <1>0, SetPc DEF ActivePc
  <2> HIDE DEF m
  <2>4. /\ n \in CallState /\ n.pc = "select" /\ n.op = r.op /\ n.quota = r.quota
        /\ n.amount = r.amount
    BY <2>2, <2>3, SetAttempt
  <2> HIDE DEF n
  <2>5. /\ s \in CallState /\ s.pc = "select" /\ s.op = r.op /\ s.quota = r.quota
        /\ s.amount = r.amount
    BY <2>2, <2>4, SetBusy
  <2> HIDE DEF s
  <2> QED BY <1>2, <2>1, <2>5
<1>4. CASE ReadQuota(c) /\ ~(r.op = "commit" /\ quotas[r.quota].reserved < r.amount)
  <2> DEFINE m == [r EXCEPT !.pc = "write"]
             s == [m EXCEPT !.seen = quotas[r.quota].version]
  <2>1. call' = [call EXCEPT ![c] = s]
    BY <1>4 DEF ReadQuota
  <2>2. quotas[r.quota].version \in Nat
    BY <1>0, CallFacts
  <2>3. /\ m \in CallState /\ m.pc = "write" /\ m.op = r.op /\ m.quota = r.quota
        /\ m.amount = r.amount
    BY <1>0, SetPc DEF ActivePc
  <2> HIDE DEF m
  <2>4. /\ s \in CallState /\ s.pc = "write" /\ s.op = r.op /\ s.quota = r.quota
        /\ s.amount = r.amount
    BY <2>2, <2>3, SetSeen
  <2> HIDE DEF s
  <2> QED BY <1>2, <2>1, <2>4
<1> QED BY <1>1, <1>3, <1>4 DEF ReserveBusy, ReadQuota

LEMMA InitLedger == Init => Ledger!Init
BY DEF Init, Ledger!Init, NoQuota, RequestOf, Idle, Ledger!NoRequest

LEMMA NextLedger == QuotaInv /\ [Next]_vars => [Ledger!Next]_(Ledger!ledger)
<1> SUFFICES ASSUME QuotaInv, [Next]_vars PROVE LedgerStep
  BY DEF LedgerStep
<1>1. ASSUME NEW c \in Caller, Return(c) PROVE LedgerStep
  BY <1>1, LeaveStep DEF LedgerStep, Ledger!Next
<1>2. CASE Next
  BY <1>1, <1>2, AskStep, GetQuotaStep, CreateQuotaStep, ReserveWriteStep, CommitWriteStep,
     ReleaseWriteStep, BusyStep DEF Next
<1>3. CASE UNCHANGED vars
  BY <1>3 DEF vars, LedgerStep, Ledger!ledger
<1> QED BY <1>2, <1>3

\* Every reservation is granted or refused at one instant, by what is left at
\* that instant, and counted exactly once if it is granted.
THEOREM QuotaKeepsLedger == Spec => KeepsLedger
BY InitLedger, NextLedger, QuotaInvariant, PTL DEF Spec, KeepsLedger, Ledger!Spec
=============================================================================
