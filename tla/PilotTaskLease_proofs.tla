------------------------ MODULE PilotTaskLease_proofs ------------------------
(***************************************************************************)
(* The lease table and the task table of PilotTask agree, for every set of *)
(* tasks, executors, leases and callers and every bound.  No transaction   *)
(* spans the two tables; what keeps them together is that a lease id is    *)
(* drawn once, that it enters task_leases after the task row, and that a   *)
(* lease is ended only by a call whose own UPDATE took it off the row or   *)
(* completed the task.                                                     *)
(***************************************************************************)
EXTENDS PilotTask_proofs

\* Two tasks never have the same lease, and a claimed task has one.
RowLeases ==
  /\ \A t, u \in Task :
       tasks[t].leaseId = tasks[u].leaseId /\ tasks[t].leaseId # None => t = u
  /\ \A t \in Task : tasks[t].status = "claimed" => tasks[t].leaseId # None

\* What task_leases says of a lease, seen from the task table.
LeaseTrue(l) ==
  /\ leases[l].status = "active" =>
       \A t \in Task : tasks[t].leaseId = l =>
         t = leases[l].task /\ tasks[t].claimedBy = leases[l].executor
  /\ leases[l].status = "released" =>
       \E t \in Task : /\ t = leases[l].task
                       /\ tasks[t].status = "completed"
                       /\ tasks[t].leaseId = l
                       /\ tasks[t].claimedBy = leases[l].executor
  /\ leases[l].status = "revoked" => \A t \in Task : tasks[t].leaseId # l

\* A Claim call that has drawn a lease id and not inserted its row yet.
Drawing(c) == call[c].pc \in {"claim", "createLease"}

\* The lease a call works with.
CallLease(c) ==
  LET row == tasks[call[c].task]
      l == call[c].lease
  IN
  /\ Drawing(c) => leases[l].status = "none"
  /\ call[c].pc = "claim" => \A t \in Task : tasks[t].leaseId # l
  /\ call[c].pc = "createLease" =>
       \A t \in Task : tasks[t].leaseId = l =>
         t = call[c].task /\ tasks[t].claimedBy = call[c].executor
  /\ call[c].pc = "report" /\ call[c].version = row.version => row.leaseId = l
  /\ call[c].pc \in {"getLease", "releaseLease"} => row.leaseId = l

\* newUUID never returns an id twice.
DrawnOnce ==
  \A c, d \in Caller : Drawing(c) /\ Drawing(d) /\ call[c].lease = call[d].lease => c = d

\* The lease of a claim on the tick's list.
ListLease(x) == x.version = tasks[x.task].version => x.lease = tasks[x.task].leaseId

\* The tick is about to revoke a lease it has taken off its task.
Revoking == tick.pc \in {"getLease", "revokeLease"}

TickLease ==
  /\ \A x \in tick.expired : ListLease(x)
  /\ Revoking =>
       /\ \A t \in Task : tasks[t].leaseId # tick.lease
       /\ \A c \in Caller : call[c].pc = "claim" => call[c].lease # tick.lease

LeaseInv ==
  /\ RowLeases
  /\ \A l \in Lease : LeaseTrue(l)
  /\ \A c \in Caller : CallLease(c)
  /\ DrawnOnce
  /\ TickLease

LEMMA InitLease == Init => LeaseInv
BY DEF Init, LeaseInv, RowLeases, LeaseTrue, CallLease, DrawnOnce, TickLease, ListLease,
       Drawing, Revoking, NoTask, NoLease, IdleCall, IdleTick

-----------------------------------------------------------------------------
(* Steps that write no lease id into a task row.                           *)

\* Every row keeps its lease and its owner, or loses its lease; no task
\* becomes claimed.
RowsRetire ==
  \A t \in Task :
    /\ \/ tasks'[t].leaseId = None
       \/ /\ tasks'[t].leaseId = tasks[t].leaseId
          /\ tasks'[t].claimedBy = tasks[t].claimedBy
    /\ tasks'[t].status = "claimed" => tasks'[t] = tasks[t]

LEMMA LeasesKept ==
  ASSUME TypeInv, TypeInv', LockInv, LeaseInv, RowsMove, RowsRetire
  PROVE  /\ RowLeases'
         /\ \A l \in Lease : leases'[l] = leases[l] => LeaseTrue(l)'
         /\ leases' = leases =>
              \A c \in Caller : call'[c] \in {call[c], IdleCall} => CallLease(c)'
         /\ \A x \in tick.expired : ListLease(x)'
<1>0. /\ tasks \in [Task -> TaskRow] /\ tasks' \in [Task -> TaskRow]
      /\ call \in [Caller -> CallState] /\ tick \in TickState
      /\ None \notin Lease
  BY ConstantsAssumption DEF TypeInv, TypeOK
<1>1. RowLeases'
  BY DEF RowsRetire, LeaseInv, RowLeases
<1>2. ASSUME NEW l \in Lease, leases'[l] = leases[l] PROVE LeaseTrue(l)'
  <2>1. \A t \in Task : tasks'[t].leaseId = l =>
          tasks[t].leaseId = l /\ tasks'[t].claimedBy = tasks[t].claimedBy
    BY <1>0 DEF RowsRetire
  <2>2. \A t \in Task : tasks[t].status = "completed" => tasks'[t] = tasks[t]
    BY DEF RowsMove
  <2>3. LeaseTrue(l)
    BY DEF LeaseInv
  <2> QED BY <1>2, <2>1, <2>2, <2>3 DEF LeaseTrue
<1>3. ASSUME leases' = leases, NEW c \in Caller, call'[c] \in {call[c], IdleCall}
      PROVE  CallLease(c)'
  <2>1. CASE call'[c] = IdleCall
    BY <2>1 DEF CallLease, Drawing, IdleCall
  <2>2. CASE call'[c] = call[c] /\ call[c].pc # "idle"
    <3> DEFINE t == call[c].task
    <3>1. /\ t \in Task /\ call[c].version \in Nat /\ tasks[t].version \in Nat
          /\ Drawing(c) => call[c].lease \in Lease
          /\ CallKnows(c) /\ CallLease(c)
      BY <1>0, <2>2 DEF TypeInv, CallArguments, CallState, LockInv, LeaseInv, Drawing, TaskRow
    <3>2. \A u \in Task : Drawing(c) /\ tasks'[u].leaseId = call[c].lease =>
            tasks[u].leaseId = call[c].lease /\ tasks'[u].claimedBy = tasks[u].claimedBy
      BY <1>0, <3>1 DEF RowsRetire
    <3>3. call[c].pc = "report" /\ call[c].version = tasks'[t].version => tasks'[t] = tasks[t]
      BY <3>1 DEF RowsMove, CallKnows
    <3>4. call[c].pc \in {"getLease", "releaseLease"} => tasks'[t] = tasks[t]
      BY <3>1 DEF RowsMove, LockInv, OneReport, Accepted
    <3> QED BY <1>3, <2>2, <3>1, <3>2, <3>3, <3>4 DEF CallLease, Drawing
  <2> QED BY <1>3, <2>1, <2>2 DEF CallLease, Drawing
<1>4. ASSUME NEW x \in tick.expired PROVE ListLease(x)'
  <2>1. /\ x.task \in Task /\ x.version \in Nat /\ tasks[x.task].version \in Nat
        /\ ListKnows(x) /\ ListLease(x)
    BY <1>0, <1>4 DEF TickState, ExpiredClaim, TaskRow, LockInv, TickKnows, LeaseInv, TickLease
  <2> QED BY <2>1 DEF RowsMove, ListKnows, ListLease
<1> QED BY <1>1, <1>2, <1>3, <1>4

\* The tick's knowledge when the tick does nothing and no call draws a lease.
LEMMA TickKept ==
  ASSUME TypeInv, TypeInv', LockInv, LeaseInv, RowsMove, RowsRetire,
         tick' \in {tick, IdleTick},
         \A c \in Caller : call'[c].pc = "claim" => call'[c] = call[c]
  PROVE  TickLease'
<1>1. CASE tick' = IdleTick
  BY <1>1 DEF TickLease, Revoking, IdleTick
<1>2. CASE tick' = tick
  <2>1. \A x \in tick.expired : ListLease(x)'
    BY LeasesKept
  <2>2. ASSUME Revoking
        PROVE  /\ \A t \in Task : tasks'[t].leaseId # tick.lease
               /\ \A c \in Caller : call'[c].pc = "claim" => call'[c].lease # tick.lease
    <3>1. tick.lease # None
      BY <2>2, ConstantsAssumption DEF Revoking, TypeInv, TickArguments
    <3> QED BY <2>2, <3>1 DEF LeaseInv, TickLease, RowsRetire
  <2> QED BY <1>2, <2>1, <2>2 DEF TickLease, Revoking
<1> QED BY <1>1, <1>2

\* Steps that leave task_leases alone and end calls or leave them as they are.
LEMMA QuietStep ==
  ASSUME TypeInv, TypeInv', LockInv, LeaseInv, RowsMove, RowsRetire, leases' = leases,
         tick' \in {tick, IdleTick},
         \A c \in Caller : call'[c] \in {call[c], IdleCall}
  PROVE  LeaseInv'
<1>1. RowLeases' /\ (\A l \in Lease : LeaseTrue(l)') /\ \A c \in Caller : CallLease(c)'
  BY LeasesKept
<1>2. \A c \in Caller : call'[c].pc \in {"claim", "createLease"} => call'[c] = call[c]
  BY DEF IdleCall
<1>3. DrawnOnce'
  BY <1>2 DEF LeaseInv, DrawnOnce, Drawing
<1>4. TickLease'
  BY <1>2, TickKept
<1> QED BY <1>1, <1>3, <1>4 DEF LeaseInv

\* Steps of the engine that leave calls and task_leases alone.
LEMMA TickStep ==
  ASSUME TypeInv, TypeInv', LockInv, LeaseInv, RowsMove, RowsRetire,
         leases' = leases, call' = call,
         tick'.expired \subseteq tick.expired,
         Revoking' => Revoking /\ tick'.lease = tick.lease
  PROVE  LeaseInv'
<1>1. /\ RowLeases' /\ (\A l \in Lease : LeaseTrue(l)') /\ \A c \in Caller : CallLease(c)'
      /\ \A x \in tick.expired : ListLease(x)'
  BY LeasesKept
<1>2. DrawnOnce'
  BY DEF LeaseInv, DrawnOnce, Drawing
<1>3. ASSUME Revoking'
      PROVE  /\ \A t \in Task : tasks'[t].leaseId # tick'.lease
             /\ \A c \in Caller : call'[c].pc = "claim" => call'[c].lease # tick'.lease
  <2>1. tick.lease # None
    BY <1>3, ConstantsAssumption DEF Revoking, TypeInv, TickArguments
  <2> QED BY <1>3, <2>1 DEF LeaseInv, TickLease, RowsRetire
<1>4. TickLease'
  BY <1>1, <1>3 DEF TickLease
<1> QED BY <1>1, <1>2, <1>4 DEF LeaseInv

\* The writes that name no lease.
LEMMA StatusRetires ==
  ASSUME TypeInv, NEW t \in Task, NEW s \in PilotTaskStatus \ {"claimed"}, NEW v \in Nat,
         UpdatePilotTaskStatus(t, s, v)
  PROVE  RowsRetire
<1>1. tasks \in [Task -> TaskRow] /\ tasks[t] \in TaskRow
  BY DEF TypeInv, TypeOK
<1>2. /\ Moved(tasks[t], s).status = s
      /\ Moved(tasks[t], s).claimedBy = tasks[t].claimedBy
      /\ Moved(tasks[t], s).leaseId = tasks[t].leaseId
  BY <1>1, MovedTask
<1> QED BY <1>1, <1>2 DEF UpdatePilotTaskStatus, RowsRetire

LEMMA ClearRetires ==
  ASSUME TypeInv, NEW t \in Task, NEW v \in Nat, ClearPilotTaskClaim(t, v)
  PROVE  /\ RowsRetire
         /\ Matches(t, v) => tasks'[t].leaseId = None
         /\ \A u \in Task : u # t => tasks'[u] = tasks[u]
BY DEF TypeInv, TypeOK, ClearPilotTaskClaim, RowsRetire

LEMMA UnchangedRetires ==
  ASSUME tasks' = tasks PROVE RowsMove /\ RowsRetire
BY DEF RowsMove, RowsRetire

-----------------------------------------------------------------------------
(* LeaseInv is inductive: the calls of Claim.                              *)

\* A fresh lease id is nobody's.
LEMMA ClaimReadLease ==
  ASSUME TypeInv, TypeInv', LockInv, LeaseInv, NEW c \in Caller, NEW t \in Task,
         NEW e \in Executor, ClaimRead(c, t, e)
  PROVE  LeaseInv'
<1>0. call \in [Caller -> CallState]
  BY DEF TypeInv, TypeOK
<1>1. UNCHANGED <<tasks, leases, tick>> /\ RowsMove /\ RowsRetire
  BY UnchangedRetires DEF ClaimRead
<1>2. PICK l \in Lease :
        /\ Fresh(l)
        /\ call' = [call EXCEPT ![c] = [IdleCall EXCEPT
                     !.pc = "claim", !.task = t, !.executor = e, !.lease = l,
                     !.version = tasks[t].version, !.expiresAt = ExpiresAt(clock)]]
  BY DEF ClaimRead
<1>3. /\ call'[c].pc = "claim" /\ call'[c].lease = l
      /\ \A d \in Caller \ {c} : call'[d] = call[d]
  BY <1>0, <1>2 DEF IdleCall
<1>4. /\ leases[l].status = "none"
      /\ \A u \in Task : tasks[u].leaseId # l
      /\ \A d \in Caller : call[d].lease # l
      /\ tick.lease # l
  BY <1>2 DEF Fresh, LeaseExists
<1>5. RowLeases' /\ (\A k \in Lease : LeaseTrue(k)') /\ \A x \in tick.expired : ListLease(x)'
  BY <1>1, LeasesKept
<1>6. \A d \in Caller : CallLease(d)'
  <2>1. CallLease(c)'
    BY <1>1, <1>3, <1>4 DEF CallLease, Drawing
  <2> QED BY <1>1, <1>3, <2>1, LeasesKept
<1>7. DrawnOnce'
  BY <1>3, <1>4 DEF LeaseInv, DrawnOnce, Drawing
<1>8. TickLease'
  BY <1>1, <1>3, <1>4, <1>5 DEF LeaseInv, TickLease, Revoking
<1> QED BY <1>5, <1>6, <1>7, <1>8 DEF LeaseInv

\* The UPDATE of Claim: the lease id enters one row, or is forgotten.
LEMMA ClaimWriteLease ==
  ASSUME TypeInv, TypeInv', LockInv, LeaseInv, NEW c \in Caller, ClaimWrite(c)
  PROVE  LeaseInv'
<1>0. /\ tasks \in [Task -> TaskRow] /\ call \in [Caller -> CallState]
      /\ tick \in TickState /\ None \notin Lease
  BY ConstantsAssumption DEF TypeInv, TypeOK
<1> DEFINE t == call[c].task
           l == call[c].lease
<1>1. /\ call[c].pc = "claim"
      /\ t \in Task /\ call[c].version \in Nat /\ call[c].executor \in Executor
      /\ l \in Lease /\ call[c].expiresAt \in Nat \cup {NullTime}
      /\ Matches(t, call[c].version) => tasks[t].status = "assigned"
  BY ReadArguments DEF ClaimWrite
<1>2. leases' = leases /\ tick' = tick /\ \A d \in Caller \ {c} : call'[d] = call[d]
  BY <1>0 DEF ClaimWrite
<1>3. CASE ~Matches(t, call[c].version)
  <2>1. tasks' = tasks /\ call'[c] = IdleCall
    BY <1>0, <1>3 DEF ClaimWrite, UpdatePilotTaskClaim
  <2> QED BY <1>2, <2>1, UnchangedRetires, QuietStep
<1>4. CASE Matches(t, call[c].version)
  <2>1. /\ call'[c].pc = "createLease" /\ call'[c].task = t /\ call'[c].lease = l
        /\ call'[c].executor = call[c].executor
    BY <1>0, <1>4 DEF ClaimWrite, CallState
  <2>2. /\ RowsMove
        /\ \A u \in Task : u # t => tasks'[u] = tasks[u]
        /\ tasks'[t].status = "claimed" /\ tasks'[t].claimedBy = call[c].executor
        /\ tasks'[t].leaseId = l
    <3>1. UpdatePilotTaskClaim(t, call[c].executor, l, call[c].expiresAt, call[c].version)
      BY DEF ClaimWrite
    <3> HIDE DEF t, l
    <3> QED BY <1>1, <1>4, <3>1, ClaimedWrite
  <2>3. leases[l].status = "none" /\ \A u \in Task : tasks[u].leaseId # l
    BY <1>1 DEF LeaseInv, CallLease, Drawing
  <2>4. RowLeases'
    BY <1>0, <1>1, <2>2, <2>3 DEF LeaseInv, RowLeases
  <2>5. ASSUME NEW k \in Lease PROVE LeaseTrue(k)'
    <3>1. CASE k = l
      BY <1>2, <2>3, <3>1 DEF LeaseTrue
    <3>2. CASE k # l
      <4>1. \A u \in Task : tasks'[u].leaseId = k => tasks'[u] = tasks[u]
        BY <2>2, <3>2
      <4>2. \A u \in Task : tasks[u].status = "completed" => tasks'[u] = tasks[u]
        BY <2>2 DEF RowsMove
      <4> QED BY <1>2, <4>1, <4>2 DEF LeaseInv, LeaseTrue
    <3> QED BY <3>1, <3>2
  <2>6. \A d \in Caller \ {c} : Drawing(d) => call[d].lease # l
    BY <1>1 DEF LeaseInv, DrawnOnce, Drawing
  <2>7. ASSUME NEW d \in Caller PROVE CallLease(d)'
    <3>1. CASE d = c
      BY <1>1, <1>2, <2>1, <2>2, <2>3, <3>1 DEF CallLease, Drawing
    <3>2. CASE d # c
      <4>1. call'[d] = call[d] /\ CallLease(d) /\ CallKnows(d)
        BY <1>2, <3>2 DEF LeaseInv, LockInv
      <4>2. Drawing(d) => call[d].lease # l
        BY <2>6, <3>2
      <4>3. call[d].pc = "report" /\ call[d].version = tasks'[call[d].task].version
              => tasks'[call[d].task] = tasks[call[d].task]
        <5>1. call[d].pc = "report" =>
                /\ call[d].task \in Task /\ call[d].version \in Nat
                /\ tasks[call[d].task].version \in Nat
          BY <1>0 DEF TypeInv, CallArguments, CallState, TaskRow
        <5> QED BY <2>2, <4>1, <5>1 DEF RowsMove, CallKnows
      <4>4. call[d].pc \in {"getLease", "releaseLease"} =>
              tasks'[call[d].task] = tasks[call[d].task]
        BY <2>2 DEF RowsMove, LockInv, OneReport, Accepted, TypeInv, CallArguments
      <4> QED BY <1>2, <2>2, <4>1, <4>2, <4>3, <4>4 DEF CallLease, Drawing
    <3> QED BY <3>1, <3>2
  <2>8. DrawnOnce'
    BY <1>2, <2>1, <2>6 DEF LeaseInv, DrawnOnce, Drawing
  <2>9. TickLease'
    <3>1. ASSUME NEW x \in tick.expired PROVE ListLease(x)'
      <4>1. /\ x.task \in Task /\ x.version \in Nat /\ tasks[x.task].version \in Nat
            /\ ListKnows(x) /\ ListLease(x)
        BY <1>0, <3>1 DEF TickState, ExpiredClaim, TaskRow, LockInv, TickKnows, LeaseInv,
                          TickLease
      <4> QED BY <2>2, <4>1 DEF RowsMove, ListKnows, ListLease
    <3>2. Revoking => l # tick.lease
      BY <1>1 DEF LeaseInv, TickLease
    <3> QED BY <1>2, <2>1, <2>2, <3>1, <3>2 DEF LeaseInv, TickLease, Revoking
  <2> QED BY <2>4, <2>5, <2>7, <2>8, <2>9 DEF LeaseInv
<1> QED BY <1>3, <1>4

\* The INSERT of the lease: of the task it is on, if it is still on one.
LEMMA CreateLeaseLease ==
  ASSUME TypeInv, TypeInv', LockInv, LeaseInv, NEW c \in Caller, ClaimCreateLease(c)
  PROVE  LeaseInv'
<1>0. call \in [Caller -> CallState] /\ leases \in [Lease -> LeaseRow]
  BY DEF TypeInv, TypeOK
<1> DEFINE l == call[c].lease
<1>1. call[c].pc = "createLease" /\ l \in Lease /\ Drawing(c)
  BY DEF ClaimCreateLease, TypeInv, CallArguments, Drawing
<1>2. /\ UNCHANGED <<tasks, tick>> /\ RowsMove /\ RowsRetire
      /\ call'[c] = IdleCall
      /\ \A d \in Caller \ {c} : call'[d] = call[d]
  BY <1>0, UnchangedRetires DEF ClaimCreateLease
<1>3. /\ leases'[l].status = "active" /\ leases'[l].task = call[c].task
      /\ leases'[l].executor = call[c].executor
      /\ \A k \in Lease \ {l} : leases'[k] = leases[k]
  BY <1>0, <1>1 DEF ClaimCreateLease, CreateLease
<1>4. \A u \in Task : tasks[u].leaseId = l =>
        u = call[c].task /\ tasks[u].claimedBy = call[c].executor
  BY <1>1 DEF LeaseInv, CallLease
<1>5. RowLeases' /\ \A k \in Lease : LeaseTrue(k)'
  <2>1. ASSUME NEW k \in Lease, k = l PROVE LeaseTrue(k)'
    BY <1>2, <1>3, <1>4, <2>1 DEF LeaseTrue
  <2> QED BY <1>2, <1>3, <2>1, LeasesKept
<1>6. ASSUME NEW d \in Caller PROVE CallLease(d)'
  <2>1. CASE d = c
    BY <1>2, <2>1 DEF CallLease, Drawing, IdleCall
  <2>2. CASE d # c
    <3>1. Drawing(d) => call[d].lease \in Lease \ {l}
      BY <1>1, <2>2 DEF LeaseInv, DrawnOnce, TypeInv, CallArguments, Drawing
    <3> QED BY <1>2, <1>3, <2>2, <3>1 DEF LeaseInv, CallLease, Drawing
  <2> QED BY <2>1, <2>2
<1>7. DrawnOnce'
  BY <1>2 DEF LeaseInv, DrawnOnce, Drawing, IdleCall
<1>8. TickLease'
  BY <1>2, TickKept DEF IdleCall
<1> QED BY <1>5, <1>6, <1>7, <1>8 DEF LeaseInv

-----------------------------------------------------------------------------
(* The two statements that end a lease.                                    *)

LEMMA LeaseEnded ==
  ASSUME TypeInv, NEW l \in Lease, NEW s \in {"released", "revoked"}, NEW v \in Nat,
         EndLease(l, s, v)
  PROVE  /\ \A k \in Lease \ {l} : leases'[k] = leases[k]
         /\ \/ leases' = leases
            \/ /\ leases[l].status = "active"
               /\ leases'[l].status = s
               /\ leases'[l].task = leases[l].task
               /\ leases'[l].executor = leases[l].executor
<1>1. leases \in [Lease -> LeaseRow] /\ leases[l] \in LeaseRow
  BY DEF TypeInv, TypeOK
<1>2. /\ Moved(leases[l], s).status = s
      /\ Moved(leases[l], s).task = leases[l].task
      /\ Moved(leases[l], s).executor = leases[l].executor
  BY <1>1, MovedLease
<1> QED BY <1>1, <1>2 DEF EndLease

\* No call that is drawing a lease has one that ends.
LEMMA EndKeepsCalls ==
  ASSUME TypeInv, LeaseInv, NEW l \in Lease, NEW s \in {"released", "revoked"}, NEW v \in Nat,
         EndLease(l, s, v), tasks' = tasks, NEW c \in Caller, call'[c] = call[c]
  PROVE  CallLease(c)'
<1>1. Drawing(c) => call[c].lease \in Lease /\ leases[call[c].lease].status = "none"
  BY DEF LeaseInv, CallLease, TypeInv, CallArguments, Drawing
<1>2. Drawing(c) => leases'[call[c].lease].status = "none"
  BY <1>1, LeaseEnded
<1> QED BY <1>2 DEF LeaseInv, CallLease, Drawing

\* ReleaseLease: the lease of the task this call completed.
LEMMA ReleaseLeaseLease ==
  ASSUME TypeInv, TypeInv', LockInv, LeaseInv, NEW c \in Caller, ReportReleaseLease(c)
  PROVE  LeaseInv'
<1>0. call \in [Caller -> CallState]
  BY DEF TypeInv, TypeOK
<1> DEFINE l == call[c].lease
           t == call[c].task
<1>1. /\ call[c].pc = "releaseLease" /\ l \in Lease /\ t \in Task
      /\ call[c].leaseVersion \in Nat
      /\ tasks[t].status = "completed" /\ tasks[t].leaseId = l
  BY <1>0 DEF ReportReleaseLease, TypeInv, CallArguments, CallState, LockInv, OneReport,
              Accepted, LeaseInv, CallLease
<1>2. /\ UNCHANGED <<tasks, tick>> /\ RowsMove /\ RowsRetire
      /\ call'[c].pc = "record"
      /\ \A d \in Caller \ {c} : call'[d] = call[d]
  BY <1>0, UnchangedRetires DEF ReportReleaseLease, CallState
<1>3. EndLease(l, "released", call[c].leaseVersion)
  BY DEF ReportReleaseLease
<1>4. /\ \A k \in Lease \ {l} : leases'[k] = leases[k]
      /\ \/ leases' = leases
         \/ /\ leases[l].status = "active"
            /\ leases'[l].status = "released"
            /\ leases'[l].task = leases[l].task
            /\ leases'[l].executor = leases[l].executor
  <2> HIDE DEF l
  <2> QED BY <1>1, <1>3, LeaseEnded
<1>5. RowLeases' /\ \A k \in Lease : LeaseTrue(k)'
  <2>1. ASSUME NEW k \in Lease, k = l PROVE LeaseTrue(k)'
    BY <1>1, <1>2, <1>4, <2>1 DEF LeaseInv, LeaseTrue
  <2> QED BY <1>2, <1>4, <2>1, LeasesKept
<1>6. \A d \in Caller : CallLease(d)'
  <2>1. CallLease(c)'
    BY <1>2 DEF CallLease, Drawing
  <2>2. ASSUME NEW d \in Caller \ {c} PROVE CallLease(d)'
    <3> HIDE DEF l
    <3> QED BY <1>1, <1>2, <1>3, <2>2, EndKeepsCalls
  <2> QED BY <2>1, <2>2
<1>7. DrawnOnce'
  BY <1>2 DEF LeaseInv, DrawnOnce, Drawing
<1>8. TickLease'
  BY <1>2, TickKept
<1> QED BY <1>5, <1>6, <1>7, <1>8 DEF LeaseInv

\* RevokeLease: a lease the tick has taken off its task.
LEMMA RevokeLeaseLease ==
  ASSUME TypeInv, TypeInv', LockInv, LeaseInv, PreemptRevokeLease
  PROVE  LeaseInv'
<1>0. tick \in TickState
  BY DEF TypeInv, TypeOK
<1> DEFINE l == tick.lease
<1>1. /\ l \in Lease /\ tick.leaseVersion \in Nat
      /\ \A t \in Task : tasks[t].leaseId # l
  BY <1>0 DEF PreemptRevokeLease, TypeInv, TickArguments, TickState, LeaseInv, TickLease,
              Revoking
<1>2. /\ UNCHANGED <<tasks, call>> /\ RowsMove /\ RowsRetire
      /\ tick'.pc = "loop" /\ tick'.expired = tick.expired
  BY <1>0, UnchangedRetires DEF PreemptRevokeLease, TickState
<1>3. EndLease(l, "revoked", tick.leaseVersion)
  BY DEF PreemptRevokeLease
<1>4. /\ \A k \in Lease \ {l} : leases'[k] = leases[k]
      /\ leases' = leases \/ leases'[l].status = "revoked"
  <2> HIDE DEF l
  <2> QED BY <1>1, <1>3, LeaseEnded
<1>5. /\ RowLeases'
      /\ \A k \in Lease : LeaseTrue(k)'
      /\ \A x \in tick.expired : ListLease(x)'
  <2>1. ASSUME NEW k \in Lease, k = l PROVE LeaseTrue(k)'
    BY <1>1, <1>2, <1>4, <2>1 DEF LeaseInv, LeaseTrue
  <2> QED BY <1>2, <1>4, <2>1, LeasesKept
<1>6. \A c \in Caller : CallLease(c)'
  <2> HIDE DEF l
  <2> QED BY <1>1, <1>2, <1>3, EndKeepsCalls
<1>7. DrawnOnce'
  BY <1>2 DEF LeaseInv, DrawnOnce, Drawing
<1>8. TickLease'
  BY <1>2, <1>5 DEF TickLease, Revoking
<1> QED BY <1>5, <1>6, <1>7, <1>8 DEF LeaseInv

-----------------------------------------------------------------------------
(* Report, and the failures of a call, which draw no lease.                *)

\* One call moves on and leaves task_leases alone.
LEMMA CallMoves ==
  ASSUME TypeInv, TypeInv', LockInv, LeaseInv, RowsMove, RowsRetire, leases' = leases,
         tick' = tick, NEW c \in Caller,
         \A d \in Caller \ {c} : call'[d] = call[d],
         ~Drawing(c)', CallLease(c)'
  PROVE  LeaseInv'
<1>1. /\ RowLeases'
      /\ \A l \in Lease : LeaseTrue(l)'
      /\ \A d \in Caller : CallLease(d)'
  BY LeasesKept
<1>2. DrawnOnce'
  BY DEF LeaseInv, DrawnOnce, Drawing
<1>3. TickLease'
  BY TickKept DEF Drawing
<1> QED BY <1>1, <1>2, <1>3 DEF LeaseInv

LEMMA ReportLease ==
  ASSUME TypeInv, TypeInv', LockInv, LeaseInv, NEW c \in Caller,
         \/ \E t \in Task, e \in Executor : ReportRead(c, t, e)
         \/ ReportWrite(c) \/ ReportGetLease(c) \/ ReportRecord(c)
  PROVE  LeaseInv'
<1>0. tasks \in [Task -> TaskRow] /\ call \in [Caller -> CallState]
  BY DEF TypeInv, TypeOK
<1>1. ASSUME NEW t \in Task, NEW e \in Executor, ReportRead(c, t, e) PROVE LeaseInv'
  <2>1. /\ UNCHANGED <<tasks, leases, tick>> /\ RowsMove /\ RowsRetire
        /\ \A d \in Caller \ {c} : call'[d] = call[d]
        /\ call'[c].pc = "report" /\ call'[c].task = t /\ call'[c].lease = tasks[t].leaseId
    BY <1>0, <1>1, UnchangedRetires DEF ReportRead, IdleCall
  <2>2. CallLease(c)' /\ ~Drawing(c)'
    BY <2>1 DEF CallLease, Drawing
  <2> QED BY <2>1, <2>2, CallMoves
<1>2. CASE ReportWrite(c)
  <2> DEFINE t == call[c].task
  <2>1. /\ call[c].pc = "report" /\ t \in Task /\ call[c].version \in Nat
        /\ Matches(t, call[c].version) => tasks[t].status = "claimed"
        /\ Matches(t, call[c].version) => tasks[t].leaseId = call[c].lease
    BY <1>2, ReadArguments DEF ReportWrite, LeaseInv, CallLease, Matches
  <2>2. /\ UNCHANGED <<leases, tick>>
        /\ \A d \in Caller \ {c} : call'[d] = call[d]
        /\ ~Matches(t, call[c].version) => call'[c] = IdleCall
        /\ Matches(t, call[c].version) =>
             /\ call'[c].pc \in {"getLease", "record"} /\ call'[c].task = t
             /\ call'[c].lease = call[c].lease
    BY <1>0, <1>2 DEF ReportWrite, CallState
  <2>3. RowsMove /\ RowsRetire /\ tasks'[t].leaseId = tasks[t].leaseId
    <3>1. UpdatePilotTaskStatus(t, "completed", call[c].version)
      BY <1>2 DEF ReportWrite
    <3> HIDE DEF t
    <3> QED BY <2>1, <3>1, StatusWrite, StatusRetires DEF PilotTaskStatus
  <2>4. CallLease(c)' /\ ~Drawing(c)'
    BY <2>1, <2>2, <2>3 DEF CallLease, Drawing, IdleCall
  <2> QED BY <2>2, <2>3, <2>4, CallMoves
<1>3. CASE ReportGetLease(c) \/ ReportRecord(c)
  <2>1. /\ UNCHANGED <<tasks, leases, tick>> /\ RowsMove /\ RowsRetire
        /\ \A d \in Caller \ {c} : call'[d] = call[d]
    BY <1>0, <1>3, UnchangedRetires DEF ReportGetLease, ReportRecord
  <2>2. \/ call'[c].pc \in {"record", "idle"}
        \/ /\ call'[c].pc = "releaseLease" /\ call[c].pc = "getLease"
           /\ call'[c].task = call[c].task /\ call'[c].lease = call[c].lease
    <3>1. CASE ReportGetLease(c)
      BY <1>0, <3>1 DEF ReportGetLease, CallState
    <3>2. CASE ReportRecord(c)
      BY <1>0, <3>2 DEF ReportRecord, IdleCall
    <3> QED BY <1>3, <3>1, <3>2
  <2>3. CallLease(c)' /\ ~Drawing(c)'
    BY <2>1, <2>2 DEF LeaseInv, CallLease, Drawing
  <2> QED BY <2>1, <2>3, CallMoves
<1> QED BY <1>1, <1>2, <1>3

LEMMA FailureLease ==
  ASSUME TypeInv, TypeInv', LockInv, LeaseInv, NEW c \in Caller, CallStatementFails(c)
  PROVE  LeaseInv'
<1>0. call \in [Caller -> CallState]
  BY DEF TypeInv, TypeOK
<1>1. /\ UNCHANGED <<tasks, leases, tick>> /\ RowsMove /\ RowsRetire
      /\ \A d \in Caller \ {c} : call'[d] = call[d]
      /\ call'[c] = AfterError(call[c])
  BY <1>0, UnchangedRetires DEF CallStatementFails
<1>2. call'[c].pc \in {"cleanup", "record", "idle"}
  <2>1. CASE call[c].pc \in {"createLease", "getLease", "releaseLease"}
    BY <1>0, <1>1, <2>1 DEF AfterError, CallState
  <2>2. CASE call[c].pc \notin {"createLease", "getLease", "releaseLease"}
    BY <1>1, <2>2 DEF AfterError, IdleCall
  <2> QED BY <2>1, <2>2
<1>3. CallLease(c)' /\ ~Drawing(c)'
  BY <1>2 DEF CallLease, Drawing
<1> QED BY <1>1, <1>3, CallMoves

-----------------------------------------------------------------------------
(* The engine.                                                             *)

\* preemptOne takes the listed lease off the row, or leaves the row alone.
LEMMA PreemptLease ==
  ASSUME TypeInv, TypeInv', LockInv, LeaseInv, NEW x \in tick.expired, PreemptOne(x)
  PROVE  LeaseInv'
<1>0. /\ tasks \in [Task -> TaskRow] /\ tick \in TickState
      /\ x.task \in Task /\ x.version \in Nat
  BY DEF TypeInv, TypeOK, TickState, ExpiredClaim
<1>1. /\ Matches(x.task, x.version) => tasks[x.task].status = "claimed"
      /\ Matches(x.task, x.version) => x.lease = tasks[x.task].leaseId
  BY DEF LockInv, TickKnows, ListKnows, Matches, LeaseInv, TickLease, ListLease
<1>2. /\ RowsMove /\ RowsRetire
      /\ \A u \in Task : u # x.task => tasks'[u] = tasks[u]
      /\ Matches(x.task, x.version) => tasks'[x.task].leaseId = None
  BY <1>0, <1>1, ClearWrite, ClearRetires DEF PreemptOne
<1>3. /\ UNCHANGED <<leases, call>> /\ tick.pc = "loop"
      /\ tick'.expired \subseteq tick.expired
      /\ Revoking' => Matches(x.task, x.version) /\ x.lease # None /\ tick'.lease = x.lease
  BY <1>0 DEF PreemptOne, TickState, Revoking
<1>4. CASE ~Revoking'
  BY <1>2, <1>3, <1>4, TickStep
<1>5. CASE Revoking'
  <2>1. /\ tick'.lease = tasks[x.task].leaseId /\ tick'.lease # None
        /\ tasks[x.task].status = "claimed"
    BY <1>1, <1>3, <1>5
  <2>2. RowLeases' /\ (\A l \in Lease : LeaseTrue(l)') /\ \A y \in tick.expired : ListLease(y)'
    BY <1>2, <1>3, LeasesKept
  <2>3. \A c \in Caller : CallLease(c)'
    BY <1>2, <1>3, LeasesKept
  <2>4. DrawnOnce'
    BY <1>3 DEF LeaseInv, DrawnOnce, Drawing
  <2>5. \A u \in Task : tasks'[u].leaseId # tick'.lease
    BY <1>0, <1>2, <1>3, <1>5, <2>1 DEF LeaseInv, RowLeases
  <2>6. \A c \in Caller : call'[c].pc = "claim" => call'[c].lease # tick'.lease
    BY <1>0, <1>3, <2>1 DEF LeaseInv, CallLease
  <2>7. TickLease'
    BY <1>3, <2>2, <2>5, <2>6 DEF TickLease
  <2> QED BY <2>2, <2>3, <2>4, <2>7 DEF LeaseInv
<1> QED BY <1>4, <1>5

\* The tick's other steps, and their failures.
LEMMA TickOtherLease ==
  ASSUME TypeInv, TypeInv', LockInv, LeaseInv,
         \/ TickList \/ PreemptGetLease \/ ReassignWrite \/ TickEnd \/ RevokeFails
         \/ \E x \in tick.expired : PreemptFails(x)
         \/ \E t \in tick.preempted : ReassignRead(t) \/ ReassignFails(t)
  PROVE  LeaseInv'
<1>0. tasks \in [Task -> TaskRow] /\ tick \in TickState
  BY DEF TypeInv, TypeOK
<1>1. CASE TickList
  <2>1. /\ UNCHANGED <<tasks, leases, call>> /\ RowsMove /\ RowsRetire
        /\ tick'.pc = "loop"
        /\ tick'.expired = {[task |-> t, version |-> tasks[t].version,
                             lease |-> tasks[t].leaseId] : t \in ListExpiredClaims(clock)}
    BY <1>1, UnchangedRetires DEF TickList, IdleTick
  <2>2. /\ RowLeases' /\ (\A l \in Lease : LeaseTrue(l)')
        /\ \A c \in Caller : CallLease(c)'
    BY <2>1, LeasesKept
  <2>3. DrawnOnce'
    BY <2>1 DEF LeaseInv, DrawnOnce, Drawing
  <2>4. TickLease'
    BY <2>1 DEF TickLease, ListLease, Revoking
  <2> QED BY <2>2, <2>3, <2>4 DEF LeaseInv
<1>2. CASE PreemptGetLease
  <2>1. /\ UNCHANGED <<tasks, leases, call>> /\ Revoking /\ tick'.expired = tick.expired
        /\ Revoking' => tick'.lease = tick.lease
    BY <1>0, <1>2 DEF PreemptGetLease, TickState, Revoking
  <2> QED BY <2>1, UnchangedRetires, TickStep
<1>3. CASE ReassignWrite
  <2>1. /\ UNCHANGED <<leases, call>> /\ tick'.expired = tick.expired /\ ~Revoking'
    BY <1>0, <1>3 DEF ReassignWrite, TickState, Revoking
  <2>2. RowsMove /\ RowsRetire
    <3>1. /\ tick.task \in Task /\ tick.version \in Nat
          /\ Matches(tick.task, tick.version) => tasks[tick.task].status # "completed"
      BY <1>0, <1>3 DEF ReassignWrite, TypeInv, TickArguments, TickState, LockInv, TickKnows,
                        Matches
    <3> QED BY <1>3, <3>1, StatusWrite, StatusRetires DEF ReassignWrite, PilotTaskStatus
  <2> QED BY <2>1, <2>2, TickStep
<1>4. ASSUME UNCHANGED <<tasks, leases, call>>, tick'.expired \subseteq tick.expired, ~Revoking'
      PROVE  LeaseInv'
  BY <1>4, UnchangedRetires, TickStep
<1>5. CASE TickEnd
  BY <1>4, <1>5 DEF TickEnd, IdleTick, Revoking
<1>6. CASE RevokeFails
  BY <1>0, <1>4, <1>6 DEF RevokeFails, TickState, Revoking
<1>7. ASSUME NEW x \in tick.expired, PreemptFails(x) PROVE LeaseInv'
  BY <1>0, <1>4, <1>7 DEF PreemptFails, TickState, Revoking
<1>8. ASSUME NEW t \in tick.preempted, ReassignRead(t) \/ ReassignFails(t) PROVE LeaseInv'
  <2>1. CASE ReassignRead(t)
    BY <1>0, <1>4, <2>1 DEF ReassignRead, TickState, Revoking
  <2>2. CASE ReassignFails(t)
    BY <1>0, <1>4, <2>2 DEF ReassignFails, TickState, Revoking
  <2> QED BY <1>8, <2>1, <2>2
<1> QED BY <1>1, <1>2, <1>3, <1>5, <1>6, <1>7, <1>8

\* Creation, Assign, the cleanup of a claim, the clock and the crashes.
LEMMA OtherLease ==
  ASSUME TypeInv, TypeInv', LockInv, LeaseInv,
         \/ \E t \in Task : Create(t)
         \/ \E c \in Caller : \/ \E t \in Task : AssignRead(c, t)
                              \/ AssignWrite(c) \/ ClaimCleanup(c) \/ ExecutorCrash(c)
         \/ ClockTick
         \/ SchedulerCrash
  PROVE  LeaseInv'
<1>0. tasks \in [Task -> TaskRow] /\ call \in [Caller -> CallState]
  BY DEF TypeInv, TypeOK
<1>1. ASSUME NEW t \in Task, Create(t) PROVE LeaseInv'
  <2>1. /\ UNCHANGED <<leases, call, tick>>
        /\ tasks' = [tasks EXCEPT ![t] = Moved(tasks[t], "created")]
        /\ tasks[t].status = "none"
    BY <1>0, <1>1 DEF Create
  <2>2. /\ Moved(tasks[t], "created").status = "created"
        /\ Moved(tasks[t], "created").version = tasks[t].version + 1
        /\ Moved(tasks[t], "created").claimedBy = tasks[t].claimedBy
        /\ Moved(tasks[t], "created").leaseId = tasks[t].leaseId
    BY <1>0, MovedTask DEF PilotTaskStatus
  <2>3. RowsMove /\ RowsRetire
    BY <1>0, <2>1, <2>2 DEF RowsMove, RowsRetire
  <2> QED BY <2>1, <2>3, QuietStep
<1>2. ASSUME NEW c \in Caller, NEW t \in Task, AssignRead(c, t) PROVE LeaseInv'
  <2>1. /\ UNCHANGED <<tasks, leases, tick>> /\ RowsMove /\ RowsRetire
        /\ \A d \in Caller \ {c} : call'[d] = call[d]
        /\ call'[c].pc = "assign"
    BY <1>0, <1>2, UnchangedRetires DEF AssignRead, IdleCall
  <2>2. CallLease(c)' /\ ~Drawing(c)'
    BY <2>1 DEF CallLease, Drawing
  <2> QED BY <2>1, <2>2, CallMoves
<1>3. ASSUME NEW c \in Caller, AssignWrite(c) PROVE LeaseInv'
  <2>1. /\ UNCHANGED <<leases, tick>>
        /\ \A d \in Caller : call'[d] \in {call[d], IdleCall}
    BY <1>0, <1>3 DEF AssignWrite
  <2>2. RowsMove /\ RowsRetire
    BY <1>3, ReadArguments, StatusWrite, StatusRetires DEF AssignWrite, PilotTaskStatus
  <2> QED BY <2>1, <2>2, QuietStep
<1>4. ASSUME NEW c \in Caller, ClaimCleanup(c) PROVE LeaseInv'
  <2>1. /\ UNCHANGED <<leases, tick>>
        /\ \A d \in Caller : call'[d] \in {call[d], IdleCall}
    BY <1>0, <1>4 DEF ClaimCleanup
  <2>2. RowsMove /\ RowsRetire
    BY <1>4, ReadArguments, ClearWrite, ClearRetires DEF ClaimCleanup
  <2> QED BY <2>1, <2>2, QuietStep
<1>5. ASSUME \A c \in Caller : call'[c] \in {call[c], IdleCall},
             tick' \in {tick, IdleTick}, UNCHANGED <<tasks, leases>>
      PROVE  LeaseInv'
  BY <1>5, UnchangedRetires, QuietStep
<1>6. ASSUME NEW c \in Caller, ExecutorCrash(c) PROVE LeaseInv'
  BY <1>0, <1>5, <1>6 DEF ExecutorCrash
<1>7. CASE ClockTick
  BY <1>5, <1>7 DEF ClockTick
<1>8. CASE SchedulerCrash
  BY <1>0, <1>5, <1>8 DEF SchedulerCrash
<1> QED BY <1>1, <1>2, <1>3, <1>4, <1>6, <1>7, <1>8

LEMMA LeaseStep == TypeInv /\ LockInv /\ LeaseInv /\ [Next]_vars => LeaseInv'
<1> SUFFICES ASSUME TypeInv, LockInv, LeaseInv, [Next]_vars PROVE LeaseInv'
  OBVIOUS
<1>0. TypeInv'
  BY TypeStep
<1>1. CASE (\E t \in Task : Create(t)) \/ ClockTick
  BY <1>0, <1>1, OtherLease
<1>2. ASSUME NEW c \in Caller, AssignCall(c) PROVE LeaseInv'
  BY <1>0, <1>2, OtherLease DEF AssignCall
<1>3. ASSUME NEW c \in Caller, ClaimCall(c) PROVE LeaseInv'
  <2>1. CASE ClaimCleanup(c)
    BY <1>0, <2>1, OtherLease
  <2> QED BY <1>0, <1>3, <2>1, ClaimReadLease, ClaimWriteLease, CreateLeaseLease DEF ClaimCall
<1>4. ASSUME NEW c \in Caller, ReportCall(c) PROVE LeaseInv'
  BY <1>0, <1>4, ReportLease, ReleaseLeaseLease DEF ReportCall
<1>5. CASE EngineTick
  BY <1>0, <1>5, PreemptLease, RevokeLeaseLease, TickOtherLease DEF EngineTick
<1>6. CASE Failure
  <2>1. ASSUME NEW c \in Caller, CallStatementFails(c) \/ ExecutorCrash(c) PROVE LeaseInv'
    BY <1>0, <2>1, FailureLease, OtherLease
  <2>2. CASE SchedulerCrash
    BY <1>0, <2>2, OtherLease
  <2> QED BY <1>0, <1>6, <2>1, <2>2, TickOtherLease DEF Failure
<1>7. CASE UNCHANGED vars
  BY <1>7 DEF vars, LeaseInv, RowLeases, LeaseTrue, CallLease, DrawnOnce, TickLease,
              ListLease, Drawing, Revoking
<1> QED BY <1>1, <1>2, <1>3, <1>4, <1>5, <1>6, <1>7 DEF Next

\* A lease id stays with the claim it was drawn for, in both tables, and in
\* whatever calls and ticks remember of it.
THEOREM LeaseInvariant == Spec => [](TypeInv /\ LockInv /\ LeaseInv)
BY InitType, InitLock, InitLease, TypeStep, LockStep, LeaseStep, PTL DEF Spec

\* The lease table never contradicts a claim that stands: the lease of a
\* claimed task is not ended, a released lease is that of the executor whose
\* report completed its task, and a revoked lease is on no task.
THEOREM LeasesFollowTasks == Spec => []LeaseFollowsTask
<1>1. TypeInv /\ LeaseInv => LeaseFollowsTask
  <2> SUFFICES ASSUME TypeInv, LeaseInv PROVE LeaseFollowsTask
    OBVIOUS
  <2>1. ASSUME NEW t \in Task, tasks[t].status = "claimed"
        PROVE  leases[tasks[t].leaseId].status \in {"none", "active"}
    <3> DEFINE l == tasks[t].leaseId
    <3>1. l \in Lease /\ leases[l] \in LeaseRow /\ LeaseTrue(l)
      BY <2>1 DEF TypeInv, TypeOK, TaskRow, LeaseInv, RowLeases
    <3>2. leases[l].status # "revoked"
      BY <3>1 DEF LeaseTrue
    <3>3. leases[l].status # "released"
      BY <2>1, <3>1 DEF LeaseTrue, LeaseInv, RowLeases
    <3> QED BY <3>1, <3>2, <3>3 DEF LeaseRow
  <2> QED BY <2>1 DEF LeaseFollowsTask, LeaseInv, LeaseTrue
<1> QED BY <1>1, LeaseInvariant, PTL
=============================================================================
