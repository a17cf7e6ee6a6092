--------------------------- MODULE PilotTask_proofs ---------------------------
(***************************************************************************)
(* Proofs about PilotTask for every set of tasks, executors, leases and    *)
(* callers, every lease timeout, and every bound on the clock and on the   *)
(* number of failures.                                                     *)
(***************************************************************************)
EXTENDS PilotTask, TLAPS

-----------------------------------------------------------------------------
(* What the store's statements write. *)

\* The row an UPDATE of the status leaves.
LEMMA MovedTask ==
  ASSUME NEW r \in TaskRow, NEW s \in PilotTaskStatus
  PROVE  /\ Moved(r, s) \in TaskRow
         /\ Moved(r, s).status = s
         /\ Moved(r, s).version = r.version + 1
         /\ Moved(r, s).claimedBy = r.claimedBy
         /\ Moved(r, s).leaseId = r.leaseId
         /\ Moved(r, s).expiresAt = r.expiresAt
<1>1. \A q \in TaskRow : LET n == [q EXCEPT !.status = s] IN
        /\ n \in TaskRow
        /\ n.status = s /\ n.version = q.version
        /\ n.claimedBy = q.claimedBy /\ n.leaseId = q.leaseId /\ n.expiresAt = q.expiresAt
  BY DEF TaskRow
<1>2. \A q \in TaskRow, v \in Nat : LET n == [q EXCEPT !.version = v] IN
        /\ n \in TaskRow
        /\ n.status = q.status /\ n.version = v
        /\ n.claimedBy = q.claimedBy /\ n.leaseId = q.leaseId /\ n.expiresAt = q.expiresAt
  BY DEF TaskRow
<1>3. r.version + 1 \in Nat
  BY DEF TaskRow
<1> DEFINE m == [r EXCEPT !.status = s]
<1>4. Moved(r, s) = [m EXCEPT !.version = r.version + 1]
  BY DEF Moved
<1>5. /\ m \in TaskRow
      /\ m.status = s /\ m.version = r.version
      /\ m.claimedBy = r.claimedBy /\ m.leaseId = r.leaseId /\ m.expiresAt = r.expiresAt
  BY <1>1
<1> HIDE DEF m
<1> QED BY <1>2, <1>3, <1>4, <1>5

\* The row RevokeLease or ReleaseLease leaves.
LEMMA MovedLease ==
  ASSUME NEW r \in LeaseRow, NEW s \in {"released", "revoked"}
  PROVE  /\ Moved(r, s) \in LeaseRow
         /\ Moved(r, s).status = s
         /\ Moved(r, s).task = r.task
         /\ Moved(r, s).executor = r.executor
<1>1. \A q \in LeaseRow : LET n == [q EXCEPT !.status = s] IN
        /\ n \in LeaseRow
        /\ n.status = s /\ n.version = q.version /\ n.task = q.task /\ n.executor = q.executor
  BY DEF LeaseRow
<1>2. \A q \in LeaseRow, v \in Nat : LET n == [q EXCEPT !.version = v] IN
        /\ n \in LeaseRow
        /\ n.status = q.status /\ n.task = q.task /\ n.executor = q.executor
  BY DEF LeaseRow
<1>3. r.version + 1 \in Nat
  BY DEF LeaseRow
<1> DEFINE m == [r EXCEPT !.status = s]
<1>4. Moved(r, s) = [m EXCEPT !.version = r.version + 1]
  BY DEF Moved
<1>5. /\ m \in LeaseRow
      /\ m.status = s /\ m.version = r.version /\ m.task = r.task /\ m.executor = r.executor
  BY <1>1
<1> HIDE DEF m
<1> QED BY <1>2, <1>3, <1>4, <1>5

\* The row UpdatePilotTaskClaim leaves.
LEMMA ClaimedRow ==
  ASSUME NEW e \in Executor, NEW l \in Lease, NEW x \in Nat \cup {NullTime}, NEW v \in Nat
  PROVE  [status |-> "claimed", claimedBy |-> e, leaseId |-> l, expiresAt |-> x,
          version |-> v + 1] \in TaskRow
BY DEF TaskRow, PilotTaskStatus

\* The row ClearPilotTaskClaim leaves.
LEMMA ClearedRow ==
  ASSUME NEW v \in Nat
  PROVE  [status |-> "preempted", claimedBy |-> None, leaseId |-> None,
          expiresAt |-> NullTime, version |-> v + 1] \in TaskRow
BY DEF TaskRow, PilotTaskStatus

-----------------------------------------------------------------------------
(* Type correctness.  Beside the types, a call or a tick that is about to  *)
(* run a statement knows the statement's arguments.                        *)

CallArguments ==
  \A c \in Caller :
    /\ call[c].pc # "idle" => call[c].task \in Task
    /\ call[c].pc \notin {"idle", "assign"} => call[c].executor \in Executor
    /\ call[c].pc \in {"claim", "createLease", "cleanup", "getLease", "releaseLease"} =>
         call[c].lease \in Lease

TickArguments ==
  /\ tick.pc \in {"getLease", "revokeLease"} => tick.lease \in Lease
  /\ tick.pc = "reassign" => tick.task \in Task

TypeInv == TypeOK /\ CallArguments /\ TickArguments

LEMMA InitType == Init => TypeInv
BY DEF Init, TypeInv, TypeOK, CallArguments, TickArguments, NoTask, NoLease, IdleCall,
       IdleTick, TaskRow, LeaseRow, CallState, TickState, NullTime

\* Assign, Claim and Report keep the types.
LEMMA CallType ==
  ASSUME TypeInv, NEW c \in Caller, AssignCall(c) \/ ClaimCall(c) \/ ReportCall(c)
  PROVE  TypeInv'
<1> USE DEF TypeInv
<1>0. /\ tasks \in [Task -> TaskRow] /\ leases \in [Lease -> LeaseRow]
      /\ call \in [Caller -> CallState] /\ call[c] \in CallState
      /\ IdleCall \in CallState
  BY DEF TypeOK, CallState, IdleCall, NullTime
<1>1. ASSUME NEW t \in Task, AssignRead(c, t) PROVE TypeInv'
  <2>1. call' \in [Caller -> CallState] /\ CallArguments'
    BY <1>0, <1>1 DEF AssignRead, TaskRow, CallState, IdleCall, NullTime, CallArguments
  <2> QED BY <1>1, <2>1 DEF AssignRead, TypeOK, TickArguments
<1>2. CASE AssignWrite(c)
  <2>1. tasks' \in [Task -> TaskRow]
    BY <1>0, <1>2, MovedTask DEF AssignWrite, UpdatePilotTaskStatus, PilotTaskStatus
  <2>2. call' \in [Caller -> CallState] /\ CallArguments'
    BY <1>0, <1>2 DEF AssignWrite, CallArguments, IdleCall
  <2> QED BY <1>2, <2>1, <2>2 DEF AssignWrite, TypeOK, TickArguments
<1>3. ASSUME NEW t \in Task, NEW e \in Executor, ClaimRead(c, t, e) PROVE TypeInv'
  <2>1. call' \in [Caller -> CallState] /\ CallArguments'
    <3>1. PICK l \in Lease : call' = [call EXCEPT ![c] = [IdleCall EXCEPT
                     !.pc = "claim", !.task = t, !.executor = e, !.lease = l,
                     !.version = tasks[t].version, !.expiresAt = ExpiresAt(clock)]]
      BY <1>3 DEF ClaimRead
    <3>2. ExpiresAt(clock) \in Nat /\ tasks[t].version \in Nat
      BY <1>0, ConstantsAssumption DEF ExpiresAt, TypeOK, TaskRow
    <3> QED BY <1>0, <3>1, <3>2 DEF CallState, IdleCall, CallArguments
  <2> QED BY <1>3, <2>1 DEF ClaimRead, TypeOK, TickArguments
<1>4. CASE ClaimWrite(c)
  <2>1. tasks' \in [Task -> TaskRow]
    <3>1. /\ call[c].executor \in Executor /\ call[c].lease \in Lease
          /\ call[c].expiresAt \in Nat \cup {NullTime} /\ call[c].version \in Nat
      BY <1>0, <1>4 DEF ClaimWrite, CallArguments, CallState
    <3> QED BY <1>0, <1>4, <3>1, ClaimedRow DEF ClaimWrite, UpdatePilotTaskClaim
  <2>2. call' \in [Caller -> CallState] /\ CallArguments'
    BY <1>0, <1>4 DEF ClaimWrite, CallArguments, IdleCall, CallState
  <2> QED BY <1>4, <2>1, <2>2 DEF ClaimWrite, TypeOK, TickArguments
<1>5. CASE ClaimCreateLease(c)
  <2>1. leases' \in [Lease -> LeaseRow]
    BY <1>0, <1>5 DEF ClaimCreateLease, CreateLease, LeaseRow, CallState, CallArguments
  <2>2. call' \in [Caller -> CallState] /\ CallArguments'
    BY <1>0, <1>5 DEF ClaimCreateLease, CallArguments, IdleCall
  <2> QED BY <1>5, <2>1, <2>2 DEF ClaimCreateLease, TypeOK, TickArguments
<1>6. CASE ClaimCleanup(c)
  <2>1. tasks' \in [Task -> TaskRow]
    <3>1. CleanupVersion(c) \in Nat
      BY <1>0 DEF CleanupVersion, CallState
    <3> QED BY <1>0, <1>6, <3>1, ClearedRow DEF ClaimCleanup, ClearPilotTaskClaim
  <2>2. call' \in [Caller -> CallState] /\ CallArguments'
    BY <1>0, <1>6 DEF ClaimCleanup, CallArguments, IdleCall
  <2> QED BY <1>6, <2>1, <2>2 DEF ClaimCleanup, TypeOK, TickArguments
<1>7. ASSUME NEW t \in Task, NEW e \in Executor, ReportRead(c, t, e) PROVE TypeInv'
  <2>1. call' \in [Caller -> CallState] /\ CallArguments'
    BY <1>0, <1>7 DEF ReportRead, TaskRow, CallState, IdleCall, NullTime, CallArguments
  <2> QED BY <1>7, <2>1 DEF ReportRead, TypeOK, TickArguments
<1>8. CASE ReportWrite(c)
  <2>1. tasks' \in [Task -> TaskRow]
    BY <1>0, <1>8, MovedTask DEF ReportWrite, UpdatePilotTaskStatus, PilotTaskStatus
  <2>2. call' \in [Caller -> CallState] /\ CallArguments'
    BY <1>0, <1>8 DEF ReportWrite, CallArguments, IdleCall, CallState
  <2> QED BY <1>8, <2>1, <2>2 DEF ReportWrite, TypeOK, TickArguments
<1>9. CASE ReportGetLease(c)
  <2>1. call' \in [Caller -> CallState] /\ CallArguments'
    BY <1>0, <1>9 DEF ReportGetLease, CallArguments, CallState, LeaseRow
  <2> QED BY <1>9, <2>1 DEF ReportGetLease, TypeOK, TickArguments
<1>10. CASE ReportReleaseLease(c)
  <2>1. leases' \in [Lease -> LeaseRow]
    BY <1>0, <1>10, MovedLease DEF ReportReleaseLease, EndLease
  <2>2. call' \in [Caller -> CallState] /\ CallArguments'
    BY <1>0, <1>10 DEF ReportReleaseLease, CallArguments, CallState
  <2> QED BY <1>10, <2>1, <2>2 DEF ReportReleaseLease, TypeOK, TickArguments
<1>11. CASE ReportRecord(c)
  <2>1. executions' \in [Task -> Seq(Executor)]
    BY <1>11 DEF ReportRecord, TypeOK, CallArguments
  <2>2. call' \in [Caller -> CallState] /\ CallArguments'
    BY <1>0, <1>11 DEF ReportRecord, CallArguments, IdleCall
  <2> QED BY <1>11, <2>1, <2>2 DEF ReportRecord, TypeOK, TickArguments
<1> QED
  BY <1>1, <1>2, <1>3, <1>4, <1>5, <1>6, <1>7, <1>8, <1>9, <1>10, <1>11
     DEF AssignCall, ClaimCall, ReportCall

\* The engine's tick keeps the types.
LEMMA TickType == TypeInv /\ EngineTick => TypeInv'
<1> SUFFICES ASSUME TypeInv, EngineTick PROVE TypeInv'
  OBVIOUS
<1> USE DEF TypeInv
<1>0. /\ tasks \in [Task -> TaskRow] /\ leases \in [Lease -> LeaseRow]
      /\ tick \in TickState /\ IdleTick \in TickState
  BY DEF TypeOK, TickState, IdleTick
<1>1. CASE TickList
  <2>1. {[task |-> t, version |-> tasks[t].version, lease |-> tasks[t].leaseId] :
           t \in ListExpiredClaims(clock)} \subseteq ExpiredClaim
    BY <1>0 DEF ListExpiredClaims, ExpiredClaim, TaskRow
  <2>2. tick' \in TickState /\ TickArguments'
    BY <1>0, <1>1, <2>1 DEF TickList, TickState, IdleTick, TickArguments
  <2> QED BY <1>1, <2>2 DEF TickList, TypeOK, CallArguments
<1>2. ASSUME NEW x \in tick.expired, PreemptOne(x) PROVE TypeInv'
  <2>0. x \in ExpiredClaim
    BY <1>0 DEF TickState
  <2>1. tasks' \in [Task -> TaskRow]
    BY <1>0, <1>2, <2>0, ClearedRow DEF PreemptOne, ClearPilotTaskClaim, ExpiredClaim
  <2>2. tick' \in TickState /\ TickArguments'
    BY <1>0, <1>2, <2>0 DEF PreemptOne, TickState, ExpiredClaim, TickArguments
  <2> QED BY <1>2, <2>1, <2>2 DEF PreemptOne, TypeOK, CallArguments
<1>3. CASE PreemptGetLease
  <2>1. tick' \in TickState /\ TickArguments'
    BY <1>0, <1>3 DEF PreemptGetLease, TickState, TickArguments, LeaseRow
  <2> QED BY <1>3, <2>1 DEF PreemptGetLease, TypeOK, CallArguments
<1>4. CASE PreemptRevokeLease
  <2>1. leases' \in [Lease -> LeaseRow]
    BY <1>0, <1>4, MovedLease DEF PreemptRevokeLease, EndLease
  <2>2. tick' \in TickState /\ TickArguments'
    BY <1>0, <1>4 DEF PreemptRevokeLease, TickState, TickArguments
  <2> QED BY <1>4, <2>1, <2>2 DEF PreemptRevokeLease, TypeOK, CallArguments
<1>5. ASSUME NEW t \in tick.preempted, ReassignRead(t) PROVE TypeInv'
  <2>1. tick' \in TickState /\ TickArguments'
    BY <1>0, <1>5 DEF ReassignRead, TickState, TickArguments, TaskRow
  <2> QED BY <1>5, <2>1 DEF ReassignRead, TypeOK, CallArguments
<1>6. CASE ReassignWrite
  <2>1. tasks' \in [Task -> TaskRow]
    BY <1>0, <1>6, MovedTask DEF ReassignWrite, UpdatePilotTaskStatus, PilotTaskStatus
  <2>2. tick' \in TickState /\ TickArguments'
    BY <1>0, <1>6 DEF ReassignWrite, TickState, TickArguments
  <2> QED BY <1>6, <2>1, <2>2 DEF ReassignWrite, TypeOK, CallArguments
<1>7. CASE TickEnd
  BY <1>0, <1>7 DEF TickEnd, IdleTick, TypeOK, CallArguments, TickArguments
<1> QED BY <1>1, <1>2, <1>3, <1>4, <1>5, <1>6, <1>7 DEF EngineTick

\* Create, the clock and every failure keep the types.
LEMMA OtherType ==
  TypeInv /\ ((\E t \in Task : Create(t)) \/ ClockTick \/ Failure) => TypeInv'
<1> SUFFICES ASSUME TypeInv, (\E t \in Task : Create(t)) \/ ClockTick \/ Failure
             PROVE  TypeInv'
  OBVIOUS
<1> USE DEF TypeInv
<1>0. /\ tasks \in [Task -> TaskRow] /\ call \in [Caller -> CallState]
      /\ tick \in TickState /\ IdleTick \in TickState /\ IdleCall \in CallState
  BY DEF TypeOK, TickState, IdleTick, CallState, IdleCall, NullTime
<1>1. Fault => faults' \in Nat
  BY DEF Fault, TypeOK
<1>2. ASSUME NEW t \in Task, Create(t) PROVE TypeInv'
  <2>1. tasks' \in [Task -> TaskRow]
    BY <1>0, <1>2, MovedTask DEF Create, PilotTaskStatus
  <2> QED BY <1>2, <2>1 DEF Create, TypeOK, CallArguments, TickArguments
<1>3. CASE ClockTick
  BY <1>3 DEF ClockTick, TypeOK, CallArguments, TickArguments
<1>4. ASSUME NEW c \in Caller, CallStatementFails(c) PROVE TypeInv'
  <2>1. call' \in [Caller -> CallState] /\ CallArguments'
    BY <1>0, <1>4 DEF CallStatementFails, AfterError, CallState, CallArguments, IdleCall
  <2> QED BY <1>1, <1>4, <2>1 DEF CallStatementFails, TypeOK, TickArguments
<1>5. ASSUME NEW c \in Caller, ExecutorCrash(c) PROVE TypeInv'
  <2>1. call' \in [Caller -> CallState] /\ CallArguments'
    BY <1>0, <1>5 DEF ExecutorCrash, CallArguments, IdleCall
  <2> QED BY <1>1, <1>5, <2>1 DEF ExecutorCrash, TypeOK, TickArguments
<1>6. ASSUME NEW x \in tick.expired, PreemptFails(x) PROVE TypeInv'
  <2>1. tick' \in TickState /\ TickArguments'
    BY <1>0, <1>6 DEF PreemptFails, TickState, TickArguments
  <2> QED BY <1>1, <1>6, <2>1 DEF PreemptFails, TypeOK, CallArguments
<1>7. CASE RevokeFails
  <2>1. tick' \in TickState /\ TickArguments'
    BY <1>0, <1>7 DEF RevokeFails, TickState, TickArguments
  <2> QED BY <1>1, <1>7, <2>1 DEF RevokeFails, TypeOK, CallArguments
<1>8. ASSUME NEW t \in tick.preempted, ReassignFails(t) PROVE TypeInv'
  <2>1. tick' \in TickState /\ TickArguments'
    BY <1>0, <1>8 DEF ReassignFails, TickState, TickArguments
  <2> QED BY <1>1, <1>8, <2>1 DEF ReassignFails, TypeOK, CallArguments
<1>9. CASE SchedulerCrash
  <2>1. call' \in [Caller -> CallState] /\ CallArguments'
    BY <1>0, <1>9 DEF SchedulerCrash, CallArguments, IdleCall
  <2>2. tick' \in TickState /\ TickArguments'
    BY <1>0, <1>9 DEF SchedulerCrash, TickArguments, IdleTick
  <2> QED BY <1>1, <1>9, <2>1, <2>2 DEF SchedulerCrash, TypeOK
<1> QED
  BY <1>2, <1>3, <1>4, <1>5, <1>6, <1>7, <1>8, <1>9 DEF Failure

LEMMA TypeStep == TypeInv /\ [Next]_vars => TypeInv'
<1> SUFFICES ASSUME TypeInv, [Next]_vars PROVE TypeInv'
  OBVIOUS
<1>1. CASE Next
  BY <1>1, CallType, TickType, OtherType DEF Next
<1>2. CASE UNCHANGED vars
  BY <1>2 DEF vars, TypeInv, TypeOK, CallArguments, TickArguments
<1> QED BY <1>1, <1>2

LEMMA TypeInvariant == Spec => []TypeInv
BY InitType, TypeStep, PTL DEF Spec

\* Every row, every remembered argument and every list stays of its type,
\* whatever overtakes whatever: in particular no statement ever writes a claim
\* without an executor or a lease id.
THEOREM TypeCorrect == Spec => []TypeOK
<1>1. TypeInv => TypeOK
  BY DEF TypeInv
<1> QED BY <1>1, TypeInvariant, PTL

-----------------------------------------------------------------------------
(* What optimistic locking keeps true.  A call that has read a row knows   *)
(* something about it, and still knows it when it writes if the version    *)
(* has not moved.                                                          *)

\* Of call[c] between its SELECT and its UPDATE (of Claim, also between the
\* UPDATE and the INSERT of the lease).
CallKnows(c) ==
  LET row == tasks[call[c].task]
      v == call[c].version
  IN
  /\ call[c].pc = "assign" =>
       v <= row.version /\ (v = row.version => row.status \in {"created", "preempted"})
  /\ call[c].pc = "claim" =>
       v <= row.version /\ (v = row.version => row.status = "assigned")
  /\ call[c].pc \in {"createLease", "cleanup"} =>
       /\ v + 1 <= row.version
       /\ v + 1 = row.version => row.status = "claimed" /\ row.leaseId = call[c].lease
  /\ call[c].pc = "report" =>
       /\ v <= row.version
       /\ v = row.version => row.status = "claimed" /\ row.claimedBy = call[c].executor

\* Of a claim on the tick's list, and of the row Reassign has read.
ListKnows(x) ==
  /\ x.version <= tasks[x.task].version
  /\ x.version = tasks[x.task].version =>
       tasks[x.task].status = "claimed" /\ tasks[x.task].expiresAt < clock

TickKnows ==
  /\ \A x \in tick.expired : ListKnows(x)
  /\ tick.pc = "reassign" =>
       /\ tick.version <= tasks[tick.task].version
       /\ tick.version = tasks[tick.task].version =>
            tasks[tick.task].status \in {"created", "preempted"}

\* A call whose report has been accepted and not been recorded yet.
Accepted(c) == call[c].pc \in {"getLease", "releaseLease", "record"}

\* The report of such a call is the task's only one.
OneReport ==
  /\ \A c \in Caller : Accepted(c) =>
       /\ tasks[call[c].task].status = "completed"
       /\ tasks[call[c].task].claimedBy = call[c].executor
       /\ executions[call[c].task] = <<>>
  /\ \A c, d \in Caller : Accepted(c) /\ Accepted(d) /\ call[c].task = call[d].task => c = d

LockInv ==
  /\ \A t \in Task : tasks[t].status # "in_progress"   \* no code writes it
  /\ \A c \in Caller : CallKnows(c)
  /\ TickKnows
  /\ OneReport
  /\ ExecutionCredited

LEMMA InitLock == Init => LockInv
BY DEF Init, LockInv, CallKnows, TickKnows, OneReport, Accepted, ExecutionCredited,
       NoTask, IdleCall, IdleTick

\* How far a row may move in one step: a completed task not at all, any other
\* by one version.
RowsMove ==
  \A t \in Task :
    \/ tasks'[t] = tasks[t]
    \/ tasks[t].status # "completed" /\ tasks'[t].version = tasks[t].version + 1

\* Whatever a step does to rows in this way, those it does not concern keep
\* what they knew.
LEMMA KnowledgeKept ==
  ASSUME TypeInv, TypeInv', LockInv, RowsMove, clock <= clock'
  PROVE  /\ \A c \in Caller : call'[c] \in {call[c], IdleCall} => CallKnows(c)'
         /\ \A x \in tick.expired : ListKnows(x)'
         /\ tick' \in {tick, IdleTick} => TickKnows'
<1>0. /\ tasks \in [Task -> TaskRow] /\ tasks' \in [Task -> TaskRow]
      /\ call \in [Caller -> CallState]
      /\ tick \in TickState /\ clock \in Nat /\ clock' \in Nat
  BY DEF TypeInv, TypeOK
<1>1. ASSUME NEW c \in Caller, call'[c] \in {call[c], IdleCall} PROVE CallKnows(c)'
  <2>1. CASE call'[c] = IdleCall
    BY <2>1 DEF CallKnows, IdleCall
  <2>2. CASE call'[c] = call[c] /\ call[c].pc # "idle"
    <3>1. call[c].task \in Task /\ call[c].version \in Nat /\ CallKnows(c)
      BY <1>0, <2>2 DEF TypeInv, CallArguments, CallState, LockInv
    <3>2. tasks[call[c].task].version \in Nat
      BY <1>0, <3>1 DEF TaskRow
    <3>3. CASE tasks'[call[c].task] = tasks[call[c].task]
      BY <2>2, <3>1, <3>3 DEF CallKnows
    <3>4. CASE tasks'[call[c].task].version = tasks[call[c].task].version + 1
      BY <2>2, <3>1, <3>2, <3>4 DEF CallKnows
    <3> QED BY <3>1, <3>3, <3>4 DEF RowsMove
  <2> QED BY <1>1, <2>1, <2>2 DEF CallKnows
<1>2. ASSUME NEW x \in tick.expired PROVE ListKnows(x)'
  <2>1. x.task \in Task /\ x.version \in Nat /\ ListKnows(x)
    BY <1>0, <1>2 DEF TickState, ExpiredClaim, LockInv, TickKnows
  <2>2. tasks[x.task].version \in Nat /\ tasks[x.task].expiresAt \in Int
    BY <1>0, <2>1 DEF TaskRow, NullTime
  <2> QED BY <1>0, <2>1, <2>2 DEF RowsMove, ListKnows
<1>3. ASSUME tick' \in {tick, IdleTick} PROVE TickKnows'
  <2>1. CASE tick' = IdleTick
    BY <2>1 DEF TickKnows, IdleTick
  <2>2. CASE tick' = tick
    <3>1. \A x \in tick'.expired : ListKnows(x)'
      BY <1>2, <2>2
    <3>2. CASE tick.pc = "reassign"
      <4>1. tick.task \in Task /\ tick.version \in Nat
        BY <1>0, <3>2 DEF TypeInv, TickArguments, TickState
      <4>2. tasks[tick.task].version \in Nat
        BY <1>0, <4>1 DEF TaskRow
      <4> QED BY <2>2, <3>1, <3>2, <4>1, <4>2 DEF RowsMove, LockInv, TickKnows
    <3> QED BY <2>2, <3>1, <3>2 DEF TickKnows
  <2> QED BY <1>3, <2>1, <2>2
<1> QED BY <1>1, <1>2, <1>3

\* A step that records nothing and accepts no report leaves the accepted ones
\* as they are.
LEMMA ReportsKept ==
  ASSUME TypeInv, LockInv, RowsMove, executions' = executions
  PROVE  /\ ExecutionCredited'
         /\ (\A c \in Caller : Accepted(c)' =>
               Accepted(c) /\ call'[c].task = call[c].task
                           /\ call'[c].executor = call[c].executor)
              => OneReport'
<1>1. ExecutionCredited'
  BY DEF LockInv, ExecutionCredited, RowsMove
<1>2. ASSUME \A c \in Caller : Accepted(c)' =>
               Accepted(c) /\ call'[c].task = call[c].task
                           /\ call'[c].executor = call[c].executor
      PROVE  OneReport'
  <2>1. \A c \in Caller : Accepted(c) => call[c].task \in Task
    BY DEF Accepted, TypeInv, CallArguments
  <2> QED BY <1>2, <2>1 DEF LockInv, OneReport, RowsMove
<1> QED BY <1>1, <1>2

\* The optimistic writes, when a match means the task is not completed.
LEMMA StatusWrite ==
  ASSUME TypeInv, NEW t \in Task, NEW s \in PilotTaskStatus, NEW v \in Nat,
         UpdatePilotTaskStatus(t, s, v),
         Matches(t, v) => tasks[t].status # "completed"
  PROVE  /\ RowsMove
         /\ \A u \in Task : tasks'[u].status # tasks[u].status => u = t /\ Matches(t, v)
         /\ \A u \in Task : /\ tasks'[u].claimedBy = tasks[u].claimedBy
                            /\ tasks'[u].leaseId = tasks[u].leaseId
         /\ Matches(t, v) => tasks'[t].status = s
         /\ ~Matches(t, v) => tasks' = tasks
<1>1. tasks \in [Task -> TaskRow] /\ tasks[t] \in TaskRow
  BY DEF TypeInv, TypeOK
<1>2. /\ Moved(tasks[t], s).status = s
      /\ Moved(tasks[t], s).version = tasks[t].version + 1
      /\ Moved(tasks[t], s).claimedBy = tasks[t].claimedBy
      /\ Moved(tasks[t], s).leaseId = tasks[t].leaseId
  BY <1>1, MovedTask
<1> QED BY <1>1, <1>2 DEF UpdatePilotTaskStatus, RowsMove

LEMMA ClearWrite ==
  ASSUME TypeInv, NEW t \in Task, NEW v \in Nat, ClearPilotTaskClaim(t, v),
         Matches(t, v) => tasks[t].status = "claimed"
  PROVE  /\ RowsMove
         /\ \A u \in Task : u # t => tasks'[u] = tasks[u]
         /\ Matches(t, v) => /\ tasks'[t].status = "preempted"
                             /\ tasks'[t].claimedBy = None
                             /\ tasks'[t].version = v + 1
         /\ ~Matches(t, v) => tasks' = tasks
BY DEF TypeInv, TypeOK, ClearPilotTaskClaim, Matches, RowsMove

LEMMA ClaimedWrite ==
  ASSUME TypeInv, NEW t \in Task, NEW e \in Executor, NEW l \in Lease,
         NEW x \in Nat \cup {NullTime}, NEW v \in Nat, UpdatePilotTaskClaim(t, e, l, x, v),
         Matches(t, v) => tasks[t].status = "assigned"
  PROVE  /\ RowsMove
         /\ \A u \in Task : u # t => tasks'[u] = tasks[u]
         /\ Matches(t, v) => /\ tasks'[t].status = "claimed"
                             /\ tasks'[t].claimedBy = e
                             /\ tasks'[t].leaseId = l
                             /\ tasks'[t].version = v + 1
         /\ ~Matches(t, v) => tasks' = tasks
BY DEF TypeInv, TypeOK, UpdatePilotTaskClaim, Matches, RowsMove

-----------------------------------------------------------------------------
(* LockInv is inductive. *)

\* What the calls of Assign and Claim know before their writes.
LEMMA ReadArguments ==
  ASSUME TypeInv, LockInv, NEW c \in Caller
  PROVE  /\ call[c].pc = "assign" =>
              /\ call[c].task \in Task /\ call[c].version \in Nat
              /\ Matches(call[c].task, call[c].version) =>
                   tasks[call[c].task].status \in {"created", "preempted"}
         /\ call[c].pc = "claim" =>
              /\ call[c].task \in Task /\ call[c].version \in Nat
              /\ call[c].executor \in Executor /\ call[c].lease \in Lease
              /\ call[c].expiresAt \in Nat \cup {NullTime}
              /\ Matches(call[c].task, call[c].version) =>
                   tasks[call[c].task].status = "assigned"
         /\ call[c].pc = "cleanup" =>
              /\ call[c].task \in Task /\ CleanupVersion(c) \in Nat
              /\ Matches(call[c].task, CleanupVersion(c)) =>
                   /\ tasks[call[c].task].status = "claimed"
                   /\ tasks[call[c].task].leaseId = call[c].lease
         /\ call[c].pc = "report" =>
              /\ call[c].task \in Task /\ call[c].version \in Nat
              /\ call[c].executor \in Executor
              /\ Matches(call[c].task, call[c].version) =>
                   /\ tasks[call[c].task].status = "claimed"
                   /\ tasks[call[c].task].claimedBy = call[c].executor
<1>1. call[c] \in CallState /\ CallKnows(c) /\ CallArguments
  BY DEF TypeInv, TypeOK, LockInv
<1>2. /\ call[c].version \in Nat
      /\ call[c].expiresAt \in Nat \cup {NullTime}
      /\ call[c].pc # "idle" => call[c].task \in Task
      /\ call[c].pc \notin {"idle", "assign"} => call[c].executor \in Executor
      /\ call[c].pc = "claim" => call[c].lease \in Lease
  BY <1>1 DEF CallState, CallArguments
<1> QED BY <1>1, <1>2 DEF CallKnows, Matches, CleanupVersion

\* A call that reads a row knows what it saw, and no row has moved.
LEMMA ReadLock ==
  ASSUME TypeInv, TypeInv', LockInv, NEW c \in Caller, NEW t \in Task, NEW e,
         AssignRead(c, t) \/ ClaimRead(c, t, e) \/ ReportRead(c, t, e)
  PROVE  LockInv'
<1>0. tasks \in [Task -> TaskRow] /\ call \in [Caller -> CallState] /\ clock \in Nat
  BY DEF TypeInv, TypeOK
<1>1. UNCHANGED <<tasks, executions, clock, tick>> /\ RowsMove /\ clock <= clock'
  <2>1. UNCHANGED <<tasks, executions, clock, tick>>
    BY DEF AssignRead, ClaimRead, ReportRead
  <2> QED BY <1>0, <2>1 DEF RowsMove
<1>2. \A d \in Caller \ {c} : call'[d] = call[d]
  <2>1. CASE AssignRead(c, t)
    BY <1>0, <2>1 DEF AssignRead
  <2>2. CASE ClaimRead(c, t, e)
    BY <1>0, <2>2 DEF ClaimRead
  <2>3. CASE ReportRead(c, t, e)
    BY <1>0, <2>3 DEF ReportRead
  <2> QED BY <2>1, <2>2, <2>3
<1>3. /\ call'[c].task = t /\ call'[c].version = tasks[t].version
      /\ \/ /\ call'[c].pc = "assign" /\ tasks[t].status \in {"created", "preempted"}
         \/ /\ call'[c].pc = "claim" /\ tasks[t].status = "assigned"
         \/ /\ call'[c].pc = "report" /\ call'[c].executor = e
            /\ tasks[t].status = "claimed" /\ tasks[t].claimedBy = e
  <2>1. CASE AssignRead(c, t)
    <3>1. tasks[t].status \in {"created", "preempted"}
      BY <2>1 DEF AssignRead, CanTransition, PilotTaskStateMachine, AllowMany
    <3> QED BY <1>0, <2>1, <3>1 DEF AssignRead, IdleCall
  <2>2. CASE ClaimRead(c, t, e)
    BY <1>0, <2>2 DEF ClaimRead, IdleCall
  <2>3. CASE ReportRead(c, t, e)
    <3>1. tasks[t].status = "claimed"
      BY <2>3 DEF ReportRead, CanTransition, PilotTaskStateMachine, AllowMany, LockInv
    <3> QED BY <1>0, <2>3, <3>1 DEF ReportRead, IdleCall
  <2> QED BY <2>1, <2>2, <2>3
<1>4. CallKnows(c)'
  <2>1. tasks[t].version \in Nat
    BY <1>0 DEF TaskRow
  <2> QED BY <1>1, <1>3, <2>1 DEF CallKnows
<1>5. \A d \in Caller : CallKnows(d)'
  BY <1>1, <1>2, <1>4, KnowledgeKept
<1>6. ExecutionCredited' /\ OneReport' /\ TickKnows'
  BY <1>1, <1>2, <1>3, KnowledgeKept, ReportsKept DEF Accepted
<1> QED BY <1>1, <1>5, <1>6 DEF LockInv

\* The writes of Assign and Claim.
LEMMA ClaimLock ==
  ASSUME TypeInv, TypeInv', LockInv, NEW c \in Caller,
         AssignWrite(c) \/ ClaimWrite(c) \/ ClaimCreateLease(c) \/ ClaimCleanup(c)
  PROVE  LockInv'
<1>0. tasks \in [Task -> TaskRow] /\ call \in [Caller -> CallState] /\ clock \in Nat
  BY DEF TypeInv, TypeOK
<1>1. UNCHANGED <<executions, clock, tick>> /\ clock <= clock'
  <2>1. UNCHANGED <<executions, clock, tick>>
    BY DEF AssignWrite, ClaimWrite, ClaimCreateLease, ClaimCleanup
  <2> QED BY <1>0, <2>1
<1>2. ASSUME RowsMove, CallKnows(c)', ~Accepted(c)',
             \A d \in Caller \ {c} : call'[d] = call[d]
      PROVE  LockInv'
  <2>1. \A d \in Caller : CallKnows(d)'
    BY <1>1, <1>2, KnowledgeKept
  <2>2. ExecutionCredited' /\ OneReport' /\ TickKnows'
    BY <1>1, <1>2, KnowledgeKept, ReportsKept DEF Accepted
  <2>3. \A t \in Task : tasks'[t].status # "in_progress"
    <3>1. CASE AssignWrite(c)
      <4>1. \A u \in Task : tasks'[u].status # tasks[u].status => tasks'[u].status = "assigned"
        BY <3>1, ReadArguments, StatusWrite DEF AssignWrite, PilotTaskStatus
      <4> QED BY <4>1 DEF LockInv
    <3>2. CASE ClaimWrite(c)
      BY <3>2, ReadArguments, ClaimedWrite DEF ClaimWrite, LockInv
    <3>3. CASE ClaimCreateLease(c)
      BY <3>3 DEF ClaimCreateLease, LockInv
    <3>4. CASE ClaimCleanup(c)
      BY <3>4, ReadArguments, ClearWrite DEF ClaimCleanup, LockInv
    <3> QED BY <3>1, <3>2, <3>3, <3>4
  <2> QED BY <2>1, <2>2, <2>3 DEF LockInv
<1>3. CASE AssignWrite(c)
  <2>1. RowsMove
    BY <1>3, ReadArguments, StatusWrite DEF AssignWrite, PilotTaskStatus
  <2> QED BY <1>0, <1>2, <1>3, <2>1 DEF AssignWrite, CallKnows, Accepted, IdleCall
<1>4. CASE ClaimWrite(c)
  <2>1. RowsMove
    BY <1>4, ReadArguments, ClaimedWrite DEF ClaimWrite
  <2>2. CallKnows(c)' /\ ~Accepted(c)'
    <3>1. CASE Matches(call[c].task, call[c].version)
      <4>1. /\ call'[c].pc = "createLease" /\ call'[c].task = call[c].task
            /\ call'[c].version = call[c].version /\ call'[c].lease = call[c].lease
        BY <1>0, <1>4, <3>1 DEF ClaimWrite, CallState
      <4>2. /\ tasks'[call[c].task].status = "claimed"
            /\ tasks'[call[c].task].leaseId = call[c].lease
            /\ tasks'[call[c].task].version = call[c].version + 1
        <5>1. /\ call[c].task \in Task /\ call[c].version \in Nat
              /\ call[c].executor \in Executor /\ call[c].lease \in Lease
              /\ call[c].expiresAt \in Nat \cup {NullTime}
              /\ tasks[call[c].task].status = "assigned"
          BY <1>4, <3>1, ReadArguments DEF ClaimWrite
        <5>2. UpdatePilotTaskClaim(call[c].task, call[c].executor, call[c].lease,
                                   call[c].expiresAt, call[c].version)
          BY <1>4 DEF ClaimWrite
        <5>3. tasks' = [tasks EXCEPT ![call[c].task] =
                          [status |-> "claimed", claimedBy |-> call[c].executor,
                           leaseId |-> call[c].lease, expiresAt |-> call[c].expiresAt,
                           version |-> call[c].version + 1]]
          BY <3>1, <5>2 DEF UpdatePilotTaskClaim
        <5> QED BY <1>0, <5>1, <5>3
      <4>3. call[c].version + 1 \in Nat
        BY <1>4, ReadArguments DEF ClaimWrite
      <4> QED BY <4>1, <4>2, <4>3 DEF CallKnows, Accepted
    <3>2. CASE ~Matches(call[c].task, call[c].version)
      <4>1. call'[c] = IdleCall
        BY <1>0, <1>4, <3>2 DEF ClaimWrite
      <4> QED BY <4>1 DEF CallKnows, Accepted, IdleCall
    <3> QED BY <3>1, <3>2
  <2> QED BY <1>0, <1>2, <1>4, <2>1, <2>2 DEF ClaimWrite
<1>5. CASE ClaimCreateLease(c)
  <2>1. RowsMove
    BY <1>5 DEF ClaimCreateLease, RowsMove
  <2> QED BY <1>0, <1>2, <1>5, <2>1 DEF ClaimCreateLease, CallKnows, Accepted, IdleCall
<1>6. CASE ClaimCleanup(c)
  <2>1. RowsMove
    BY <1>6, ReadArguments, ClearWrite DEF ClaimCleanup
  <2> QED BY <1>0, <1>2, <1>6, <2>1 DEF ClaimCleanup, CallKnows, Accepted, IdleCall
<1> QED BY <1>3, <1>4, <1>5, <1>6

\* Report's UPDATE: one report is accepted, of the executor that holds the task.
LEMMA ReportWriteLock ==
  ASSUME TypeInv, TypeInv', LockInv, NEW c \in Caller, ReportWrite(c)
  PROVE  LockInv'
<1>0. tasks \in [Task -> TaskRow] /\ call \in [Caller -> CallState] /\ clock \in Nat
  BY DEF TypeInv, TypeOK
<1>1. UNCHANGED <<executions, clock, tick>> /\ clock <= clock'
  <2>1. UNCHANGED <<executions, clock, tick>>
    BY DEF ReportWrite
  <2> QED BY <1>0, <2>1
<1>2. \A d \in Caller \ {c} : call'[d] = call[d]
  BY <1>0 DEF ReportWrite
<1> DEFINE t == call[c].task
<1>3. /\ t \in Task /\ call[c].version \in Nat
      /\ Matches(t, call[c].version) =>
           tasks[t].status = "claimed" /\ tasks[t].claimedBy = call[c].executor
  BY ReadArguments DEF ReportWrite
<1>4. /\ RowsMove
      /\ \A u \in Task : tasks'[u].status # tasks[u].status => u = t
      /\ \A u \in Task : tasks'[u].claimedBy = tasks[u].claimedBy
      /\ Matches(t, call[c].version) => tasks'[t].status = "completed"
      /\ ~Matches(t, call[c].version) => tasks' = tasks
  BY <1>3, StatusWrite DEF ReportWrite, PilotTaskStatus
<1>5. \A u \in Task : tasks'[u].status # "in_progress"
  BY <1>4 DEF LockInv
<1>6. ExecutionCredited'
  BY <1>1, <1>4, ReportsKept
<1>7. CASE Matches(t, call[c].version)
  <2>1. /\ call'[c].pc \in {"getLease", "record"} /\ call'[c].task = t
        /\ call'[c].executor = call[c].executor
    BY <1>0, <1>7 DEF ReportWrite, CallState
  <2>2. \A d \in Caller : CallKnows(d)'
    BY <1>1, <1>2, <1>4, <2>1, KnowledgeKept DEF CallKnows
  <2>3. executions[t] = <<>>
    BY <1>3, <1>7 DEF LockInv, ExecutionCredited
  <2>4. \A d \in Caller : Accepted(d) => call[d].task # t
    BY <1>3, <1>7 DEF LockInv, OneReport
  <2>5. OneReport'
    <3>1. ASSUME NEW d \in Caller, Accepted(d)'
          PROVE  /\ tasks'[call'[d].task].status = "completed"
                 /\ tasks'[call'[d].task].claimedBy = call'[d].executor
                 /\ executions'[call'[d].task] = <<>>
      <4>1. CASE d = c
        BY <1>1, <1>3, <1>4, <1>7, <2>1, <2>3, <4>1
      <4>2. CASE d # c
        <5>1. Accepted(d) /\ call'[d] = call[d]
          BY <1>2, <3>1, <4>2 DEF Accepted
        <5>2. call[d].task \in Task
          BY <5>1 DEF Accepted, TypeInv, CallArguments
        <5> QED BY <1>1, <1>4, <5>1, <5>2 DEF LockInv, OneReport, RowsMove
      <4> QED BY <4>1, <4>2
    <3>2. \A d, f \in Caller : Accepted(d)' /\ Accepted(f)' /\ call'[d].task = call'[f].task => d = f
      BY <1>2, <2>1, <2>4 DEF LockInv, OneReport, Accepted
    <3> QED BY <3>1, <3>2 DEF OneReport
  <2> QED BY <1>1, <1>4, <1>5, <1>6, <2>2, <2>5, KnowledgeKept DEF LockInv
<1>8. CASE ~Matches(t, call[c].version)
  <2>1. call'[c] = IdleCall
    BY <1>0, <1>8 DEF ReportWrite
  <2>2. \A d \in Caller : CallKnows(d)'
    BY <1>1, <1>2, <1>4, <2>1, KnowledgeKept
  <2>3. OneReport'
    BY <1>1, <1>2, <1>4, <2>1, ReportsKept DEF Accepted, IdleCall
  <2> QED BY <1>1, <1>4, <1>5, <1>6, <2>2, <2>3, KnowledgeKept DEF LockInv
<1> QED BY <1>7, <1>8

\* After it, the lease is released and the execution recorded.
LEMMA AfterReportLock ==
  ASSUME TypeInv, TypeInv', LockInv, NEW c \in Caller,
         ReportGetLease(c) \/ ReportReleaseLease(c) \/ ReportRecord(c)
  PROVE  LockInv'
<1>0. /\ tasks \in [Task -> TaskRow] /\ call \in [Caller -> CallState] /\ clock \in Nat
      /\ executions \in [Task -> Seq(Executor)]
  BY DEF TypeInv, TypeOK
<1>1. UNCHANGED <<tasks, clock, tick>> /\ clock <= clock' /\ RowsMove
  <2>1. UNCHANGED <<tasks, clock, tick>>
    BY DEF ReportGetLease, ReportReleaseLease, ReportRecord
  <2> QED BY <1>0, <2>1 DEF RowsMove
<1>2. /\ \A d \in Caller \ {c} : call'[d] = call[d]
      /\ Accepted(c)
      /\ \/ call'[c].pc = "idle"
         \/ /\ Accepted(c)'
            /\ call'[c].task = call[c].task /\ call'[c].executor = call[c].executor
  <2>1. CASE ReportGetLease(c)
    BY <1>0, <2>1 DEF ReportGetLease, Accepted, CallState
  <2>2. CASE ReportReleaseLease(c)
    BY <1>0, <2>2 DEF ReportReleaseLease, Accepted, CallState
  <2>3. CASE ReportRecord(c)
    BY <1>0, <2>3 DEF ReportRecord, Accepted, IdleCall
  <2> QED BY <2>1, <2>2, <2>3
<1>3. \A d \in Caller : CallKnows(d)'
  <2>1. CallKnows(c)'
    BY <1>2 DEF CallKnows, Accepted
  <2> QED BY <1>1, <1>2, <2>1, KnowledgeKept
<1>4. TickKnows' /\ \A u \in Task : tasks'[u].status # "in_progress"
  BY <1>1, KnowledgeKept DEF LockInv
<1>5. CASE executions' = executions
  <2>1. OneReport' /\ ExecutionCredited'
    BY <1>1, <1>2, <1>5, ReportsKept DEF Accepted
  <2> QED BY <1>3, <1>4, <2>1 DEF LockInv
<1>6. CASE ReportRecord(c)
  <2> DEFINE t == call[c].task
  <2>1. /\ t \in Task /\ tasks[t].status = "completed"
        /\ tasks[t].claimedBy = call[c].executor /\ executions[t] = <<>>
    BY <1>2 DEF TypeInv, CallArguments, Accepted, LockInv, OneReport
  <2>2. /\ executions'[t] = <<call[c].executor>>
        /\ \A u \in Task \ {t} : executions'[u] = executions[u]
    BY <1>0, <1>6, <2>1 DEF ReportRecord
  <2>3. ExecutionCredited'
    BY <1>1, <2>1, <2>2 DEF ExecutionCredited, LockInv
  <2>4. call'[c].pc = "idle"
    BY <1>0, <1>6 DEF ReportRecord, IdleCall
  <2>5. OneReport'
    <3>1. \A d \in Caller : Accepted(d)' => Accepted(d) /\ call'[d] = call[d] /\ call[d].task # t
      BY <1>2, <2>4 DEF Accepted, LockInv, OneReport
    <3>2. \A d \in Caller : Accepted(d) => call[d].task \in Task
      BY DEF Accepted, TypeInv, CallArguments
    <3> QED BY <1>1, <2>2, <3>1, <3>2 DEF OneReport, LockInv
  <2> QED BY <1>3, <1>4, <2>3, <2>5 DEF LockInv
<1> QED BY <1>5, <1>6 DEF ReportGetLease, ReportReleaseLease

\* The engine's writes.
LEMMA PreemptLock ==
  ASSUME TypeInv, TypeInv', LockInv, NEW x \in tick.expired, PreemptOne(x)
  PROVE  LockInv'
<1>0. /\ tasks \in [Task -> TaskRow] /\ tick \in TickState /\ clock \in Nat
      /\ x.task \in Task /\ x.version \in Nat
  BY DEF TypeInv, TypeOK, TickState, ExpiredClaim
<1>1. UNCHANGED <<executions, clock, call>> /\ clock <= clock'
  <2>1. UNCHANGED <<executions, clock, call>>
    BY DEF PreemptOne
  <2> QED BY <1>0, <2>1
<1>2. Matches(x.task, x.version) => tasks[x.task].status = "claimed"
  BY DEF LockInv, TickKnows, ListKnows, Matches
<1>3. /\ RowsMove
      /\ \A t \in Task : tasks'[t].status # "in_progress"
  BY <1>0, <1>2, ClearWrite DEF PreemptOne, LockInv
<1>4. tick'.pc # "reassign" /\ tick'.expired \subseteq tick.expired
  BY <1>0 DEF PreemptOne, TickState
<1>5. TickKnows'
  BY <1>1, <1>3, <1>4, KnowledgeKept DEF TickKnows
<1>6. ExecutionCredited' /\ OneReport' /\ \A c \in Caller : CallKnows(c)'
  BY <1>1, <1>3, ReportsKept, KnowledgeKept DEF Accepted
<1> QED BY <1>3, <1>5, <1>6 DEF LockInv

LEMMA ReassignLock ==
  ASSUME TypeInv, TypeInv', LockInv, ReassignWrite
  PROVE  LockInv'
<1>0. /\ tasks \in [Task -> TaskRow] /\ tick \in TickState /\ clock \in Nat
      /\ tick.task \in Task /\ tick.version \in Nat
  BY DEF TypeInv, TypeOK, TickArguments, TickState, ReassignWrite
<1>1. UNCHANGED <<executions, clock, call>> /\ clock <= clock'
  <2>1. UNCHANGED <<executions, clock, call>>
    BY DEF ReassignWrite
  <2> QED BY <1>0, <2>1
<1>2. Matches(tick.task, tick.version) =>
        tasks[tick.task].status \in {"created", "preempted"}
  BY DEF LockInv, TickKnows, Matches, ReassignWrite
<1>3. RowsMove /\ \A t \in Task : tasks'[t].status # "in_progress"
  BY <1>0, <1>2, StatusWrite DEF ReassignWrite, LockInv, PilotTaskStatus
<1>4. tick'.pc = "loop" /\ tick'.expired = tick.expired
  BY <1>0 DEF ReassignWrite, TickState
<1>5. TickKnows'
  BY <1>1, <1>3, <1>4, KnowledgeKept DEF TickKnows
<1>6. ExecutionCredited' /\ OneReport' /\ \A c \in Caller : CallKnows(c)'
  BY <1>1, <1>3, ReportsKept, KnowledgeKept DEF Accepted
<1> QED BY <1>3, <1>5, <1>6 DEF LockInv

\* The steps of the tick that write no task row.
LEMMA TickReadLock ==
  ASSUME TypeInv, TypeInv', LockInv, UNCHANGED <<tasks, executions, clock, call>>,
         \/ TickList \/ PreemptGetLease \/ PreemptRevokeLease \/ TickEnd \/ RevokeFails
         \/ \E x \in tick.expired : PreemptFails(x)
         \/ \E t \in tick.preempted : ReassignRead(t) \/ ReassignFails(t)
  PROVE  LockInv'
<1>0. /\ tasks \in [Task -> TaskRow] /\ tick \in TickState /\ clock \in Nat
  BY DEF TypeInv, TypeOK
<1>1. RowsMove /\ clock <= clock'
  BY <1>0 DEF RowsMove
<1>2. ExecutionCredited' /\ OneReport' /\ \A c \in Caller : CallKnows(c)'
  BY <1>1, ReportsKept, KnowledgeKept DEF Accepted
<1>3. ASSUME tick'.expired \subseteq tick.expired, tick'.pc # "reassign" PROVE TickKnows'
  BY <1>1, <1>3, KnowledgeKept DEF TickKnows
<1>4. TickKnows'
  <2>1. CASE TickList
    <3>1. /\ tick'.pc = "loop"
          /\ tick'.expired = {[task |-> t, version |-> tasks[t].version,
                               lease |-> tasks[t].leaseId] : t \in ListExpiredClaims(clock)}
      BY <2>1 DEF TickList, IdleTick
    <3>2. ASSUME NEW t \in ListExpiredClaims(clock)
          PROVE  /\ t \in Task /\ tasks[t].version \in Nat
                 /\ tasks[t].status = "claimed" /\ tasks[t].expiresAt < clock
      BY <1>0, <3>2 DEF ListExpiredClaims, LockInv, TaskRow
    <3> QED BY <3>1, <3>2 DEF TickKnows, ListKnows
  <2>2. CASE PreemptGetLease
    BY <1>0, <1>3, <2>2 DEF PreemptGetLease, TickState
  <2>3. CASE PreemptRevokeLease
    BY <1>0, <1>3, <2>3 DEF PreemptRevokeLease, TickState
  <2>4. CASE TickEnd
    BY <1>1, <2>4, KnowledgeKept DEF TickEnd
  <2>5. CASE RevokeFails
    BY <1>0, <1>3, <2>5 DEF RevokeFails, TickState
  <2>6. ASSUME NEW x \in tick.expired, PreemptFails(x) PROVE TickKnows'
    BY <1>0, <1>3, <2>6 DEF PreemptFails, TickState
  <2>7. ASSUME NEW t \in tick.preempted, ReassignFails(t) PROVE TickKnows'
    BY <1>0, <1>3, <2>7 DEF ReassignFails, TickState
  <2>8. ASSUME NEW t \in tick.preempted, ReassignRead(t) PROVE TickKnows'
    <3>1. CASE CanTransition(PilotTaskStateMachine, tasks[t].status, "assigned")
      <4>1. tasks[t].status \in {"created", "preempted"}
        BY <3>1 DEF CanTransition, PilotTaskStateMachine, AllowMany
      <4>2. /\ tick'.expired = tick.expired /\ tick'.task = t
            /\ tick'.version = tasks[t].version
        BY <1>0, <2>8, <3>1 DEF ReassignRead, TickState
      <4>3. tasks[t].version \in Nat
        BY <1>0, <2>8 DEF TickState, TaskRow
      <4> QED BY <1>1, <4>1, <4>2, <4>3, KnowledgeKept DEF TickKnows
    <3>2. CASE ~CanTransition(PilotTaskStateMachine, tasks[t].status, "assigned")
      BY <1>0, <1>3, <2>8, <3>2 DEF ReassignRead, TickState
    <3> QED BY <3>1, <3>2
  <2> QED BY <2>1, <2>2, <2>3, <2>4, <2>5, <2>6, <2>7, <2>8
<1> QED BY <1>2, <1>4 DEF LockInv

\* Creation, the clock, and the failures that end a call.
LEMMA OtherLock ==
  ASSUME TypeInv, TypeInv', LockInv,
         \/ \E t \in Task : Create(t)
         \/ ClockTick
         \/ \E c \in Caller : CallStatementFails(c) \/ ExecutorCrash(c)
         \/ SchedulerCrash
  PROVE  LockInv'
<1>0. /\ tasks \in [Task -> TaskRow] /\ call \in [Caller -> CallState] /\ clock \in Nat
  BY DEF TypeInv, TypeOK
<1>1. ASSUME NEW t \in Task, Create(t) PROVE LockInv'
  <2>1. /\ tasks' = [tasks EXCEPT ![t] = Moved(tasks[t], "created")]
        /\ UNCHANGED <<executions, clock, call, tick>> /\ clock <= clock'
    BY <1>0, <1>1 DEF Create
  <2>2. /\ Moved(tasks[t], "created").status = "created"
        /\ Moved(tasks[t], "created").version = tasks[t].version + 1
    BY <1>0, <1>1, MovedTask DEF PilotTaskStatus
  <2>3. RowsMove /\ \A u \in Task : tasks'[u].status # "in_progress"
    BY <1>0, <1>1, <2>1, <2>2 DEF RowsMove, LockInv, Create
  <2> QED BY <2>1, <2>3, ReportsKept, KnowledgeKept DEF LockInv, Accepted
<1>2. CASE ClockTick
  <2>1. UNCHANGED <<tasks, executions, call, tick>> /\ clock <= clock' /\ RowsMove
    BY <1>0, <1>2 DEF ClockTick, RowsMove
  <2> QED BY <2>1, ReportsKept, KnowledgeKept DEF LockInv, Accepted
<1>3. ASSUME NEW c \in Caller, CallStatementFails(c) PROVE LockInv'
  <2>1. UNCHANGED <<tasks, executions, clock, tick>> /\ clock <= clock' /\ RowsMove
    BY <1>0, <1>3 DEF CallStatementFails, RowsMove
  <2>2. /\ \A d \in Caller \ {c} : call'[d] = call[d]
        /\ call'[c] = AfterError(call[c])
    BY <1>0, <1>3 DEF CallStatementFails
  <2>3. CallKnows(c)' /\ (Accepted(c)' => /\ Accepted(c)
                                          /\ call'[c].task = call[c].task
                                          /\ call'[c].executor = call[c].executor)
    <3>1. CASE call[c].pc = "createLease"
      <4>1. /\ call'[c].pc = "cleanup" /\ call'[c].task = call[c].task
            /\ call'[c].version = call[c].version /\ call'[c].lease = call[c].lease
        BY <1>0, <2>2, <3>1 DEF AfterError, CallState
      <4> QED BY <2>1, <3>1, <4>1 DEF LockInv, CallKnows, Accepted
    <3>2. CASE call[c].pc \in {"getLease", "releaseLease"}
      <4>1. /\ call'[c].pc = "record" /\ call'[c].task = call[c].task
            /\ call'[c].executor = call[c].executor
        BY <1>0, <2>2, <3>2 DEF AfterError, CallState
      <4> QED BY <3>2, <4>1 DEF CallKnows, Accepted
    <3>3. CASE call[c].pc \notin {"createLease", "getLease", "releaseLease"}
      BY <2>2, <3>3 DEF AfterError, CallKnows, Accepted, IdleCall
    <3> QED BY <3>1, <3>2, <3>3
  <2>4. \A d \in Caller : CallKnows(d)'
    BY <2>1, <2>2, <2>3, KnowledgeKept
  <2>5. OneReport' /\ ExecutionCredited'
    BY <2>1, <2>2, <2>3, ReportsKept DEF Accepted
  <2> QED BY <2>1, <2>4, <2>5, KnowledgeKept DEF LockInv
<1>4. ASSUME \A c \in Caller : call'[c] \in {call[c], IdleCall},
             tick' \in {tick, IdleTick}, UNCHANGED <<tasks, executions, clock>>
      PROVE  LockInv'
  <2>1. clock <= clock' /\ RowsMove
    BY <1>0, <1>4 DEF RowsMove
  <2>2. \A c \in Caller : Accepted(c)' => Accepted(c) /\ call'[c] = call[c]
    BY <1>4 DEF Accepted, IdleCall
  <2> QED BY <1>4, <2>1, <2>2, ReportsKept, KnowledgeKept DEF LockInv
<1>5. ASSUME NEW c \in Caller, ExecutorCrash(c) PROVE LockInv'
  BY <1>0, <1>4, <1>5 DEF ExecutorCrash
<1>6. CASE SchedulerCrash
  BY <1>0, <1>4, <1>6 DEF SchedulerCrash
<1> QED BY <1>1, <1>2, <1>3, <1>5, <1>6

LEMMA LockStep == TypeInv /\ LockInv /\ [Next]_vars => LockInv'
<1> SUFFICES ASSUME TypeInv, LockInv, [Next]_vars PROVE LockInv'
  OBVIOUS
<1>0. TypeInv'
  BY TypeStep
<1>1. CASE \E t \in Task : Create(t)
  BY <1>0, <1>1, OtherLock
<1>2. ASSUME NEW c \in Caller, AssignCall(c) \/ ClaimCall(c) \/ ReportCall(c)
      PROVE  LockInv'
  <2>1. CASE \E t \in Task : AssignRead(c, t)
    BY <1>0, <2>1, ReadLock
  <2>2. CASE \E t \in Task, e \in Executor : ClaimRead(c, t, e) \/ ReportRead(c, t, e)
    BY <1>0, <2>2, ReadLock
  <2>3. CASE AssignWrite(c) \/ ClaimWrite(c) \/ ClaimCreateLease(c) \/ ClaimCleanup(c)
    BY <1>0, <2>3, ClaimLock
  <2>4. CASE ReportWrite(c)
    BY <1>0, <2>4, ReportWriteLock
  <2>5. CASE ReportGetLease(c) \/ ReportReleaseLease(c) \/ ReportRecord(c)
    BY <1>0, <2>5, AfterReportLock
  <2> QED BY <1>2, <2>1, <2>2, <2>3, <2>4, <2>5 DEF AssignCall, ClaimCall, ReportCall
<1>3. CASE EngineTick \/ RevokeFails \/ (\E x \in tick.expired : PreemptFails(x))
             \/ (\E t \in tick.preempted : ReassignFails(t))
  <2>1. CASE \E x \in tick.expired : PreemptOne(x)
    BY <1>0, <2>1, PreemptLock
  <2>2. CASE ReassignWrite
    BY <1>0, <2>2, ReassignLock
  <2>3. CASE TickList
    BY <1>0, <2>3, TickReadLock DEF TickList
  <2>4. CASE PreemptGetLease
    BY <1>0, <2>4, TickReadLock DEF PreemptGetLease
  <2>5. CASE PreemptRevokeLease
    BY <1>0, <2>5, TickReadLock DEF PreemptRevokeLease
  <2>6. CASE TickEnd
    BY <1>0, <2>6, TickReadLock DEF TickEnd
  <2>7. CASE RevokeFails
    BY <1>0, <2>7, TickReadLock DEF RevokeFails
  <2>8. ASSUME NEW x \in tick.expired, PreemptFails(x) PROVE LockInv'
    BY <1>0, <2>8, TickReadLock DEF PreemptFails
  <2>9. ASSUME NEW t \in tick.preempted, ReassignFails(t) PROVE LockInv'
    BY <1>0, <2>9, TickReadLock DEF ReassignFails
  <2>10. ASSUME NEW t \in tick.preempted, ReassignRead(t) PROVE LockInv'
    BY <1>0, <2>10, TickReadLock DEF ReassignRead
  <2> QED BY <1>3, <2>1, <2>2, <2>3, <2>4, <2>5, <2>6, <2>7, <2>8, <2>9, <2>10 DEF EngineTick
<1>4. CASE ClockTick \/ SchedulerCrash
             \/ (\E c \in Caller : CallStatementFails(c) \/ ExecutorCrash(c))
  BY <1>0, <1>4, OtherLock
<1>5. CASE UNCHANGED vars
  <2>1. UNCHANGED <<tasks, executions, clock, call, tick>>
    BY <1>5 DEF vars
  <2> QED BY <2>1 DEF LockInv, CallKnows, TickKnows, ListKnows, OneReport, Accepted,
                      ExecutionCredited
<1> QED BY <1>1, <1>2, <1>3, <1>4, <1>5 DEF Next, Failure

LEMMA Invariant == Spec => [](TypeInv /\ LockInv)
<1>1. Init => LockInv
  BY InitLock
<1> QED BY <1>1, InitType, TypeStep, LockStep, PTL DEF Spec

\* Whatever reports, preemptions, failures and crashes overtake one another, a
\* completed task is credited once and to the executor that completed it.
THEOREM CreditedOnce == Spec => []ExecutionCredited
<1>1. LockInv => ExecutionCredited
  BY DEF LockInv
<1> QED BY <1>1, Invariant, PTL

-----------------------------------------------------------------------------
(* What a step may do to the task table, seen from outside: the steps that *)
(* write a row, and what the writer knew of it.                            *)

LeavesRows == UNCHANGED <<tasks, executions>>

\* Some task moved between statuses in this way, keeping its owner and lease.
StatusMoved ==
  \E t \in Task :
    /\ \/ tasks[t].status = "none" /\ tasks'[t].status = "created"
       \/ tasks[t].status \in {"created", "preempted"} /\ tasks'[t].status = "assigned"
       \/ tasks[t].status = "claimed" /\ tasks'[t].status = "completed"
    /\ \A u \in Task : /\ u # t => tasks'[u].status = tasks[u].status
                       /\ tasks'[u].claimedBy = tasks[u].claimedBy
                       /\ tasks'[u].leaseId = tasks[u].leaseId
    /\ executions' = executions

ClaimTaken ==
  \E t \in Task, e \in Executor :
    /\ tasks[t].status = "assigned" /\ tasks'[t].status = "claimed"
    /\ tasks'[t].claimedBy = e
    /\ \A u \in Task \ {t} : tasks'[u] = tasks[u]
    /\ executions' = executions

\* A claim is withdrawn by preemptOne, late, or by the cleanup of its own call.
ClaimWithdrawn ==
  \E t \in Task :
    /\ tasks[t].status = "claimed" /\ tasks'[t].status = "preempted"
    /\ tasks'[t].claimedBy = None
    /\ \/ tasks[t].expiresAt < clock
       \/ \E c \in Caller : call[c].pc = "cleanup" /\ call[c].lease = tasks[t].leaseId
    /\ \A u \in Task \ {t} : tasks'[u] = tasks[u]
    /\ executions' = executions

ExecutionRecorded ==
  \E t \in Task :
    /\ tasks[t].status = "completed" /\ executions[t] = <<>>
    /\ executions' = [executions EXCEPT ![t] = <<tasks[t].claimedBy>>]
    /\ tasks' = tasks

Effect == LeavesRows \/ StatusMoved \/ ClaimTaken \/ ClaimWithdrawn \/ ExecutionRecorded

LEMMA CallEffect ==
  ASSUME TypeInv, LockInv, NEW c \in Caller, AssignCall(c) \/ ClaimCall(c) \/ ReportCall(c)
  PROVE  Effect
<1>0. tasks \in [Task -> TaskRow] /\ executions \in [Task -> Seq(Executor)]
  BY DEF TypeInv, TypeOK
<1>1. CASE AssignWrite(c)
  <2> DEFINE t == call[c].task
  <2>1. /\ t \in Task /\ call[c].version \in Nat
        /\ Matches(t, call[c].version) => tasks[t].status \in {"created", "preempted"}
    BY <1>1, ReadArguments DEF AssignWrite
  <2>2. /\ \A u \in Task : tasks'[u].status # tasks[u].status => u = t
        /\ \A u \in Task : /\ tasks'[u].claimedBy = tasks[u].claimedBy
                           /\ tasks'[u].leaseId = tasks[u].leaseId
        /\ Matches(t, call[c].version) => tasks'[t].status = "assigned"
        /\ ~Matches(t, call[c].version) => tasks' = tasks
    BY <1>1, <2>1, StatusWrite DEF AssignWrite, PilotTaskStatus
  <2>3. executions' = executions
    BY <1>1 DEF AssignWrite
  <2>4. CASE Matches(t, call[c].version)
    BY <2>1, <2>2, <2>3, <2>4 DEF Effect, StatusMoved
  <2> QED BY <2>2, <2>3, <2>4 DEF Effect, LeavesRows
<1>2. CASE ClaimWrite(c)
  <2> DEFINE t == call[c].task
  <2>1. /\ t \in Task /\ call[c].version \in Nat /\ call[c].executor \in Executor
        /\ Matches(t, call[c].version) => tasks[t].status = "assigned"
    BY <1>2, ReadArguments DEF ClaimWrite
  <2>2. executions' = executions
    BY <1>2 DEF ClaimWrite
  <2>3. CASE Matches(t, call[c].version)
    <3>1. tasks' = [tasks EXCEPT ![t] = [status |-> "claimed", claimedBy |-> call[c].executor,
                      leaseId |-> call[c].lease, expiresAt |-> call[c].expiresAt,
                      version |-> call[c].version + 1]]
      BY <1>2, <2>3 DEF ClaimWrite, UpdatePilotTaskClaim
    <3>2. /\ tasks'[t].status = "claimed" /\ tasks'[t].claimedBy = call[c].executor
          /\ \A u \in Task \ {t} : tasks'[u] = tasks[u]
      BY <1>0, <2>1, <3>1
    <3> QED BY <2>1, <2>2, <2>3, <3>2 DEF Effect, ClaimTaken
  <2>4. CASE ~Matches(t, call[c].version)
    BY <1>2, <2>2, <2>4 DEF ClaimWrite, UpdatePilotTaskClaim, Effect, LeavesRows
  <2> QED BY <2>3, <2>4
<1>3. CASE ClaimCleanup(c)
  <2> DEFINE t == call[c].task
  <2>1. /\ call[c].pc = "cleanup"
        /\ t \in Task /\ CleanupVersion(c) \in Nat
        /\ Matches(t, CleanupVersion(c)) =>
             tasks[t].status = "claimed" /\ tasks[t].leaseId = call[c].lease
    BY <1>3, ReadArguments DEF ClaimCleanup
  <2>2. /\ \A u \in Task : u # t => tasks'[u] = tasks[u]
        /\ Matches(t, CleanupVersion(c)) =>
             tasks'[t].status = "preempted" /\ tasks'[t].claimedBy = None
        /\ ~Matches(t, CleanupVersion(c)) => tasks' = tasks
    BY <1>3, <2>1, ClearWrite DEF ClaimCleanup
  <2>3. executions' = executions
    BY <1>3 DEF ClaimCleanup
  <2>4. CASE Matches(t, CleanupVersion(c))
    BY <2>1, <2>2, <2>3, <2>4 DEF Effect, ClaimWithdrawn
  <2> QED BY <2>2, <2>3, <2>4 DEF Effect, LeavesRows
<1>4. CASE ReportWrite(c)
  <2> DEFINE t == call[c].task
  <2>1. /\ t \in Task /\ call[c].version \in Nat
        /\ Matches(t, call[c].version) => tasks[t].status = "claimed"
    BY <1>4, ReadArguments DEF ReportWrite
  <2>2. /\ \A u \in Task : tasks'[u].status # tasks[u].status => u = t
        /\ \A u \in Task : /\ tasks'[u].claimedBy = tasks[u].claimedBy
                           /\ tasks'[u].leaseId = tasks[u].leaseId
        /\ Matches(t, call[c].version) => tasks'[t].status = "completed"
        /\ ~Matches(t, call[c].version) => tasks' = tasks
    BY <1>4, <2>1, StatusWrite DEF ReportWrite, PilotTaskStatus
  <2>3. executions' = executions
    BY <1>4 DEF ReportWrite
  <2>4. CASE Matches(t, call[c].version)
    BY <2>1, <2>2, <2>3, <2>4 DEF Effect, StatusMoved
  <2> QED BY <2>2, <2>3, <2>4 DEF Effect, LeavesRows
<1>5. CASE ReportRecord(c)
  <2> DEFINE t == call[c].task
  <2>1. /\ t \in Task /\ tasks[t].status = "completed"
        /\ tasks[t].claimedBy = call[c].executor /\ executions[t] = <<>>
    BY <1>5 DEF ReportRecord, TypeInv, CallArguments, Accepted, LockInv, OneReport
  <2>2. /\ executions' = [executions EXCEPT ![t] = <<tasks[t].claimedBy>>]
        /\ tasks' = tasks
    BY <1>0, <1>5, <2>1 DEF ReportRecord
  <2> QED BY <2>1, <2>2 DEF Effect, ExecutionRecorded
<1>6. CASE \/ ClaimCreateLease(c) \/ ReportGetLease(c) \/ ReportReleaseLease(c)
           \/ \E t \in Task : AssignRead(c, t)
           \/ \E t \in Task, e \in Executor : ClaimRead(c, t, e) \/ ReportRead(c, t, e)
  <2>1. LeavesRows
    BY <1>6 DEF LeavesRows, ClaimCreateLease, ReportGetLease, ReportReleaseLease,
                AssignRead, ClaimRead, ReportRead
  <2> QED BY <2>1 DEF Effect
<1> QED BY <1>1, <1>2, <1>3, <1>4, <1>5, <1>6 DEF AssignCall, ClaimCall, ReportCall

LEMMA NextEffect == TypeInv /\ LockInv /\ [Next]_vars => Effect
<1> SUFFICES ASSUME TypeInv, LockInv, [Next]_vars PROVE Effect
  OBVIOUS
<1>0. tasks \in [Task -> TaskRow] /\ tick \in TickState
  BY DEF TypeInv, TypeOK
<1>1. ASSUME NEW t \in Task, Create(t) PROVE Effect
  <2>1. /\ Moved(tasks[t], "created").status = "created"
        /\ Moved(tasks[t], "created").claimedBy = tasks[t].claimedBy
        /\ Moved(tasks[t], "created").leaseId = tasks[t].leaseId
    BY <1>0, <1>1, MovedTask DEF PilotTaskStatus
  <2>2. /\ tasks[t].status = "none" /\ executions' = executions
        /\ tasks' = [tasks EXCEPT ![t] = Moved(tasks[t], "created")]
    BY <1>0, <1>1 DEF Create
  <2>3. StatusMoved
    BY <1>0, <1>1, <2>1, <2>2 DEF StatusMoved
  <2> QED BY <2>3 DEF Effect
<1>2. ASSUME NEW x \in tick.expired, PreemptOne(x) PROVE Effect
  <2>1. /\ x.task \in Task /\ x.version \in Nat
        /\ Matches(x.task, x.version) =>
             tasks[x.task].status = "claimed" /\ tasks[x.task].expiresAt < clock
    BY <1>0, <1>2 DEF TickState, ExpiredClaim, LockInv, TickKnows, ListKnows, Matches
  <2>2. /\ \A u \in Task : u # x.task => tasks'[u] = tasks[u]
        /\ Matches(x.task, x.version) =>
             tasks'[x.task].status = "preempted" /\ tasks'[x.task].claimedBy = None
        /\ ~Matches(x.task, x.version) => tasks' = tasks
    BY <1>2, <2>1, ClearWrite DEF PreemptOne
  <2>3. executions' = executions
    BY <1>2 DEF PreemptOne
  <2>4. CASE Matches(x.task, x.version)
    BY <2>1, <2>2, <2>3, <2>4 DEF Effect, ClaimWithdrawn
  <2> QED BY <2>2, <2>3, <2>4 DEF Effect, LeavesRows
<1>3. CASE ReassignWrite
  <2> DEFINE t == tick.task
  <2>1. /\ t \in Task /\ tick.version \in Nat
        /\ Matches(t, tick.version) => tasks[t].status \in {"created", "preempted"}
    BY <1>0, <1>3 DEF ReassignWrite, TypeInv, TickArguments, TickState, LockInv, TickKnows,
                      Matches
  <2>2. /\ \A u \in Task : tasks'[u].status # tasks[u].status => u = t
        /\ \A u \in Task : /\ tasks'[u].claimedBy = tasks[u].claimedBy
                           /\ tasks'[u].leaseId = tasks[u].leaseId
        /\ Matches(t, tick.version) => tasks'[t].status = "assigned"
        /\ ~Matches(t, tick.version) => tasks' = tasks
    BY <1>3, <2>1, StatusWrite DEF ReassignWrite, PilotTaskStatus
  <2>3. executions' = executions
    BY <1>3 DEF ReassignWrite
  <2>4. CASE Matches(t, tick.version)
    BY <2>1, <2>2, <2>3, <2>4 DEF Effect, StatusMoved
  <2> QED BY <2>2, <2>3, <2>4 DEF Effect, LeavesRows
<1>4. CASE TickList \/ PreemptGetLease \/ PreemptRevokeLease \/ TickEnd
           \/ (\E t \in tick.preempted : ReassignRead(t)) \/ ClockTick
  <2>1. LeavesRows
    BY <1>4 DEF LeavesRows, TickList, PreemptGetLease, PreemptRevokeLease, TickEnd,
                ReassignRead, ClockTick
  <2> QED BY <2>1 DEF Effect
<1>5. CASE Failure
  <2>1. LeavesRows
    BY <1>5 DEF LeavesRows, Failure, CallStatementFails, ExecutorCrash, PreemptFails,
                RevokeFails, ReassignFails, SchedulerCrash
  <2> QED BY <2>1 DEF Effect
<1>6. CASE UNCHANGED vars
  BY <1>6 DEF vars, Effect, LeavesRows
<1> QED BY <1>1, <1>2, <1>3, <1>4, <1>5, <1>6, CallEffect DEF Next, EngineTick

\* No claim is withdrawn before it has expired, except by the Claim call that
\* made it: neither a tick that works from an old list nor a late cleanup can
\* hit the claim of another call.
THEOREM ClaimsHonoured == Spec => ClaimHonoured
<1>1. TypeInv /\ LockInv /\ [Next]_vars =>
        [\A t \in Task :
           tasks[t].status = "claimed" /\ tasks'[t].leaseId # tasks[t].leaseId =>
             \/ tasks[t].expiresAt < clock
             \/ \E c \in Caller : call[c].pc = "cleanup"
                                  /\ call[c].lease = tasks[t].leaseId]_vars
  <2> SUFFICES ASSUME TypeInv, LockInv, [Next]_vars, NEW t \in Task,
                      tasks[t].status = "claimed", tasks'[t].leaseId # tasks[t].leaseId
               PROVE  \/ tasks[t].expiresAt < clock
                      \/ \E c \in Caller : call[c].pc = "cleanup"
                                           /\ call[c].lease = tasks[t].leaseId
    OBVIOUS
  <2>1. Effect
    BY NextEffect
  <2> QED BY <2>1 DEF Effect, LeavesRows, StatusMoved, ClaimTaken, ClaimWithdrawn,
                      ExecutionRecorded
<1> QED BY <1>1, Invariant, PTL DEF Spec, ClaimHonoured

-----------------------------------------------------------------------------
(* The service implements TaskOwnership. *)

LEMMA InitPromise == Init => Promise!Init
BY DEF Init, Promise!Init, NoTask

LEMMA StepPromise ==
  TypeInv /\ TypeInv' /\ LockInv /\ [Next]_vars => [Promise!Next]_(Promise!promised)
<1> SUFFICES ASSUME TypeInv, TypeInv', LockInv, [Next]_vars
             PROVE  Promise!Next \/ UNCHANGED Promise!promised
  OBVIOUS
<1>0. executions \in [Task -> Seq(Executor)]
  BY DEF TypeInv, TypeOK
<1>1. Effect
  BY NextEffect
<1>2. CASE LeavesRows
  BY <1>2 DEF LeavesRows, Promise!promised
<1>3. CASE StatusMoved
  <2>1. PICK t \in Task :
          /\ \/ tasks[t].status = "none" /\ tasks'[t].status = "created"
             \/ tasks[t].status \in {"created", "preempted"} /\ tasks'[t].status = "assigned"
             \/ tasks[t].status = "claimed" /\ tasks'[t].status = "completed"
          /\ \A u \in Task : /\ u # t => tasks'[u].status = tasks[u].status
                             /\ tasks'[u].claimedBy = tasks[u].claimedBy
          /\ executions' = executions
    BY <1>3 DEF StatusMoved
  <2>2. Promise!Create(t) \/ Promise!Offer(t) \/ Promise!Finish(t)
    BY <2>1 DEF Promise!Create, Promise!Offer, Promise!Finish, Promise!Step
  <2> QED BY <2>2 DEF Promise!Next
<1>4. CASE ClaimTaken
  <2>1. PICK t \in Task, e \in Executor :
          /\ tasks[t].status = "assigned" /\ tasks'[t].status = "claimed"
          /\ tasks'[t].claimedBy = e
          /\ \A u \in Task \ {t} : tasks'[u] = tasks[u]
          /\ executions' = executions
    BY <1>4 DEF ClaimTaken
  <2>2. Promise!Take(t, e)
    BY <2>1 DEF Promise!Take, Promise!Step
  <2> QED BY <2>2 DEF Promise!Next
<1>5. CASE ClaimWithdrawn
  <2>1. PICK t \in Task :
          /\ tasks[t].status = "claimed" /\ tasks'[t].status = "preempted"
          /\ tasks'[t].claimedBy = None
          /\ \A u \in Task \ {t} : tasks'[u] = tasks[u]
          /\ executions' = executions
    BY <1>5 DEF ClaimWithdrawn
  <2>2. Promise!Withdraw(t)
    BY <2>1 DEF Promise!Withdraw, Promise!Step
  <2> QED BY <2>2 DEF Promise!Next
<1>6. CASE ExecutionRecorded
  <2>1. PICK t \in Task :
          /\ tasks[t].status = "completed" /\ executions[t] = <<>>
          /\ executions' = [executions EXCEPT ![t] = <<tasks[t].claimedBy>>]
          /\ tasks' = tasks
    BY <1>6 DEF ExecutionRecorded
  <2>2. Promise!Credit(t)
    BY <1>0, <2>1 DEF Promise!Credit
  <2> QED BY <2>2 DEF Promise!Next
<1> QED BY <1>1, <1>2, <1>3, <1>4, <1>5, <1>6 DEF Effect

\* Seen through a task's status, owner and credit, every step of the service,
\* with all its interleavings, conflicts, failures and crashes, is one that
\* TaskOwnership allows.
THEOREM ServiceKeepsPromise == Spec => KeepsPromise
BY InitPromise, StepPromise, Invariant, PTL DEF Spec, KeepsPromise, Promise!Spec
=============================================================================
