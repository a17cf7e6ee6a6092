------------------------------ MODULE PilotTask ------------------------------
(***************************************************************************)
(* Pilot and tug tasks and their execution leases: internal/pilottask over *)
(* the tables pilot_tug_tasks, task_leases and execution_records.          *)
(*                                                                         *)
(* Two processes share the database.  The scheduler serves HTTP requests   *)
(* (Create, Assign, Claim, Report) and runs the engine, whose tick         *)
(* preempts expired claims and reassigns what it preempted; executors      *)
(* claim and report.  A service method is a sequence of SQL statements,    *)
(* each a transaction of its own (no method opens Store.InTx), so a call   *)
(* that has read a row may be overtaken by others before it writes: every  *)
(* action below is one statement, and call[c] and tick hold what a call    *)
(* remembers between two of them.  Writes are optimistic: UPDATE ... WHERE *)
(* id = ? AND version = ?.                                                 *)
(*                                                                         *)
(* Not modelled: the audit rows (best effort, read by nobody here), and    *)
(* location, priority, task type and report data, which no step tests.     *)
(***************************************************************************)
EXTENDS Integers, Sequences, StateMachines

CONSTANTS
  Task,           \* identifiers of tasks
  Executor,       \* executor identifiers, non-empty strings
  Lease,          \* pool of lease identifiers (newUUID)
  Caller,         \* goroutines that call the service
  HTTPCaller,     \* those of them that are HTTP handlers of the scheduler
  None,           \* '' or NULL in a column
  LeaseTimeout,   \* PORTCOORD_LEASE_TIMEOUT, in clock units
  MaxClock,       \* bound: the clock stops here
  MaxFaults       \* bound: failed statements and process crashes

ASSUME ConstantsAssumption ==
  /\ HTTPCaller \subseteq Caller
  /\ None \notin Task \cup Executor \cup Lease
  /\ LeaseTimeout \in Nat \ {0}
  /\ MaxClock \in Nat
  /\ MaxFaults \in Nat

VARIABLES
  tasks,       \* pilot_tug_tasks
  leases,      \* task_leases
  executions,  \* execution_records of each task, in insertion order
  clock,       \* seconds; the code stores and compares times in seconds
  call,        \* local state of each caller
  tick,        \* local state of the engine's tick
  faults       \* statements failed and processes crashed so far

vars == <<tasks, leases, executions, clock, call, tick, faults>>

NullTime == -1

\* "none" is a row that does not exist yet.
TaskRow ==
  [status : PilotTaskStatus \cup {"none"}, claimedBy : Executor \cup {None},
   leaseId : Lease \cup {None}, expiresAt : Nat \cup {NullTime}, version : Nat]

LeaseRow ==
  [status : {"none", "active", "released", "revoked"}, task : Task \cup {None},
   executor : Executor \cup {None}, version : Nat]

\* What a call remembers: the statement it runs next, its arguments, and the
\* version and lease it read or chose.
CallState ==
  [pc : {"idle", "assign", "claim", "createLease", "cleanup",
         "report", "getLease", "releaseLease", "record"},
   task : Task \cup {None}, executor : Executor \cup {None}, version : Nat,
   lease : Lease \cup {None}, expiresAt : Nat \cup {NullTime}, leaseVersion : Nat]

\* The columns of an expired claim that preemptOne uses.
ExpiredClaim == [task : Task, version : Nat, lease : Lease \cup {None}]

TickState ==
  [pc : {"idle", "loop", "getLease", "revokeLease", "reassign"},
   expired : SUBSET ExpiredClaim, preempted : SUBSET Task,
   task : Task \cup {None}, version : Nat, lease : Lease \cup {None},
   leaseVersion : Nat]

TypeOK ==
  /\ tasks \in [Task -> TaskRow]
  /\ leases \in [Lease -> LeaseRow]
  /\ executions \in [Task -> Seq(Executor)]
  /\ clock \in Nat
  /\ call \in [Caller -> CallState]
  /\ tick \in TickState
  /\ faults \in Nat

NoTask == [status |-> "none", claimedBy |-> None, leaseId |-> None,
           expiresAt |-> NullTime, version |-> 0]

NoLease == [status |-> "none", task |-> None, executor |-> None, version |-> 0]

IdleCall == [pc |-> "idle", task |-> None, executor |-> None, version |-> 0,
             lease |-> None, expiresAt |-> NullTime, leaseVersion |-> 0]

IdleTick == [pc |-> "idle", expired |-> {}, preempted |-> {}, task |-> None,
             version |-> 0, lease |-> None, leaseVersion |-> 0]

Init ==
  /\ tasks = [t \in Task |-> NoTask]
  /\ leases = [l \in Lease |-> NoLease]
  /\ executions = [t \in Task |-> <<>>]
  /\ clock = 0
  /\ call = [c \in Caller |-> IdleCall]
  /\ tick = IdleTick
  /\ faults = 0

-----------------------------------------------------------------------------
(* The statements of the store. *)

\* Mutant of Matches: an UPDATE without its version test.
AnyVersionMatches(t, version) == TRUE

\* WHERE id = ? AND version = ?: the row is still the one that was read.
Matches(t, version) == tasks[t].version = version

\* SET status = ?, version = version + 1
Moved(row, status) == [row EXCEPT !.status = status, !.version = row.version + 1]

UpdatePilotTaskStatus(t, status, version) ==
  tasks' = IF Matches(t, version)
           THEN [tasks EXCEPT ![t] = Moved(@, status)]
           ELSE tasks

\* Mutant of UpdatePilotTaskClaim: two arguments in the order of the columns.
SwappedClaimColumns(t, executor, lease, expiresAt, version) ==
  tasks' = IF Matches(t, version)
           THEN [tasks EXCEPT ![t] = [status |-> "claimed", claimedBy |-> lease,
                                      leaseId |-> executor, expiresAt |-> expiresAt,
                                      version |-> version + 1]]
           ELSE tasks

UpdatePilotTaskClaim(t, executor, lease, expiresAt, version) ==
  tasks' = IF Matches(t, version)
           THEN [tasks EXCEPT ![t] = [status |-> "claimed", claimedBy |-> executor,
                                      leaseId |-> lease, expiresAt |-> expiresAt,
                                      version |-> version + 1]]
           ELSE tasks

\* Mutant of ClearPilotTaskClaim: the lease id is not cleared.
ClearKeepingLease(t, version) ==
  tasks' = IF Matches(t, version)
           THEN [tasks EXCEPT ![t] = [status |-> "preempted", claimedBy |-> None,
                                      leaseId |-> tasks[t].leaseId, expiresAt |-> NullTime,
                                      version |-> version + 1]]
           ELSE tasks

ClearPilotTaskClaim(t, version) ==
  tasks' = IF Matches(t, version)
           THEN [tasks EXCEPT ![t] = [status |-> "preempted", claimedBy |-> None,
                                      leaseId |-> None, expiresAt |-> NullTime,
                                      version |-> version + 1]]
           ELSE tasks

\* Mutant of ListExpiredClaims: a forgotten status.
ListExpiredInProgress(now) ==
  {t \in Task : /\ tasks[t].status = "in_progress"
                /\ tasks[t].expiresAt # NullTime
                /\ tasks[t].expiresAt < now}

\* ListExpiredClaims at time now.
ListExpiredClaims(now) ==
  {t \in Task : /\ tasks[t].status \in {"claimed", "in_progress"}
                /\ tasks[t].expiresAt # NullTime
                /\ tasks[t].expiresAt < now}

CreateLease(lease, t, executor) ==
  leases' = [leases EXCEPT ![lease] = [status |-> "active", task |-> t,
                                       executor |-> executor, version |-> 1]]

\* GetLease finds a row.
LeaseExists(lease) == leases[lease].status # "none"

\* RevokeLease and ReleaseLease: WHERE ... AND version = ? AND status = 'active'.
EndLease(lease, status, version) ==
  leases' = IF leases[lease].version = version /\ leases[lease].status = "active"
            THEN [leases EXCEPT ![lease] = Moved(@, status)]
            ELSE leases

-----------------------------------------------------------------------------
(* Create and Assign. *)

\* Service.Create: one INSERT.
Create(t) ==
  /\ tasks[t].status = "none"
  /\ tasks' = [tasks EXCEPT ![t] = Moved(@, "created")]
  /\ UNCHANGED <<leases, executions, clock, call, tick, faults>>

\* Service.Assign up to its UPDATE: the row is read and the transition allowed.
AssignRead(c, t) ==
  /\ c \in HTTPCaller
  /\ call[c].pc = "idle"
  /\ CanTransition(PilotTaskStateMachine, tasks[t].status, "assigned")
  /\ call' = [call EXCEPT ![c] = [IdleCall EXCEPT !.pc = "assign", !.task = t,
                                                  !.version = tasks[t].version]]
  /\ UNCHANGED <<tasks, leases, executions, clock, tick, faults>>

\* The UPDATE of Assign; affected == 0 is returned as a conflict.
AssignWrite(c) ==
  /\ call[c].pc = "assign"
  /\ UpdatePilotTaskStatus(call[c].task, "assigned", call[c].version)
  /\ call' = [call EXCEPT ![c] = IdleCall]
  /\ UNCHANGED <<leases, executions, clock, tick, faults>>

-----------------------------------------------------------------------------
(* Claim. *)

\* now.Add(s.leaseTimeout).
ExpiresAt(now) == now + LeaseTimeout

\* A lease id nobody has seen: newUUID never returns one twice.
Fresh(l) ==
  /\ ~LeaseExists(l)
  /\ \A t \in Task : tasks[t].leaseId # l
  /\ \A c \in Caller : call[c].lease # l
  /\ tick.lease # l
  /\ \A x \in tick.expired : x.lease # l

\* Service.Claim up to its UPDATE: read the row, take the time, draw a lease
\* id.  The bound on the clock leaves every claim time to expire.
ClaimRead(c, t, e) ==
  /\ call[c].pc = "idle"
  /\ tasks[t].status = "assigned"
  /\ ExpiresAt(clock) < MaxClock
  /\ \E l \in Lease :
       /\ Fresh(l)
       /\ call' = [call EXCEPT ![c] = [IdleCall EXCEPT
                     !.pc = "claim", !.task = t, !.executor = e, !.lease = l,
                     !.version = tasks[t].version, !.expiresAt = ExpiresAt(clock)]]
  /\ UNCHANGED <<tasks, leases, executions, clock, tick, faults>>

ClaimWrite(c) ==
  /\ call[c].pc = "claim"
  /\ UpdatePilotTaskClaim(call[c].task, call[c].executor, call[c].lease,
                          call[c].expiresAt, call[c].version)
  /\ call' = [call EXCEPT ![c] = IF Matches(call[c].task, call[c].version)
                                 THEN [@ EXCEPT !.pc = "createLease"] ELSE IdleCall]
  /\ UNCHANGED <<leases, executions, clock, tick, faults>>

ClaimCreateLease(c) ==
  /\ call[c].pc = "createLease"
  /\ CreateLease(call[c].lease, call[c].task, call[c].executor)
  /\ call' = [call EXCEPT ![c] = IdleCall]
  /\ UNCHANGED <<tasks, executions, clock, tick, faults>>

\* Mutant of CleanupVersion: the row is read again first.
CurrentVersion(c) == tasks[call[c].task].version

\* The claim is cleared at the version this call's own UPDATE produced.
CleanupVersion(c) == call[c].version + 1

\* After CreateLease failed: clear the claim, best effort.
ClaimCleanup(c) ==
  /\ call[c].pc = "cleanup"
  /\ ClearPilotTaskClaim(call[c].task, CleanupVersion(c))
  /\ call' = [call EXCEPT ![c] = IdleCall]
  /\ UNCHANGED <<leases, executions, clock, tick, faults>>

-----------------------------------------------------------------------------
(* Report. *)

\* Mutant of ReportRead: the executor is not compared with the row.
ReportReadAnybody(c, t, e) ==
  /\ call[c].pc = "idle"
  /\ CanTransition(PilotTaskStateMachine, tasks[t].status, "completed")
  /\ call' = [call EXCEPT ![c] = [IdleCall EXCEPT
                !.pc = "report", !.task = t, !.executor = e,
                !.lease = tasks[t].leaseId, !.version = tasks[t].version]]
  /\ UNCHANGED <<tasks, leases, executions, clock, tick, faults>>

\* Service.Report up to its UPDATE: only the executor id is compared with the
\* row, neither the lease nor its expiry.
ReportRead(c, t, e) ==
  /\ call[c].pc = "idle"
  /\ tasks[t].claimedBy = e
  /\ CanTransition(PilotTaskStateMachine, tasks[t].status, "completed")
  /\ call' = [call EXCEPT ![c] = [IdleCall EXCEPT
                !.pc = "report", !.task = t, !.executor = e,
                !.lease = tasks[t].leaseId, !.version = tasks[t].version]]
  /\ UNCHANGED <<tasks, leases, executions, clock, tick, faults>>

ReportWrite(c) ==
  /\ call[c].pc = "report"
  /\ UpdatePilotTaskStatus(call[c].task, "completed", call[c].version)
  /\ call' = [call EXCEPT ![c] =
                IF Matches(call[c].task, call[c].version)
                THEN [@ EXCEPT !.pc = IF call[c].lease # None THEN "getLease" ELSE "record"]
                ELSE IdleCall]
  /\ UNCHANGED <<leases, executions, clock, tick, faults>>

\* GetLease; a lease that is not there (yet) is skipped.
ReportGetLease(c) ==
  /\ call[c].pc = "getLease"
  /\ call' = [call EXCEPT ![c] =
                IF LeaseExists(call[c].lease)
                THEN [@ EXCEPT !.pc = "releaseLease",
                               !.leaseVersion = leases[call[c].lease].version]
                ELSE [@ EXCEPT !.pc = "record"]]
  /\ UNCHANGED <<tasks, leases, executions, clock, tick, faults>>

ReportReleaseLease(c) ==
  /\ call[c].pc = "releaseLease"
  /\ EndLease(call[c].lease, "released", call[c].leaseVersion)
  /\ call' = [call EXCEPT ![c].pc = "record"]
  /\ UNCHANGED <<tasks, executions, clock, tick, faults>>

\* InsertExecution.
ReportRecord(c) ==
  /\ call[c].pc = "record"
  /\ executions' = [executions EXCEPT ![call[c].task] = Append(@, call[c].executor)]
  /\ call' = [call EXCEPT ![c] = IdleCall]
  /\ UNCHANGED <<tasks, leases, clock, tick, faults>>

-----------------------------------------------------------------------------
(* The engine's tick: PreemptExpiredClaims, then Reassign of its results. *)

\* PreemptExpiredClaims lists the expired claims.  A tick that finds none
\* changes nothing.
TickList ==
  /\ tick.pc = "idle"
  /\ ListExpiredClaims(clock) # {}
  /\ tick' = [IdleTick EXCEPT
                !.pc = "loop",
                !.expired = {[task |-> t, version |-> tasks[t].version,
                              lease |-> tasks[t].leaseId] : t \in ListExpiredClaims(clock)}]
  /\ UNCHANGED <<tasks, leases, executions, clock, call, faults>>

\* Mutant of PreemptOne: affected == 0 is not looked at.
PreemptOneUnchecked(x) ==
  /\ tick.pc = "loop"
  /\ x \in tick.expired
  /\ ClearPilotTaskClaim(x.task, x.version)
  /\ tick' = [tick EXCEPT !.pc = "getLease", !.expired = tick.expired \ {x},
                          !.preempted = tick.preempted \cup {x.task}, !.lease = x.lease]
  /\ UNCHANGED <<leases, executions, clock, call, faults>>

\* preemptOne on a listed claim: clear it if the row is still the listed one,
\* otherwise log the conflict and go on.
PreemptOne(x) ==
  /\ tick.pc = "loop"
  /\ x \in tick.expired
  /\ ClearPilotTaskClaim(x.task, x.version)
  /\ tick' = IF Matches(x.task, x.version)
             THEN [tick EXCEPT !.pc = IF x.lease # None THEN "getLease" ELSE "loop",
                               !.expired = tick.expired \ {x},
                               !.preempted = tick.preempted \cup {x.task},
                               !.lease = x.lease]
             ELSE [tick EXCEPT !.expired = tick.expired \ {x}]
  /\ UNCHANGED <<leases, executions, clock, call, faults>>

PreemptGetLease ==
  /\ tick.pc = "getLease"
  /\ tick' = IF LeaseExists(tick.lease)
             THEN [tick EXCEPT !.pc = "revokeLease",
                               !.leaseVersion = leases[tick.lease].version]
             ELSE [tick EXCEPT !.pc = "loop", !.lease = None]
  /\ UNCHANGED <<tasks, leases, executions, clock, call, faults>>

PreemptRevokeLease ==
  /\ tick.pc = "revokeLease"
  /\ EndLease(tick.lease, "revoked", tick.leaseVersion)
  /\ tick' = [tick EXCEPT !.pc = "loop", !.lease = None, !.leaseVersion = 0]
  /\ UNCHANGED <<tasks, executions, clock, call, faults>>

\* Once the list is done, Reassign reads a task preempted by this tick; an
\* illegal transition is logged and the task dropped.
ReassignRead(t) ==
  /\ tick.pc = "loop"
  /\ tick.expired = {}
  /\ t \in tick.preempted
  /\ tick' = IF CanTransition(PilotTaskStateMachine, tasks[t].status, "assigned")
             THEN [tick EXCEPT !.pc = "reassign", !.task = t, !.version = tasks[t].version]
             ELSE [tick EXCEPT !.preempted = tick.preempted \ {t}]
  /\ UNCHANGED <<tasks, leases, executions, clock, call, faults>>

ReassignWrite ==
  /\ tick.pc = "reassign"
  /\ UpdatePilotTaskStatus(tick.task, "assigned", tick.version)
  /\ tick' = [tick EXCEPT !.pc = "loop", !.preempted = tick.preempted \ {tick.task},
                          !.task = None, !.version = 0]
  /\ UNCHANGED <<leases, executions, clock, call, faults>>

\* Mutant of TickEnd: the preempted tasks are not reassigned.
TickEndEarly ==
  /\ tick.pc = "loop"
  /\ tick.expired = {}
  /\ tick' = IdleTick
  /\ UNCHANGED <<tasks, leases, executions, clock, call, faults>>

TickEnd ==
  /\ tick.pc = "loop"
  /\ tick.expired = {}
  /\ tick.preempted = {}
  /\ tick' = IdleTick
  /\ UNCHANGED <<tasks, leases, executions, clock, call, faults>>

-----------------------------------------------------------------------------
(* Time, failing statements and crashes. *)

ClockTick ==
  /\ clock < MaxClock
  /\ clock' = clock + 1
  /\ UNCHANGED <<tasks, leases, executions, call, tick, faults>>

Fault ==
  /\ faults < MaxFaults
  /\ faults' = faults + 1

\* Where a call goes when its next statement returns an error: the failed
\* INSERT of a lease is compensated, errors after the report's UPDATE are
\* ignored, any other error is returned.
AfterError(r) ==
  CASE r.pc = "createLease"                 -> [r EXCEPT !.pc = "cleanup"]
    [] r.pc \in {"getLease", "releaseLease"} -> [r EXCEPT !.pc = "record"]
    [] OTHER                                -> IdleCall

CallStatementFails(c) ==
  /\ call[c].pc # "idle"
  /\ Fault
  /\ call' = [call EXCEPT ![c] = AfterError(@)]
  /\ UNCHANGED <<tasks, leases, executions, clock, tick>>

\* A failed statement of the tick: a claim that cannot be cleared is skipped,
\* a lease that cannot be revoked is left, a failed Reassign is only logged.
PreemptFails(x) ==
  /\ tick.pc = "loop"
  /\ x \in tick.expired
  /\ Fault
  /\ tick' = [tick EXCEPT !.expired = tick.expired \ {x}]
  /\ UNCHANGED <<tasks, leases, executions, clock, call>>

RevokeFails ==
  /\ tick.pc \in {"getLease", "revokeLease"}
  /\ Fault
  /\ tick' = [tick EXCEPT !.pc = "loop", !.lease = None, !.leaseVersion = 0]
  /\ UNCHANGED <<tasks, leases, executions, clock, call>>

ReassignFails(t) ==
  /\ \/ tick.pc = "loop" /\ tick.expired = {} /\ t \in tick.preempted
     \/ tick.pc = "reassign" /\ t = tick.task
  /\ Fault
  /\ tick' = [tick EXCEPT !.pc = "loop", !.preempted = tick.preempted \ {t},
                          !.task = None, !.version = 0]
  /\ UNCHANGED <<tasks, leases, executions, clock, call>>

\* An executor process dies: its call is forgotten, the database is not.
ExecutorCrash(c) ==
  /\ c \in Caller \ HTTPCaller
  /\ call[c].pc # "idle"
  /\ Fault
  /\ call' = [call EXCEPT ![c] = IdleCall]
  /\ UNCHANGED <<tasks, leases, executions, clock, tick>>

\* The scheduler process dies and restarts: its handlers and its tick are lost.
SchedulerCrash ==
  /\ tick.pc # "idle" \/ \E c \in HTTPCaller : call[c].pc # "idle"
  /\ Fault
  /\ tick' = IdleTick
  /\ call' = [c \in Caller |-> IF c \in HTTPCaller THEN IdleCall ELSE call[c]]
  /\ UNCHANGED <<tasks, leases, executions, clock>>

-----------------------------------------------------------------------------
AssignCall(c) == (\E t \in Task : AssignRead(c, t)) \/ AssignWrite(c)

ClaimCall(c) ==
  \/ \E t \in Task, e \in Executor : ClaimRead(c, t, e)
  \/ ClaimWrite(c)
  \/ ClaimCreateLease(c)
  \/ ClaimCleanup(c)

ReportCall(c) ==
  \/ \E t \in Task, e \in Executor : ReportRead(c, t, e)
  \/ ReportWrite(c)
  \/ ReportGetLease(c)
  \/ ReportReleaseLease(c)
  \/ ReportRecord(c)

EngineTick ==
  \/ TickList
  \/ \E x \in tick.expired : PreemptOne(x)
  \/ PreemptGetLease
  \/ PreemptRevokeLease
  \/ \E t \in tick.preempted : ReassignRead(t)
  \/ ReassignWrite
  \/ TickEnd

Failure ==
  \/ \E c \in Caller : CallStatementFails(c) \/ ExecutorCrash(c)
  \/ \E x \in tick.expired : PreemptFails(x)
  \/ RevokeFails
  \/ \E t \in tick.preempted : ReassignFails(t)
  \/ SchedulerCrash

Next ==
  \/ \E t \in Task : Create(t)
  \/ \E c \in Caller : AssignCall(c) \/ ClaimCall(c) \/ ReportCall(c)
  \/ EngineTick
  \/ ClockTick
  \/ Failure

Spec == Init /\ [][Next]_vars

\* Time passes and the engine keeps ticking; nothing is promised of callers,
\* which may stop between any two statements.
FairSpec == Spec /\ WF_vars(ClockTick) /\ WF_vars(EngineTick)

-----------------------------------------------------------------------------
(* Properties. *)

\* A task's execution is recorded at most once, only when the task is
\* completed, and for the executor that held it: two reports, or a report and
\* a preemption followed by another executor's claim, never both count
\* (Report's UPDATE before InsertExecution).
ExecutionCredited ==
  \A t \in Task : executions[t] # <<>> =>
    /\ tasks[t].status = "completed"
    /\ executions[t] = <<tasks[t].claimedBy>>

\* The lease table never contradicts the task table about a claim that is
\* still standing: the lease of a claimed task has not been revoked or
\* released; a released lease is that of the executor whose report completed
\* the task; a revoked lease is no task's lease any more (the two-statement
\* updates of Report and preemptOne, whatever overtakes them).
LeaseFollowsTask ==
  /\ \A t \in Task : tasks[t].status = "claimed" =>
       leases[tasks[t].leaseId].status \in {"none", "active"}
  /\ \A l \in Lease : leases[l].status = "released" =>
       \E t \in Task : /\ t = leases[l].task
                       /\ tasks[t].status = "completed"
                       /\ tasks[t].leaseId = l
                       /\ tasks[t].claimedBy = leases[l].executor
  /\ \A l \in Lease : leases[l].status = "revoked" =>
       \A t \in Task : tasks[t].leaseId # l

\* A claim is taken away only after it has expired, or by the very Claim call
\* that made it, when it could not write its lease: a tick working from an
\* old list and a late cleanup never hit somebody else's claim.
ClaimHonoured ==
  [][\A t \in Task :
       tasks[t].status = "claimed" /\ tasks'[t].leaseId # tasks[t].leaseId =>
         \/ tasks[t].expiresAt < clock
         \/ \E c \in Caller : call[c].pc = "cleanup" /\ call[c].lease = tasks[t].leaseId]_vars

\* The service implements TaskOwnership.
Promise == INSTANCE TaskOwnership WITH
  status <- [t \in Task |-> tasks[t].status],
  owner  <- [t \in Task |-> tasks[t].claimedBy],
  credit <- executions

\* Every step of the service, failures included, is a step the promise allows.
KeepsPromise == Promise!Spec

\* A claim does not last for ever, whatever became of its executor: it is
\* reported, cleaned up, or expires and is preempted.
ClaimResolved ==
  \A t \in Task : tasks[t].status = "claimed" ~> tasks[t].status # "claimed"

\* As long as nothing fails, the tick that preempts a task also offers it
\* again.
FaultFreeReassignment ==
  \A t \in Task : tasks[t].status = "preempted" /\ faults = 0 ~>
                    tasks[t].status # "preempted" \/ faults > 0

\* "lease expired -> reclaim -> reassign" (engine.go, step 3 of the tick),
\* also when a statement or a process fails once in between.
PreemptedIsReassigned ==
  \A t \in Task : tasks[t].status = "preempted" ~> tasks[t].status # "preempted"

\* "the lease expires after leaseTimeout if not reported" (Claim).
UnreportedLeaseEnds ==
  \A l \in Lease : leases[l].status = "active" ~>
    leases[l].status # "active" \/ tasks[leases[l].task].status = "completed"
=============================================================================
