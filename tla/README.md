# PortCoord: a TLA+ model of the port coordination backend

PortCoord coordinates ship arrivals: declarations, berthing windows, cargo work orders, pilot and
tug tasks, daily quotas and handovers between parties. Two processes share one SQLite database:
the *scheduler* serves HTTP and runs a scheduling engine that ticks, *executors* poll for tasks,
claim and report them. This directory models what the two do to each other through the database.

## How the code works

Every service operation has one shape: read a row, test the status against a state machine, run
`UPDATE ... WHERE id = ? AND version = ?`, answer `CONFLICT` when no row was affected, then do
follow-up writes whose errors are often ignored, then write an audit row. Each SQL statement is a
transaction of its own: `Store.InTx` exists and is called by no service. SQLite serialises the
statements, so **one action is one SQL statement**, and what a method remembers between two of
them (the version it read, the lease id it drew) is state of the caller. A call may be overtaken
between any two statements, a statement may fail, a process may die.

## Inventory

| Component | State | Operations | Hard parts | Correct when |
| --- | --- | --- | --- | --- |
| Pilot/tug tasks (`pilottask`, `pilottask_repo`, `lease_repo`) | `pilot_tug_tasks`, `task_leases`, `execution_records` | Create, Assign, Claim, Report, PreemptExpiredClaims, Reassign | claim and lease in two transactions, late reports, stale tick list, crashes | one owner at a time, credited once, claims honoured until they expire, claims end, leases follow claims |
| Quotas (`quota`, `quota_repo`) | `quotas`, one row per type and day | Reserve, Commit, Release, row creation | concurrent readers of one row, bounded retries, amounts nobody tests | reservations never overdraw the limit (and, as a limit promises, nothing does), every grant counts once, conflicts are real |
| Declarations (`declaration`, `declaration_repo`) | `arrival_declarations`, `idempotency_records` | Submit, Cancel, UpdatePriority, AdvanceQueued | eight statements across four tables, idempotency, quota given back, a quota row shared with other clients | one declaration per key, every declaration paid for unless others release its amount, promotions in order of priority |
| Berthing (`berthing`, `window_repo`) | `berthing_windows`, `escalation_records` | Create, BatchAllocate, Release, ForceIntervene, ActivateEffective, EscalateOverdue | batch without a transaction, tick against supervisor, time | only legal transitions, the escalation history is true, overdue windows escalate (and, as its comment says, batches are whole or absent) |
| Work orders (`workorder`) | `work_orders` | Create, Assign, StartProgress, Complete, Cancel | Complete is two updates | a completed order has the volume its completer reported |
| Handovers (`handover`) | `handover_documents` | Create, Confirm, Reject | two answers at once | decided once |
| Engine (`engine`) | running flag, context, wait group, statistics | Start, Stop, tick (activate, escalate, preempt, advance) | Start against Stop, partial tick | the loop has ended when Stop returns, Stop returns |
| Worker (`worker`) | the same | Start, Stop, poll, ClaimAndExecute | many executors, lost claims, stop inside a poll | every claim it made is reported or expires, no new claims after a stop |
| Store (`store`) | the database | one SQL statement per method, InTx, Migrate | concurrent migrations, a missing directory | each version applied once, and no engine that found the files on a part of them |
| Audit (`audit`) | `audit_logs` | Record | none: best effort, read by no service | - |
| HTTP server, entry points (`server`, `cmd/`) | `httpServer`, signal goroutine | decode, call, encode; start, shut down | shutdown order | a process told to stop ends, after its loop |
| Config, logging, clock, errors | none | - | - | - |

Calls go server -> services -> store, engine -> `berthing`, `pilottask`, `declaration`, and
worker -> `pilottask`. `declaration` also writes quotas and handovers. There are no messages or
callbacks: processes meet only in the database.

## Modules

| Module | Is |
| --- | --- |
| `StateMachines` | transition tables of `domain/state_machine.go` |
| `PilotTask` | `pilottask` over its three tables, step 3 of the engine's tick, time, failures and crashes |
| `TaskOwnership` | abstract: what the task service promises (one owner, one credit) |
| `PilotTask_proofs`, `PilotTaskLease_proofs` | theorems about `PilotTask`; about leases (extends the first) |
| `QuotaTable` | one row of `quotas` and the statements of `quota_repo.go` |
| `Quota` | `quota` over `quotas`: the three retry loops and the creation of the day's row (extends `QuotaTable`) |
| `QuotaLedger` | abstract: an allowance whose grants are atomic |
| `Quota_proofs` | theorems about `Quota` |
| `Declaration` | `declaration` over declarations, the day's quota, idempotency records and documents, step 4 of the tick (extends `QuotaTable`, instantiates `Handover`) |
| `Handover` | `handover`: documents and their decisions |
| `Declaration_proofs`, `DeclarationPaid_proofs` | theorems about `Declaration` and its documents; about the sum the quota covers (extends the first) |
| `Berthing` | `berthing` over windows and escalation records, steps 1 and 2 of the tick |
| `Berthing_proofs` | theorems about `Berthing` |
| `WorkOrder` | `workorder` |
| `WorkOrder_proofs` | theorems about `WorkOrder` |
| `Migration` | `Migrate` of `store/db.go` by several processes |
| `StoppableLoop` | Start, Stop and loop of `engine` and `worker`, as two goroutines run them |
| `Processes` | the programs of `cmd/`: composes `Migration` and `StoppableLoop` with signals, shutdown, exit and crashes |
| `Processes_proofs` | theorems about `Processes` and the two modules it composes |
| `MC...` | instances for TLC |

The four steps of the tick work on tables of their own (claims; windows; declarations), so each is
modelled beside the clients of its tables and never together with the others.

### PilotTask

`tasks`, `leases` and `executions` are the tables, with the columns that a step tests. `call[c]`
is the stack of one goroutine inside Assign, Claim or Report: `pc` names the statement it runs
next. Callers in `HTTPCaller` live in the scheduler, the others in executors; any caller may use
any executor id, since Report takes it from its client. `tick` is the engine's tick: the list of
expired claims it read, the tasks it has preempted, and where it stands. Actions are named
*Operation* + *statement* (`ClaimWrite` is the UPDATE of Claim, `ReportRecord` its InsertExecution);
a read and the tests that follow it are one action. `CallStatementFails`, `PreemptFails`,
`RevokeFails` and `ReassignFails` let the next statement return an error and go where the code
goes from there; `ExecutorCrash` and `SchedulerCrash` forget the callers of a process and keep the
database. The clock counts the seconds in which the code stores and compares times.

### Quota

`quotas` holds one row per (type, day); version 0 means the row does not exist. `call[c]` is a
goroutine inside Reserve, Commit or Release: attempt counter, version read last, and two history
fields (`since`, `busy`) used by one property only. The INSERT of GetOrCreateQuota may lose to
another and falls back to the row that won. Amounts are any integers: Reserve refuses those below 1,
Commit and Release test nothing, so a release of a negative amount adds to what is reserved, and a
commit of one takes from what is committed, which may fall below 0. `raised` is history: what
such releases added, per row. Integers have no width here: overflow is left out. `ReserveBusy` is
`IsRetryableContention`. `Return` ends a call at any point: with its answer, with the error of any failed statement, or because the
process died; the row stays as the last statement left it. The reservation loop of the declaration
service (`declaration/submit.go`) is the same statement for statement.

### Declaration

`declarations`, `quota` (the row of the day), `records` and `handovers` are the tables. `call[c]`
is a handler inside Submit, Cancel or UpdatePriority, `tick` the engine between the two statements
of AdvanceQueued. Submit runs `Lookup` (idempotency record), `Reserve` (the whole retry loop as
one action, at the instant `Quota_proofs` shows to decide it), `Reread` (utilization, hence queued
or accepted), `Insert` (unique index on the key), `SubmitHandover`, `InsertIdempotency`;
`GiveBack` is the release after a failed INSERT, at the version the code passes. `SubmitFails`
and `Drop` stop it anywhere. `ApiReserve`, `ApiCommit` and `ApiRelease` are the quota service's own
clients on the same row, any amount of them that the statements let through; `direct` is history:
what these clients reserved less what they released. A record that has expired is ignored but keeps its key. `replies` and
`tick.seen` are history. Things the model keeps as the code has them, which a reader may not expect:

- the release after a failed INSERT asks for version `q.Version+1`, so it matches only when somebody
  else wrote once in between; otherwise the amount stays reserved for the day;
- a cancelled declaration keeps its reservation;
- nothing says whose a reservation is, so a client that releases more than it reserved takes it from
  a declaration: `DeclarationsPaid` compares the row with the declarations plus `direct`, which
  says that a declaration is uncovered by such releases only, and by no more than they took;
- one declaration is promoted per tick and waiting improves no priority. Better submissions, or an
  edit between the two statements of every tick, may keep a declaration queued for ever:
  `FirstIsPromoted` says of the head of the queue that it does not stay there unchanged, and of the
  others nothing can be said;
- a submission answered "rejected" stores that answer under its key, and a retry whose record has
  expired may be told something else: two answers for one key may differ, and a retry that races
  with the first call gets an error. What does hold, and is checked, is that all answers for a key
  that name a declaration name the same one (the comment at `declaration_test.go:228` claims it of
  successful results; the test itself demands only one);
- a priority out of range is stored as it is, since `validateSubmit` corrects a copy.

### Handover

Confirm and Reject differ in the status they write and are one operation with a decision.
`deciding[p]` is a party between statements; "done" keeps its answer for one more step, so that
the property can speak of it. Both ways a document comes to be (`SubmitHandover`, `PostHandover`)
are actions of `Declaration`. The foreign key admits declarations only, whatever entity type the
document claims.

### Berthing

`windows` and `escalations` are the tables, the latter as the sequence of levels per window.
`call[c]` is a handler: Create is a batch of one, a batch inserts its rows one action each;
Release is ForceIntervene to "released". `tick` holds the rows listed by ActivateEffective and
then by EscalateOverdue, and between the UPDATE and the INSERT of an escalation the row it is
about. The order of the rows is by deadline. The tick writes without testing the transition: what
keeps it legal is the version it listed. An allocated window whose deadline passes before a tick
activates it is left to clients: it is in the model, and no property speaks of it.

### WorkOrder

All operations read and test, then UPDATE; Complete writes the volume first if it is positive, and
goes on with the version it has just produced. `reported` is history. A completion that reports no
volume after one that stopped half-way shows the earlier one's volume: the property says so. Assign
receives an assignee that no statement stores.

### Migration, StoppableLoop, Processes

`applied` is `schema_migrations`, `migrating[p]` a process inside `Migrate`: the check of a version
is one action, the transaction that applies and records it another. Files are those of `migrations/`
with numbers 1, 2, ...; they are looked for in the directory the process was started in, and
`migrationFiles` takes a missing one for no files: `MigrateStart` chooses, and `NoFiles` is a
success like `Migrated`. So a scheduler started in another directory opens an empty database, serves
and ticks, although `Open` is documented to run the migrations, and the migrate command prints that
they were applied; `SchemaOfFiles` says that this is the only way to such an engine.

`main[p]` and `sig[p]` are the goroutines of a process, `loop[p]` the goroutine of its engine or
worker, at the places where they touch shared fields. `Engine.Start` and `Worker.Start` are the same
but for the engine's last test (`StartCheck`) and its detached context. The field `cancel` is written
by Start and read by Stop without synchronisation: `StopCancel` may miss it while Start is under way.
`select` may take a tick although the context is done. `End` forgets a process's memory; it is its
exit and its crash. After one signal no other is read.

The instance shows why two properties ask for a signal that comes after Start has returned
(`orderly`): before that, Stop can miss the cancel function and wait for a loop that nobody cancels,
and `Server.Shutdown` can find no `httpServer` (it is assigned in `Server.Start`), do nothing, and
leave `ListenAndServe` running with no goroutine left to hear a second signal. HTTP requests are not
processes here: `ListenAndServe` returns when Shutdown begins and main exits 500 ms later, so a
longer request is cut off between statements, which the other modules allow for by letting any
handler stop between any two of its statements.

### Mutants

Definitions marked "Mutant of X" are X as a plausible slip would have it (a missing version test,
a forgotten status, two swapped arguments). They are used by no specification: each property is
known to fail when X is replaced by its mutant.

## Runs

| Run | Instance | Checks | Shows |
| --- | --- | --- | --- |
| `pilottask` | 1 task, 2 executor ids, 3 leases, 2 HTTP callers and 1 executor, lease of 1 s, clock to 4, 1 fault; 1.4 million states | `TypeOK`, `ExecutionCredited`, `LeaseFollowsTask`, `ClaimHonoured`, `KeepsPromise` | safety under every interleaving, with one failure or crash anywhere |
| `pilottask_live` | 2 tasks, 1 executor id, 2 leases, 1 HTTP caller, 1 executor, clock to 3, 1 fault; 451 thousand states | `LeaseFollowsTask`, `ClaimHonoured`, `ClaimResolved`, `FaultFreeReassignment` | a tick that works through a list of two, the second entry growing stale; claims end although callers may stop for ever; without faults preempted tasks are offered again |
| `pilottask_stranded` | 1 task, 2 executor ids, the rest as above | `PreemptedIsReassigned` is violated | see Findings |
| `pilottask_orphan_lease` | the same, no faults | `UnreportedLeaseEnds` is violated | see Findings |
| `quota` | 1 row, 3 callers, amounts -1, 1 and 2, limit 3, 1 retry (2 attempts), calls start below version 3; 1.3 million states | `TypeOK`, `LimitKept`, `ConflictMeansContention`, `KeepsLedger` | three loops racing on a row, including its creation, exhaustion, conflicts, errors, and amounts below 0 |
| `quota_negative` | 1 row, 2 callers, limit 2 | `NeverOverbooked` is violated | see Findings |
| `declaration` | 2 ids, 2 clients, 1 key or none, volumes 1 and 5 of a limit of 6, priorities 1 and 11, amounts -1 and 1 from the quota API, 1 expiry; 3.4 million states | `TypeOK`, `DeclarationsPaid`, `AnswersNameOneDeclaration`, `OnlyLegalMoves`, `PromotedInOrder` | submissions racing for quota and for a key, with failures, expiry, edits, the tick and other clients of the quota |
| `declaration_live` | 2 ids, 1 client, priorities 1 and 2, 1 document, 2 parties; 297 thousand states | `DecisionStands`, `FirstIsPromoted` | the head of the queue is promoted, changed or overtaken; one of two decisions wins |
| `berthing` | 2 windows, 1 client, 1 period, clock to 2, batches of 2, levels to 2, 1 fault; 355 thousand states | `TypeOK`, `HistoryFollowsLevel`, `OnlyLegalMoves`, `OverdueEscalates` | a tick working through two listed windows against a client, with one failure |
| `berthing_batch` | the same | `BatchAllOrNothing` is violated | see Findings |
| `workorder` | 1 order, 3 clients, volumes -1 to 2; 19 thousand states | `TypeOK`, `CompletedAsReported`, `ClosedStands` | three handlers on one order, any of them stopping half-way |
| `processes` | 1 scheduler, 1 executor, 1 migrate command, 2 migrations, batches of 1, 3 starts; 425 thousand states | `TypeOK`, `NothingCutOff`, `StopsClaiming`, `AppliedExactlyOnce`, `SchemaOfFiles`, `EndsAfterSignal` | concurrent migrations, with and without the files; crashes and restarts, signals at any moment |

**Bounds.** Most hazards of `PilotTask` are about one task, since no statement touches two; what is
shared is the tick, which lists several claims at once and works through them (`pilottask_live`).
Three leases in `pilottask` give a claim that is preempted, claimed again and preempted again while
the first call is still on its way; the clock allows for as many expiries (`ClaimRead` starts only claims that can still expire). Behaviours
with several failures are covered by the proofs, not by the runs. Rows of different days share nothing,
so one quota is enough; with limit 3 and amounts -1, 1 and 2 grants, refusals, an exact fit and an
overdrawn row all occur, and with three callers and two attempts both a conflict and a success after a conflict.
`MaxVersion` bounds the version at which a call starts, so the writes of all calls under way still
follow. All runs switch the deadlock check off: the bounds
on clock, leases and versions make the instances stop, and an idle system may.

In `Declaration` the volumes and the limit give every outcome: an exact fit, a refusal, a queued
declaration (above 80 %) and an accepted one; two clients and two ids let both submissions of a
retry be under way, and one expiry lets a third find an expired record. Versions to 3 allow for
reservation, release and commit, and edits to version 2 for one overtaken write each.
`declaration_live` has two priorities, so that the second declaration overtakes the first, is
overtaken by it, or ties; `FirstIsPromoted` does not rest on its bounds, which only limit how often
that happens. In `Berthing`
one period suffices to pass from allocated to overdue within the clock, two windows make lists grow
stale while the tick works through them, two levels let an escalation repeat. Statements touch one
order each, so `WorkOrder` needs one order and enough handlers for a completion, its rival and a
cancellation. Three starts in `processes` are all three programs side by side, or two of them and a
restart after a crash half-way, or one restarted twice; two migrations let a process die between
them. A batch of one makes the worker claim anew with every poll, so a stop can meet any of several.

**Symmetry.** Tasks, executor ids, lease ids, callers, declarations, keys, documents and parties are
interchangeable (no `CHOOSE`, no order); runs with a liveness property use none.

**Fairness.** `PilotTask` and `Berthing` assume weak fairness of the engine's tick as a whole
(`PilotTask` also of the clock): `Engine.loop` runs a tick on every ticker event until it is stopped
and a tick runs to its end; failures are bounded by `MaxFaults`. `Declaration` assumes weak fairness
of the tick's reading and strong fairness of its UPDATE, which may fail now and then but not every
time. Nothing is assumed of callers: an executor may die, and an HTTP client need not come back. A
crash of the scheduler is a restart, after which the engine ticks again. `Processes` assumes that Go
runs every goroutine, that ticks and polls come to an end, and strong fairness of the loop's
`ctx.Done()` case, since `select` picks at random among the cases that are ready.

## Theorems

Every safety property that a run checks is also a theorem, for every set of tasks, executors,
leases, callers, declarations, windows, orders, parties and processes, every timeout, limit and
batch size, and any number of faults, restarts and retries. All proofs are by an inductive
invariant.

| Theorem | Property |
| --- | --- |
| `PilotTask_proofs!TypeCorrect` | `TypeOK` |
| `PilotTask_proofs!CreditedOnce` | `ExecutionCredited` |
| `PilotTask_proofs!ClaimsHonoured` | `ClaimHonoured` |
| `PilotTask_proofs!ServiceKeepsPromise` | `KeepsPromise` (refinement of `TaskOwnership`) |
| `PilotTaskLease_proofs!LeasesFollowTasks` | `LeaseFollowsTask` |
| `Quota_proofs!QuotaTypeCorrect` | `TypeOK` |
| `Quota_proofs!OnlyReleasesOverdraw` | `LimitKept` |
| `Quota_proofs!ConflictsAreReal` | `ConflictMeansContention` |
| `Quota_proofs!QuotaKeepsLedger` | `KeepsLedger` (refinement of `QuotaLedger`) |
| `Declaration_proofs!DeclTypeCorrect` | `TypeOK` |
| `Declaration_proofs!OneAnswer` | `AnswersNameOneDeclaration` |
| `Declaration_proofs!DecisionsStand` | `DecisionStands` |
| `Declaration_proofs!DeclarationsMoveLegally` | `OnlyLegalMoves` |
| `Declaration_proofs!QueueInOrder` | `PromotedInOrder` |
| `DeclarationPaid_proofs!QuotaCoversDeclarations` | `DeclarationsPaid` |
| `Berthing_proofs!BerthTypeCorrect` | `TypeOK` |
| `Berthing_proofs!HistoryTrue` | `HistoryFollowsLevel` |
| `Berthing_proofs!LegalForGood` | `OnlyLegalMoves` |
| `WorkOrder_proofs!TypeCorrect` | `TypeOK` |
| `WorkOrder_proofs!VolumeOfCompletion` | `CompletedAsReported` |
| `WorkOrder_proofs!ClosedForGood` | `ClosedStands` |
| `Processes_proofs!ProcessTypeCorrect` | `TypeOK` |
| `Processes_proofs!MigrationsOnce` | `AppliedExactlyOnce` |
| `Processes_proofs!EngineAfterMigration` | `SchemaOfFiles` |
| `Processes_proofs!LoopEndsFirst` | `NothingCutOff` |
| `Processes_proofs!OneLateClaim` | `StopsClaiming` |

The properties are seldom inductive. What a statement does depends on what its caller read some
statements ago, so the invariants say what each caller *knows*, and nearly all of them have this
clause: a call never holds a version that the row has not reached, and while the row still has the
version it holds, the row is as it was read. Each UPDATE then either finds another version and
changes nothing, or finds the row it expects.

*PilotTask.* `TypeInv` strengthens the types by what a caller at each `pc` holds (a claiming call
has an executor and a lease id, and so on). `LockInv` is the clause above: assigned for a claim,
claimed by that executor for a report, claimed with that lease and already expired for a listed
claim; at most one call is between a report's UPDATE and its InsertExecution, and while there is
one the task is completed and not yet credited. Lemmas summarise what a step does to a task row
(`Effect`), from which the two step properties follow.

*Leases.* Claim, Report and `preemptOne` each write the two tables in two transactions, so
`LeaseFollowsTask` rests on where a lease id can be. `LeaseInv` says: no two tasks have the same
lease and a claimed task has one; a call that has drawn an id and not yet inserted the lease is the
only one with that id, the lease does not exist yet, and no row but its own task's has the id; an
active lease names the task and executor of any row that has it; the lease remembered by a report
or by the tick's list is the row's while the version stands; the lease a tick is about to revoke is
on no row and in no claim under way, the one a report is about to release is on a completed row.

*Quota.* `QuotaInv` adds to the types `LimitKept` (an UPDATE of Reserve tests what is left in the
statement that takes it, a commit moves, a release takes or raises) and `CallInv`: at each `pc`, how the
version seen, the version at the start of the call, the attempts made and the busy errors relate
(every completed attempt that was not busy saw the version grow). The refinement shows that the
UPDATE is the instant of a grant and the SELECT that of a refusal.

*Declaration.* `DeclInv`: no two declarations have one key (the unique index); an answer that was
given or stored under a key and names a declaration names an existing one with that key (hence all
name the same); a submission holds no id before its INSERT and its own declaration after it; an
edit knows the row it read and a cancellation is still legal while its version stands; the head the
tick listed is still queued while its version stands, and was before every other declaration it
listed; a party deciding a document has a pending document or a lost version before it, and a party
told it won finds its decision there.

*The sum.* `DeclarationsPaid` compares a quota with a sum over the declarations and open
submissions. The model takes the sum from the community modules, as a fold that draws elements with
`CHOOSE`; the first half of `DeclarationPaid_proofs` shows by well-founded induction over the
subsets of a finite set that the result does not depend on the order, so that adding or removing
one element adds or removes its volume. `PaidInv` adds to `DeclInv` that nothing is booked on a row
that does not exist and that the declarations and submissions that exist are finite in number: the
sets of identifiers and clients may be infinite. The sum then follows each statement: a reservation
adds a submission, its INSERT moves the volume from submission to declaration, a failed INSERT or a
dropped handler only lets go of it, and a request to the quota API moves the row and `direct` by the
same amount, or neither.

*Berthing.* `BerthInv` is the clause above for handlers and for each row the tick listed (same
level, and a status from which the tick's blind UPDATE is legal). A window about to get its record
has a higher level than the record will name, and no record of that level or above yet; a window
that does not exist has no history.

*WorkOrder.* `OrderInv`: the transition that was tested is still allowed while the version stands,
and a completion between its two UPDATEs finds its own volume there.

*Processes.* `ProcessInv` has four parts. The versions applied are a prefix and a migrating process
has seen all versions before its own; main gets past its migration only with a loop, a scheduler
only with the schema complete or without files; main, signal goroutine, loop, flag, wait group and context of a
process fit together (the wait group counts exactly while the loop has not ended, a context is
cancelled only once the signal goroutine is in Stop); of a process signalled while serving, that
Stop finds the flag set, and gets past its wait only when the loop is done; of a worker, that the
one late claim had been decided on before.

Assumptions are those the modules state on their constants, all of them evaluated by the runs:
a null value is no identifier, a timeout is at least a second, amounts are integers and volumes
natural numbers (`validateSubmit` refuses others), a configured limit is not negative, a process
has one program. No theorem assumes a constant set to be finite.

**Model-checked only:** the liveness properties `ClaimResolved`, `FaultFreeReassignment`,
`FirstIsPromoted`, `OverdueEscalates` and `EndsAfterSignal`, which the proof system does not reach
(ENABLED and fairness), and the four violations below.

## Findings

*A preempted task can be stranded* (`pilottask_stranded`). The engine comments its third step
"lease expired -> reclaim -> reassign". It reassigns only what the same tick has just preempted and
logs a failure; no later tick looks for preempted tasks. One failed `Reassign`, a crash of the
scheduler, or the cleanup in `Claim` leaves the task preempted until somebody calls Assign by hand.

*A lease can outlive everything* (`pilottask_orphan_lease`). Claim's comment calls the claim atomic
and says the lease expires if not reported. Claim and lease are written by two transactions: a
claim that is preempted in between leaves a lease that is inserted active afterwards and that
nothing ends, since leases are ended only through the task row that names them.

*A batch is not all or nothing* (`berthing_batch`). BatchAllocate's comment promises one transaction
and a rollback; the rows are inserted one by one and a failing one leaves its predecessors.

*A limit can be passed* (`quota_negative`). The README calls the rows of `quotas` limits and a test of
the store demands that what is reserved does not exceed one. `Reserve` insists on a positive amount;
`Release` and its handler do not, and `reserved_amount >= ?` holds of every negative number: a
release of -1 on a full row reserves one more than there is. `LimitKept` is what remains true:
reservations and commits never pass the limit, however they race.

## Not modelled, and the plan

Left out: audit rows, listings, counts and pagination (they change nothing and no step
reads them), HTTP decoding, encoding and middleware, configuration, logging, the statistics of engine
and worker (no step reads them; the tick updates them through a pointer outside their lock, and a lost claim
makes the worker count a task it did not execute), the
ticker (`realTicker.Stop` resets it to a millisecond instead of stopping it). SQLite is taken as
serialising single statements and enforcing keys. `InTx`, `UpdateQueuePosition`,
`CleanExpiredIdempotency` and `ListExpiredLeases` are called by nobody. Times are integers in one time
zone, where the code compares formatted times as strings. Overflow of amounts and volumes is left
out. Queue positions and the responsible party of an escalated window
(computed anew each time from a column that no statement updates) are read by no step.

What is left:

1. An abstract specification of what Submit promises under a key (a declaration comes into being at
   most once and all answers follow from it) and one of a supervised window, with refinement proofs
   from `DeclInv` and `BerthInv`, in the manner of `TaskOwnership` and `QuotaLedger`.
2. That the reservation of `Declaration`, one action there, is what `Quota` does in several: the two
   are related today by `QuotaLedger` and by their common module `QuotaTable`, not by a theorem.
