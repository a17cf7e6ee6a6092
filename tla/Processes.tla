------------------------------ MODULE Processes ------------------------------
(***************************************************************************)
(* The programs of cmd/ on one database: schedulers (migrate, serve HTTP,  *)
(* run the engine), executors (run the worker) and runs of the migrate     *)
(* command; how they start, are told to stop, and die.                     *)
(*                                                                         *)
(* A process has two goroutines here, main and the one that waits for      *)
(* SIGTERM, and the loop of its engine or worker.  HTTP requests are not   *)
(* modelled: main does not wait for them (see the hazards).                *)
(***************************************************************************)
EXTENDS Migration, StoppableLoop

CONSTANTS
  Migrator,   \* runs of cmd/migrate
  MaxStarts   \* bound: how many processes are started

ASSUME ProcessesAssumption ==
  /\ Process = Engine \cup Worker \cup Migrator
  /\ Migrator \cap (Engine \cup Worker) = {}
  /\ MaxStarts \in Nat

VARIABLES
  http,     \* the field httpServer of each scheduler: nil, up or shut down
  orderly,  \* history: the signal came when Start had returned
  starts    \* how many processes have been started

ownVars == <<http, orderly, starts>>
loopVars == <<main, sig, objectVars, bodyVars>>
vars == <<migrationVars, loopVars, ownVars>>

MainPc == {"off", "migrate", "ready", "serving", "sleep"} \cup StartPc
SigPc == {"none", "notified", "shutdown", "gone"} \cup StopPc

TypeOK ==
  /\ MigrationTypeOK /\ LoopTypeOK
  /\ main \in [Process -> MainPc]
  /\ sig \in [Process -> SigPc]
  /\ http \in [Looping -> {"nil", "up", "down"}]
  /\ orderly \in [Looping -> BOOLEAN]
  /\ starts \in 0..MaxStarts

Init ==
  /\ MigrationInit /\ LoopInit
  /\ main = [p \in Process |-> "off"]
  /\ sig = [p \in Process |-> "none"]
  /\ http = [p \in Looping |-> "nil"]
  /\ orderly = [p \in Looping |-> FALSE]
  /\ starts = 0

\* The process is over, whatever it was doing: its memory is gone.
End(p) ==
  /\ MainTo(p, "off") /\ SigTo(p, "none")
  /\ migrating' = [migrating EXCEPT ![p] = NotMigrating]
  /\ IF p \in Looping
     THEN /\ running' = [running EXCEPT ![p] = FALSE]
          /\ cancelSet' = [cancelSet EXCEPT ![p] = FALSE]
          /\ ctx' = [ctx EXCEPT ![p] = "none"]
          /\ mainCtx' = [mainCtx EXCEPT ![p] = "live"]
          /\ wg' = [wg EXCEPT ![p] = 0]
          /\ LoopTo(p, "none")
          /\ left' = [left EXCEPT ![p] = 0]
          /\ overshoot' = [overshoot EXCEPT ![p] = 0]
          /\ http' = [http EXCEPT ![p] = "nil"]
          /\ orderly' = [orderly EXCEPT ![p] = FALSE]
     ELSE UNCHANGED <<objectVars, bodyVars, http, orderly>>
  /\ UNCHANGED <<applied, effects, starts>>

-----------------------------------------------------------------------------
(* The goroutine main. *)

\* Configuration and the database: only executors open it without Migrate.
Launch(p) ==
  /\ main[p] = "off" /\ starts < MaxStarts
  /\ starts' = starts + 1
  /\ IF p \in Worker
     THEN MainTo(p, "ready") /\ UNCHANGED migrationVars
     ELSE MainTo(p, "migrate") /\ MigrateStart(p)
  /\ UNCHANGED <<sig, objectVars, bodyVars, http, orderly>>

Migrate(p) ==
  /\ main[p] = "migrate"
  /\ CheckVersion(p) \/ ApplyVersion(p) \/ MigrateFails(p)
  /\ UNCHANGED <<loopVars, ownVars>>

\* Open has succeeded; the migrate command has nothing more to do.
Opened(p) ==
  /\ main[p] = "migrate" /\ migrating[p] \in {Migrated, NoFiles}
  /\ IF p \in Engine
     THEN /\ MainTo(p, "ready")
          /\ UNCHANGED <<migrationVars, sig, objectVars, bodyVars, ownVars>>
     ELSE End(p)

\* Open has failed: os.Exit(1).
OpenFailed(p) == main[p] = "migrate" /\ migrating[p] = MigrateError /\ End(p)

\* signal.Notify and go func.
Notify(p) ==
  /\ main[p] = "ready" /\ sig[p] = "none"
  /\ SigTo(p, "notified")
  /\ UNCHANGED <<migrationVars, main, objectVars, bodyVars, ownVars>>

\* Server.Start assigns httpServer before it starts the engine.
Begin(p) ==
  /\ main[p] = "ready" /\ sig[p] # "none"
  /\ http' = IF p \in Engine THEN [http EXCEPT ![p] = IF http[p] = "nil" THEN "up" ELSE http[p]] ELSE http
  /\ MainTo(p, "start")
  /\ UNCHANGED <<migrationVars, sig, objectVars, bodyVars, orderly, starts>>

StartLoop(p) == Start(p, "serving") /\ UNCHANGED <<migrationVars, ownVars>>

\* ListenAndServe returns when the server is shut down, the executor's main
\* when its context is done; both then sleep and return.
Return(p) ==
  /\ main[p] = "serving"
  /\ p \in Engine => http[p] = "down"
  /\ p \in Worker => mainCtx[p] = "cancelled"
  /\ MainTo(p, "sleep")
  /\ UNCHANGED <<migrationVars, sig, objectVars, bodyVars, ownVars>>

Exit(p) == main[p] = "sleep" /\ End(p)

MainStep(p) ==
  Migrate(p) \/ Opened(p) \/ OpenFailed(p) \/ Notify(p) \/ Begin(p) \/ StartLoop(p) \/ Return(p) \/ Exit(p)

-----------------------------------------------------------------------------
(* The signal goroutine, the loop, and the outside world. *)

\* SIGINT or SIGTERM; the goroutine takes one signal only.
Signal(p) ==
  /\ sig[p] = "notified"
  /\ SigTo(p, "load")
  /\ orderly' = [orderly EXCEPT ![p] = main[p] = "serving"]
  /\ UNCHANGED <<migrationVars, main, objectVars, bodyVars, http, starts>>

StopLoop(p) == Stop(p, "shutdown") /\ UNCHANGED <<migrationVars, ownVars>>

\* httpServer.Shutdown if there is a server, and cancel() of main's context.
Shutdown(p) ==
  /\ sig[p] = "shutdown"
  /\ http' = IF http[p] = "up" THEN [http EXCEPT ![p] = "down"] ELSE http
  /\ mainCtx' = [mainCtx EXCEPT ![p] = "cancelled"]
  /\ ctx' = IF p \in Worker /\ ctx[p] = "live" THEN [ctx EXCEPT ![p] = "cancelled"] ELSE ctx
  /\ SigTo(p, "gone")
  /\ UNCHANGED <<migrationVars, main, running, cancelSet, wg, bodyVars, orderly, starts>>

SigStep(p) == StopLoop(p) \/ Shutdown(p)

Run(p) == LoopStep(p) /\ UNCHANGED <<migrationVars, ownVars>>

\* The process is killed, or ListenAndServe fails, or a signal comes before
\* signal.Notify.
Crash(p) == main[p] # "off" /\ End(p)

Next ==
  \/ \E p \in Process : Launch(p) \/ MainStep(p) \/ Crash(p)
  \/ \E p \in Looping : Signal(p) \/ SigStep(p) \/ Run(p)

Spec == Init /\ [][Next]_vars

\* Go schedules every goroutine, select takes a ready case in the long run,
\* and ticks and polls come to an end.
FairSpec ==
  /\ Spec
  /\ \A p \in Process : WF_vars(MainStep(p))
  /\ \A p \in Looping :
       /\ WF_vars(SigStep(p)) /\ WF_vars(Run(p))
       /\ SF_vars(LoopDone(p) /\ UNCHANGED <<migrationVars, ownVars>>)

-----------------------------------------------------------------------------
(* Properties. *)

\* The engine of a scheduler that was started beside its migration files runs
\* on a fully migrated database only, also when an earlier migration died
\* half-way or another one runs beside it.
SchemaOfFiles ==
  \A p \in Engine : loop[p] # "none" /\ migrating[p] # NoFiles => applied = Versions

\* When a process that was told to stop while it was serving comes to its
\* end, its loop has ended first: no tick is cut off, and no claimed task
\* left without its report.
NothingCutOff == \A p \in Looping : main[p] = "sleep" /\ orderly[p] => loop[p] = "done"

\* A worker that has been told to stop claims at most one more task: the
\* one it had already decided on.
StopsClaiming == \A p \in Worker : overshoot[p] <= 1

\* A process that takes a signal while it is serving ends, however the loop
\* and the two goroutines interleave.  (Not so before Start has returned: a
\* Stop that misses the cancel function waits for a loop nobody cancels, and
\* a Shutdown that finds no httpServer does nothing; later signals are not
\* read.)
EndsAfterSignal ==
  \A p \in Looping : (sig[p] = "load" /\ orderly[p]) ~> (main[p] = "off")
=============================================================================
