---------------------------- MODULE StoppableLoop ----------------------------
(***************************************************************************)
(* Start, Stop and loop of engine.Engine and worker.Worker: the goroutine  *)
(* main of a process calls Start, its signal goroutine calls Stop.  Start  *)
(* publishes running before it has set cancel and called wg.Add.           *)
(*                                                                         *)
(* The engine takes its context WithoutCancel and finishes a tick it has   *)
(* begun; the worker's context ends with main's, and poll looks at it      *)
(* before every claim.                                                     *)
(***************************************************************************)
EXTENDS Integers

CONSTANTS
  Engine,     \* processes with an engine
  Worker,     \* processes with a worker
  BatchSize   \* tasks that one poll handles

ASSUME LoopAssumption == Engine \cap Worker = {} /\ BatchSize \in Nat

Looping == Engine \cup Worker

VARIABLES
  main,       \* where the goroutine main is
  sig,        \* where the signal goroutine is
  running,    \* the atomic flag
  cancelSet,  \* the field cancel is not nil
  ctx,        \* the loop's context
  mainCtx,    \* the context of main, which it passes to Start
  wg,         \* the wait group
  loop,       \* where the loop's goroutine is
  left,       \* tasks that the poll has not looked at
  overshoot   \* history: claims made after the context was cancelled

objectVars == <<running, cancelSet, ctx, mainCtx, wg>>
bodyVars == <<loop, left, overshoot>>

StartPc == {"start", "setcancel", "add", "check"}
StopPc == {"load", "cancel", "wait", "store"}
LoopPc == {"none", "select", "tick", "next", "claim", "report", "done"}

LoopTypeOK ==
  /\ running \in [Looping -> BOOLEAN]
  /\ cancelSet \in [Looping -> BOOLEAN]
  /\ ctx \in [Looping -> {"none", "live", "cancelled"}]
  /\ mainCtx \in [Looping -> {"live", "cancelled"}]
  /\ wg \in [Looping -> 0..1]
  /\ loop \in [Looping -> LoopPc]
  /\ left \in [Looping -> 0..BatchSize]
  /\ overshoot \in [Looping -> Nat]

LoopInit ==
  /\ running = [p \in Looping |-> FALSE]
  /\ cancelSet = [p \in Looping |-> FALSE]
  /\ ctx = [p \in Looping |-> "none"]
  /\ mainCtx = [p \in Looping |-> "live"]
  /\ wg = [p \in Looping |-> 0]
  /\ loop = [p \in Looping |-> "none"]
  /\ left = [p \in Looping |-> 0]
  /\ overshoot = [p \in Looping |-> 0]

MainTo(p, pc) == main' = [main EXCEPT ![p] = pc]
SigTo(p, pc) == sig' = [sig EXCEPT ![p] = pc]
LoopTo(p, pc) == loop' = [loop EXCEPT ![p] = pc]

-----------------------------------------------------------------------------
(* Start, called by main; it returns to the place next. *)

\* running.CompareAndSwap(false, true)
StartSwap(p, next) ==
  /\ main[p] = "start"
  /\ running' = [running EXCEPT ![p] = TRUE]
  /\ MainTo(p, IF running[p] THEN next ELSE "setcancel")
  /\ UNCHANGED <<sig, cancelSet, ctx, mainCtx, wg, bodyVars>>

\* context.WithCancel, of main's context or (engine) of a detached one.
StartSetCancel(p) ==
  /\ main[p] = "setcancel"
  /\ cancelSet' = [cancelSet EXCEPT ![p] = TRUE]
  /\ ctx' = [ctx EXCEPT ![p] = IF p \in Engine THEN "live" ELSE mainCtx[p]]
  /\ MainTo(p, "add")
  /\ UNCHANGED <<sig, running, mainCtx, wg, bodyVars>>

\* wg.Add(1) and go loop.
StartAdd(p, next) ==
  /\ main[p] = "add"
  /\ wg' = [wg EXCEPT ![p] = 1]
  /\ LoopTo(p, "select")
  /\ MainTo(p, IF p \in Engine THEN "check" ELSE next)
  /\ UNCHANGED <<sig, running, cancelSet, ctx, mainCtx, left, overshoot>>

\* The engine takes running back if it has been stopped by now.
StartCheck(p, next) ==
  /\ main[p] = "check"
  /\ running' = [running EXCEPT ![p] = running[p] /\ ctx[p] # "cancelled"]
  /\ MainTo(p, next)
  /\ UNCHANGED <<sig, cancelSet, ctx, mainCtx, wg, bodyVars>>

Start(p, next) ==
  StartSwap(p, next) \/ StartSetCancel(p) \/ StartAdd(p, next) \/ StartCheck(p, next)

-----------------------------------------------------------------------------
(* Stop, called by the signal goroutine; it returns to the place next. *)

StopLoad(p, next) ==
  /\ sig[p] = "load"
  /\ SigTo(p, IF running[p] THEN "cancel" ELSE next)
  /\ UNCHANGED <<main, objectVars, bodyVars>>

\* Mutant of StopCancel: the loop's context is left alone.
StopCancelNothing(p) ==
  /\ sig[p] = "cancel"
  /\ SigTo(p, "wait")
  /\ UNCHANGED <<main, objectVars, bodyVars>>

\* if e.cancel != nil { e.cancel() }.  The field is read without
\* synchronisation: while Start is under way its value may be missed.
StopCancel(p) ==
  /\ sig[p] = "cancel"
  /\ \/ /\ cancelSet[p]
        /\ ctx' = [ctx EXCEPT ![p] = "cancelled"]
     \/ /\ ~cancelSet[p] \/ main[p] \in StartPc
        /\ UNCHANGED ctx
  /\ SigTo(p, "wait")
  /\ UNCHANGED <<main, running, cancelSet, mainCtx, wg, bodyVars>>

\* Mutant of Waited: wg.Wait() is forgotten.
WaitedNever(p) == TRUE

\* wg.Wait() returns.
Waited(p) == wg[p] = 0

StopWait(p) ==
  /\ sig[p] = "wait"
  /\ Waited(p)
  /\ SigTo(p, "store")
  /\ UNCHANGED <<main, objectVars, bodyVars>>

StopStore(p, next) ==
  /\ sig[p] = "store"
  /\ running' = [running EXCEPT ![p] = FALSE]
  /\ SigTo(p, next)
  /\ UNCHANGED <<main, cancelSet, ctx, mainCtx, wg, bodyVars>>

Stop(p, next) == StopLoad(p, next) \/ StopCancel(p) \/ StopWait(p) \/ StopStore(p, next)

-----------------------------------------------------------------------------
(* The loop's goroutine. *)

\* case <-ctx.Done(), with the deferred wg.Done().
LoopDone(p) ==
  /\ loop[p] = "select" /\ ctx[p] = "cancelled"
  /\ LoopTo(p, "done")
  /\ wg' = [wg EXCEPT ![p] = 0]
  /\ UNCHANGED <<main, sig, running, cancelSet, ctx, mainCtx, left, overshoot>>

\* case <-ticker.C(), which select may prefer although the context is done.
\* A worker's poll lists up to BatchSize tasks, none if the list fails.
LoopTick(p) ==
  /\ loop[p] = "select"
  /\ \/ p \in Engine /\ LoopTo(p, "tick") /\ UNCHANGED left
     \/ /\ p \in Worker
        /\ \E n \in 0..BatchSize : left' = [left EXCEPT ![p] = n]
        /\ LoopTo(p, "next")
  /\ UNCHANGED <<main, sig, objectVars, overshoot>>

\* tick never looks at its context.
TickEnds(p) ==
  /\ loop[p] = "tick"
  /\ LoopTo(p, "select")
  /\ UNCHANGED <<main, sig, objectVars, left, overshoot>>

\* Mutant of PollGoesOn: the tasks already listed are all handled.
PollGoesOnAnyway(p) == left[p] > 0

\* The head of poll's loop: if ctx.Err() != nil { return }
PollGoesOn(p) == left[p] > 0 /\ ctx[p] # "cancelled"

PollNext(p) ==
  /\ loop[p] = "next"
  /\ IF PollGoesOn(p)
     THEN LoopTo(p, "claim") /\ left' = [left EXCEPT ![p] = left[p] - 1]
     ELSE LoopTo(p, "select") /\ left' = [left EXCEPT ![p] = 0]
  /\ UNCHANGED <<main, sig, objectVars, overshoot>>

\* Claim of ClaimAndExecute: the task is ours, or lost, or there was an error.
PollClaim(p) ==
  /\ loop[p] = "claim"
  /\ \/ /\ LoopTo(p, "report")
        /\ overshoot' = [overshoot EXCEPT ![p] =
                           IF ctx[p] = "cancelled" THEN overshoot[p] + 1 ELSE overshoot[p]]
     \/ LoopTo(p, "next") /\ UNCHANGED overshoot
  /\ UNCHANGED <<main, sig, objectVars, left>>

\* Report of ClaimAndExecute, done or failed.
PollReport(p) ==
  /\ loop[p] = "report"
  /\ LoopTo(p, "next")
  /\ UNCHANGED <<main, sig, objectVars, left, overshoot>>

LoopStep(p) ==
  LoopDone(p) \/ LoopTick(p) \/ TickEnds(p) \/ PollNext(p) \/ PollClaim(p) \/ PollReport(p)
=============================================================================
