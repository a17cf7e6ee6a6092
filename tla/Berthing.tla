------------------------------- MODULE Berthing -------------------------------
(***************************************************************************)
(* Berthing windows: internal/berthing over berthing_windows and           *)
(* escalation_records, with steps 1 and 2 of the engine's tick.            *)
(*                                                                         *)
(* A tick lists the windows of a status and then updates the listed rows   *)
(* one by one, while clients create, release and force windows.            *)
(*                                                                         *)
(* Not modelled: berth and ship, the assignee's name, the responsible      *)
(* party (escalateParty computes a new one for the result and the audit    *)
(* row, no statement stores it), audit rows.                               *)
(***************************************************************************)
EXTENDS Integers, Sequences, FiniteSets, StateMachines

CONSTANTS
  WindowId,    \* ids drawn by newUUID
  Client,      \* HTTP handlers
  Period,      \* pairs <<effective, deadline>> that a client asks for
  MaxTime,     \* bound: the clock stops here
  MaxBatch,    \* bound: windows of one batch (the code allows 50)
  MaxVersion,  \* bound: no client touches a window of this version
  MaxLevel,    \* bound: a window of this level is listed as overdue no more
  MaxFaults    \* bound: failures of the engine

ASSUME BerthingAssumption ==
  /\ Period \subseteq Nat \X Nat
  /\ MaxTime \in Nat /\ MaxBatch \in Nat \ {0} /\ MaxVersion \in Nat
  /\ MaxLevel \in Nat /\ MaxFaults \in Nat

VARIABLES
  windows,      \* the table
  escalations,  \* escalation_records: of each window, the levels in their order
  clock,
  call,         \* local state of each client's handler
  tick,         \* local state of the engine's tick
  faults        \* how many failures the engine has had

vars == <<windows, escalations, clock, call, tick, faults>>

WindowRow ==
  [effective : Nat, deadline : Nat, status : WindowStatus, level : Nat, version : Nat]

NoWindow == [status |-> "none"]

\* What a client asks for; the foreign key wants a known declaration.
Item == [known : BOOLEAN, effective : Nat, deadline : Nat]

\* Local state of Create and BatchAllocate: the items still to be inserted
\* and the windows stored so far.  "failed" is the answer with an error.
BatchState == [pc : {"insert", "failed"}, items : Seq(Item), stored : SUBSET WindowId]

\* Local state of Release and ForceIntervene.
EditState == [pc : {"edit"}, id : WindowId, target : WindowStatus, version : Nat]

\* A row as the tick listed it.
Listed == [id : WindowId, level : Nat, version : Nat]

NoRow == [id |-> "none"]

\* Local state of the tick: in step 1 with rows to activate, at the start of
\* step 2, in step 2 with rows to escalate, or between the UPDATE and the
\* INSERT of the escalation of the row in done.
TickState ==
  [pc : {"activate", "list", "escalate", "record"}, rows : SUBSET Listed,
   done : Listed \cup {NoRow}]

Idle == [pc |-> "idle"]

TypeOK ==
  /\ windows \in [WindowId -> WindowRow \cup {NoWindow}]
  /\ escalations \in [WindowId -> Seq(Nat)]
  /\ clock \in 0..MaxTime
  /\ call \in [Client -> BatchState \cup EditState \cup {Idle}]
  /\ tick \in TickState \cup {Idle}
  /\ faults \in 0..MaxFaults

Init ==
  /\ windows = [w \in WindowId |-> NoWindow]
  /\ escalations = [w \in WindowId |-> <<>>]
  /\ clock = 0
  /\ call = [c \in Client |-> Idle]
  /\ tick = Idle
  /\ faults = 0

Exists(w) == windows[w] # NoWindow

Existing == {w \in WindowId : Exists(w)}

-----------------------------------------------------------------------------
(* Statements of window_repo.go. *)

\* Mutant of StoreWindow: the Status field is left out of the literal.
StoreWindowNoStatus(w, item) ==
  windows' = [windows EXCEPT ![w] =
                [effective |-> item.effective, deadline |-> item.deadline,
                 status |-> "", level |-> 0, version |-> 1]]

\* windowCreate, with the literal of Create or BatchAllocate.
StoreWindow(w, item) ==
  windows' = [windows EXCEPT ![w] =
                [effective |-> item.effective, deadline |-> item.deadline,
                 status |-> "allocated", level |-> 0, version |-> 1]]

\* Mutant of Matches: UPDATE ... WHERE id = ?
AnyVersionMatches(w, version) == TRUE

\* UPDATE ... WHERE id = ? AND version = ?
Matches(w, version) == windows[w].version = version

UpdateWindowStatus(w, status, version) ==
  windows' = IF Matches(w, version)
    THEN [windows EXCEPT ![w] = [windows[w] EXCEPT !.status = status, !.version = windows[w].version + 1]]
    ELSE windows

UpdateWindowAssignedTo(w, level, version) ==
  windows' = IF Matches(w, version)
    THEN [windows EXCEPT ![w] = [windows[w] EXCEPT !.level = level, !.status = "escalated",
                                                   !.version = windows[w].version + 1]]
    ELSE windows

AsListed(ws) == {[id |-> w, level |-> windows[w].level, version |-> windows[w].version] : w \in ws}

\* ListWindowsByStatus(allocated), and the loop's test of the period.
DueForActivation ==
  {w \in Existing : windows[w].status = "allocated"
                    /\ windows[w].effective <= clock /\ clock < windows[w].deadline}

\* Mutant of OverdueStatus: windows that were escalated once are left out.
NotYetEscalated == {"effective"}

OverdueStatus == {"effective", "occupied", "escalated"}

\* ListExpiredWindows.
Overdue ==
  {w \in Existing : windows[w].deadline < clock /\ windows[w].status \in OverdueStatus
                    /\ windows[w].level < MaxLevel}

-----------------------------------------------------------------------------
(* Create and BatchAllocate. *)

\* What clients send, each of them.
Items == {[known |-> k, effective |-> p[1], deadline |-> p[2]] : k \in BOOLEAN, p \in Period}

\* The handler and validateCreate: deadlines lie after effective times.
BatchStart(c, items) ==
  /\ call[c] = Idle
  /\ \A i \in DOMAIN items : items[i].effective < items[i].deadline
  /\ call' = [call EXCEPT ![c] = [pc |-> "insert", items |-> items, stored |-> {}]]
  /\ UNCHANGED <<windows, escalations, clock, tick, faults>>

\* CreateWindowsBatch, one row: every INSERT is its own transaction.
BatchInsert(c) ==
  /\ call[c].pc = "insert"
  /\ Head(call[c].items).known
  /\ \E w \in WindowId :
       /\ ~Exists(w)
       /\ StoreWindow(w, Head(call[c].items))
       /\ call' = [call EXCEPT ![c] =
                     IF Len(call[c].items) = 1 THEN Idle
                     ELSE [pc |-> "insert", items |-> Tail(call[c].items), stored |-> call[c].stored \cup {w}]]
  /\ UNCHANGED <<escalations, clock, tick, faults>>

\* An INSERT fails, certainly where the declaration is unknown; the earlier
\* rows stay, the client is answered with an error.
BatchFails(c) ==
  /\ call[c].pc = "insert"
  /\ call' = [call EXCEPT ![c] = [call[c] EXCEPT !.pc = "failed"]]
  /\ UNCHANGED <<windows, escalations, clock, tick, faults>>

-----------------------------------------------------------------------------
(* Release and ForceIntervene. *)

\* GetWindow and MustTransition.
ForceIntervene(c, w, target) ==
  /\ call[c] = Idle
  /\ Exists(w)
  /\ CanTransition(WindowStateMachine, windows[w].status, target)
  /\ windows[w].version < MaxVersion
  /\ call' = [call EXCEPT ![c] =
                [pc |-> "edit", id |-> w, target |-> target, version |-> windows[w].version]]
  /\ UNCHANGED <<windows, escalations, clock, tick, faults>>

Release(c, w) == ForceIntervene(c, w, "released")

\* Their UPDATE, and the answer: done, or Conflict.
EditWrite(c) ==
  /\ call[c].pc = "edit"
  /\ UpdateWindowStatus(call[c].id, call[c].target, call[c].version)
  /\ call' = [call EXCEPT ![c] = Idle]
  /\ UNCHANGED <<escalations, clock, tick, faults>>

\* The client has its error, or the handler's process dies, or an UPDATE fails.
CallEnds(c) ==
  /\ call[c] # Idle
  /\ call' = [call EXCEPT ![c] = Idle]
  /\ UNCHANGED <<windows, escalations, clock, tick, faults>>

ClientStep(c) ==
  \/ \E n \in 1..MaxBatch : \E items \in [1..n -> Items] : BatchStart(c, items)
  \/ BatchInsert(c) \/ BatchFails(c)
  \/ \E w \in WindowId : Release(c, w) \/ \E target \in WindowStatus : ForceIntervene(c, w, target)
  \/ EditWrite(c)
  \/ CallEnds(c)

-----------------------------------------------------------------------------
(* The tick: ActivateEffective, then EscalateOverdue. *)

\* The tick goes on at pc with these rows, or at next if there are none.
Proceed(pc, rows, next) ==
  tick' = IF rows # {} THEN [pc |-> pc, rows |-> rows, done |-> NoRow]
          ELSE IF next = "idle" THEN Idle ELSE [pc |-> next, rows |-> {}, done |-> NoRow]

ActivateList ==
  /\ tick = Idle
  /\ LET due == AsListed(DueForActivation)
     IN tick' = [pc |-> IF due = {} THEN "list" ELSE "activate", rows |-> due,
                 done |-> NoRow]
  /\ UNCHANGED <<windows, escalations, clock, call, faults>>

\* The lists are sorted by deadline.
FirstRow(row) ==
  /\ row \in tick.rows
  /\ \A other \in tick.rows : windows[row.id].deadline <= windows[other.id].deadline

ActivateWrite ==
  /\ tick.pc = "activate"
  /\ \E row \in tick.rows :
       /\ FirstRow(row)
       /\ UpdateWindowStatus(row.id, "effective", row.version)
       /\ Proceed("activate", tick.rows \ {row}, "list")
  /\ UNCHANGED <<escalations, clock, call, faults>>

EscalateList ==
  /\ tick.pc = "list"
  /\ tick' = IF Overdue = {} THEN Idle
             ELSE [tick EXCEPT !.pc = "escalate", !.rows = AsListed(Overdue)]
  /\ UNCHANGED <<windows, escalations, clock, call, faults>>

\* Mutant of Escalated: an UPDATE that matched nothing counts too.
AlwaysEscalated(row) == TRUE

\* affected > 0
Escalated(row) == Matches(row.id, row.version)

\* The UPDATE of escalateOne; a conflict leaves this window alone.
EscalateWrite ==
  /\ tick.pc = "escalate"
  /\ \E row \in tick.rows :
       /\ FirstRow(row)
       /\ UpdateWindowAssignedTo(row.id, row.level + 1, row.version)
       /\ LET rest == tick.rows \ {row}
          IN IF Escalated(row)
             THEN tick' = [tick EXCEPT !.pc = "record", !.rows = rest, !.done = row]
             ELSE Proceed("escalate", rest, "idle")
  /\ UNCHANGED <<escalations, clock, call, faults>>

\* InsertEscalation, best effort.
EscalateRecord ==
  /\ tick.pc = "record"
  /\ LET w == tick.done.id
     IN escalations' = [escalations EXCEPT ![w] = Append(escalations[w], tick.done.level + 1)]
  /\ Proceed("escalate", tick.rows, "idle")
  /\ UNCHANGED <<windows, clock, call, faults>>

EngineFault == faults < MaxFaults /\ faults' = faults + 1

\* A statement of the tick fails: the step, the row or the record is skipped.
TickFails ==
  /\ EngineFault
  /\ \/ /\ tick = Idle
        /\ tick' = [pc |-> "list", rows |-> {}, done |-> NoRow]
     \/ tick.pc = "list" /\ tick' = Idle
     \/ /\ tick.pc \in {"activate", "escalate"}
        /\ \E row \in tick.rows :
             /\ FirstRow(row)
             /\ Proceed(tick.pc, tick.rows \ {row}, IF tick.pc = "activate" THEN "list" ELSE "idle")
     \/ tick.pc = "record" /\ Proceed("escalate", tick.rows, "idle")
  /\ UNCHANGED <<windows, escalations, clock, call>>

\* The scheduler dies and is started again; its handlers die with it, which
\* CallEnds may do to each.
SchedulerCrash ==
  /\ EngineFault
  /\ tick # Idle
  /\ tick' = Idle
  /\ UNCHANGED <<windows, escalations, clock, call>>

ClockTick ==
  /\ clock < MaxTime
  /\ clock' = clock + 1
  /\ UNCHANGED <<windows, escalations, call, tick, faults>>

EngineTick ==
  ActivateList \/ ActivateWrite \/ EscalateList \/ EscalateWrite \/ EscalateRecord

Next ==
  \/ \E c \in Client : ClientStep(c)
  \/ EngineTick \/ TickFails \/ SchedulerCrash
  \/ ClockTick

Spec == Init /\ [][Next]_vars

\* The engine ticks until it is stopped.  Nothing is promised of clients.
FairSpec == Spec /\ WF_vars(EngineTick)

-----------------------------------------------------------------------------
(* Properties. *)

\* A window's status moves only along its state machine, whichever of the
\* tick, a release and an intervention writes last: a released, expired or
\* cancelled window stays so (the UPDATE of the tick tests no transition).
OnlyLegalMoves ==
  [][\A w \in WindowId : Exists(w) /\ windows'[w].status # windows[w].status =>
       CanTransition(WindowStateMachine, windows[w].status, windows'[w].status)]_vars

\* The escalation history of a window names levels that it has reached, each
\* once and in order, although a record is written after the UPDATE it is
\* about, may be lost, and the UPDATE may have lost to a release.
HistoryFollowsLevel ==
  \A w \in Existing :
    LET history == escalations[w]
    IN \A i \in DOMAIN history :
         /\ history[i] <= windows[w].level
         /\ i > 1 => history[i - 1] < history[i]

\* With a ticking engine no window that has become effective stays overdue
\* at one level: until it is released, expired or cancelled it is escalated
\* again and again (to the instance's bound), however often clients get in
\* the way (their number is bounded too).
OverdueEscalates ==
  \A w \in WindowId, n \in 0..(MaxLevel - 1) :
    LET Waits == /\ Exists(w) /\ windows[w].deadline < clock /\ windows[w].level = n
                 /\ windows[w].status \in {"effective", "occupied", "escalated"}
    IN Waits ~> ~Waits

\* "BatchAllocate creates multiple berthing windows in a single transaction.
\* If any window fails validation, the entire batch is rolled back." (its
\* comment): a batch that fails stores nothing.
BatchAllOrNothing ==
  \A c \in Client : call[c].pc = "failed" => call[c].stored = {}
=============================================================================
