------------------------------ MODULE WorkOrder ------------------------------
(***************************************************************************)
(* Work orders: internal/workorder over the table work_orders.  Handlers   *)
(* read an order, test the transition and UPDATE the row at the version    *)
(* they read; Complete writes the volume first, the status after it.       *)
(*                                                                         *)
(* Not modelled: order and cargo types, planned volumes, the assignee      *)
(* (Assign receives one and stores nothing), time stamps, audit rows.      *)
(***************************************************************************)
EXTENDS Integers, StateMachines

CONSTANTS
  Order,      \* ids drawn by newUUID
  Client,     \* HTTP handlers
  Volume,     \* actual volumes that a client reports
  MaxVersion  \* bound: no call starts on an order of this version

ASSUME WorkOrderAssumption == Volume \subseteq Int /\ MaxVersion \in Nat

VARIABLES
  orders,    \* the table
  call,      \* local state of each client's handler
  reported   \* history: the volume that the completing call reported, 0 before

vars == <<orders, call, reported>>

OrderRow == [status : WorkOrderStatus, volume : Nat, version : Nat]

NoOrder == [status |-> "none"]

\* Local state between two statements; volume is that of Complete.
CallState ==
  [pc : {"volume", "status"}, id : Order, target : WorkOrderStatus, volume : Volume \cup {0},
   version : Nat]

Idle == [pc |-> "idle"]

TypeOK ==
  /\ orders \in [Order -> OrderRow \cup {NoOrder}]
  /\ call \in [Client -> CallState \cup {Idle}]
  /\ reported \in [Order -> Volume \cup {0}]

Init ==
  /\ orders = [o \in Order |-> NoOrder]
  /\ call = [c \in Client |-> Idle]
  /\ reported = [o \in Order |-> 0]

Exists(o) == orders[o] # NoOrder

-----------------------------------------------------------------------------

\* Create; an unknown declaration or window makes the INSERT fail.
Create(o) ==
  /\ ~Exists(o)
  /\ orders' = [orders EXCEPT ![o] = [status |-> "created", volume |-> 0, version |-> 1]]
  /\ UNCHANGED <<call, reported>>

\* Mutant of HasVolume: a correction downwards is let through.
HasAnyVolume(volume) == volume # 0

\* Step 1 of Complete is skipped unless there is a volume to write.
HasVolume(volume) == volume > 0

\* GetWorkOrder and MustTransition of any of the operations.
Read(c, o, target, volume) ==
  /\ call[c] = Idle
  /\ Exists(o)
  /\ CanTransition(WorkOrderStateMachine, orders[o].status, target)
  /\ orders[o].version < MaxVersion
  /\ call' = [call EXCEPT ![c] =
                [pc |-> IF HasVolume(volume) THEN "volume" ELSE "status", id |-> o, target |-> target,
                 volume |-> volume, version |-> orders[o].version]]
  /\ UNCHANGED <<orders, reported>>

Assign(c, o) == Read(c, o, "assigned", 0)
StartProgress(c, o) == Read(c, o, "in_progress", 0)
Cancel(c, o) == Read(c, o, "cancelled", 0)
Complete(c, o, volume) == Read(c, o, "completed", volume)

\* Mutant of Matches: UPDATE ... WHERE id = ?
AnyVersionMatches(o, version) == TRUE

\* UPDATE ... WHERE id = ? AND version = ?
Matches(o, version) == orders[o].version = version

\* Mutant of CompleteVolume: the volume goes through an UPDATE without the
\* version.
CompleteVolumeUnchecked(c) ==
  /\ call[c].pc = "volume"
  /\ LET r == call[c]
     IN /\ orders' = [orders EXCEPT ![r.id] =
                        [status |-> orders[r.id].status, volume |-> r.volume,
                         version |-> orders[r.id].version + 1]]
        /\ call' = [call EXCEPT ![c] = [r EXCEPT !.pc = "status", !.version = r.version + 1]]
  /\ UNCHANGED reported

\* UpdateActualVolume, step 1 of Complete, and wo.Version++; a conflict ends
\* the call.
CompleteVolume(c) ==
  /\ call[c].pc = "volume"
  /\ LET r == call[c]
     IN IF Matches(r.id, r.version)
        THEN /\ orders' = [orders EXCEPT ![r.id] =
                             [status |-> orders[r.id].status, volume |-> r.volume,
                              version |-> orders[r.id].version + 1]]
             /\ call' = [call EXCEPT ![c] = [r EXCEPT !.pc = "status", !.version = r.version + 1]]
        ELSE call' = [call EXCEPT ![c] = Idle] /\ UNCHANGED orders
  /\ UNCHANGED reported

\* UpdateWorkOrderStatus, and the answer: done, or Conflict.
UpdateStatus(c) ==
  /\ call[c].pc = "status"
  /\ LET r == call[c]
         match == Matches(r.id, r.version)
     IN /\ orders' = IF match
                     THEN [orders EXCEPT ![r.id] =
                             [status |-> r.target, volume |-> orders[r.id].volume,
                              version |-> orders[r.id].version + 1]]
                     ELSE orders
        /\ reported' = IF match /\ r.target = "completed"
                       THEN [reported EXCEPT ![r.id] = r.volume] ELSE reported
  /\ call' = [call EXCEPT ![c] = Idle]

\* A statement fails, or the handler's process dies: what Complete has
\* written stays.
CallFails(c) ==
  /\ call[c] # Idle
  /\ call' = [call EXCEPT ![c] = Idle]
  /\ UNCHANGED <<orders, reported>>

Next ==
  \/ \E o \in Order : Create(o)
  \/ \E c \in Client, o \in Order :
       \/ Assign(c, o) \/ StartProgress(c, o) \/ Cancel(c, o)
       \/ \E volume \in Volume : Complete(c, o, volume)
  \/ \E c \in Client : CompleteVolume(c) \/ UpdateStatus(c) \/ CallFails(c)

Spec == Init /\ [][Next]_vars

-----------------------------------------------------------------------------
(* Properties. *)

\* A completed order carries the volume its own completion reported, never
\* that of a completion that failed half-way or was overtaken, unless it
\* reported none (a volume of 0 or less writes nothing, and an earlier
\* half-done completion shows through).
CompletedAsReported ==
  \A o \in Order :
    orders[o].status = "completed" /\ reported[o] > 0 => orders[o].volume = reported[o]

\* An order that is completed, cancelled or failed is closed: no call that
\* read it earlier changes its status or its volume any more.
ClosedStands ==
  [][\A o \in Order : orders[o].status \in {"completed", "cancelled", "failed"} =>
       orders'[o] = orders[o]]_vars
=============================================================================
