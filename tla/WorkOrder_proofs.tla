--------------------------- MODULE WorkOrder_proofs ---------------------------
(***************************************************************************)
(* Proofs about WorkOrder for every set of orders, handlers and volumes,   *)
(* and any number of versions.                                             *)
(***************************************************************************)
EXTENDS WorkOrder, TLAPS

-----------------------------------------------------------------------------
(* The inductive invariant: what a handler knows of the row it read.  The  *)
(* version it holds is not ahead of the row's, and as long as the two      *)
(* agree nobody has written since: the transition is still allowed, and a  *)
(* completion that has written its volume still finds it there.            *)

CallInv(c) ==
  LET r == call[c]
      row == orders[r.id]
  IN
  r # Idle =>
    /\ Exists(r.id)
    /\ r.version <= row.version
    /\ r.pc = "volume" => r.volume > 0
    /\ Matches(r.id, r.version) =>
         /\ CanTransition(WorkOrderStateMachine, row.status, r.target)
         /\ r.pc = "status" /\ r.target = "completed" /\ r.volume > 0 => row.volume = r.volume

OrderInv ==
  /\ TypeOK
  /\ CompletedAsReported
  /\ \A c \in Client : CallInv(c)

\* No work order leaves a closed status: the machine has no such transition.
LEMMA ClosedIsFinal ==
  \A src, dst : CanTransition(WorkOrderStateMachine, src, dst) =>
    /\ src \notin {"completed", "cancelled", "failed", "none"}
    /\ dst \in WorkOrderStatus
BY DEF CanTransition, WorkOrderStateMachine, AllowMany, WorkOrderStatus

LEMMA InitOrder == Init => OrderInv
BY DEF Init, OrderInv, TypeOK, CompletedAsReported, CallInv, NoOrder, Idle

\* What is known of a handler between two of its statements.
LEMMA CallFacts ==
  ASSUME OrderInv, NEW c \in Client, call[c] # Idle
  PROVE  /\ call[c] \in CallState /\ CallInv(c)
         /\ call[c].id \in Order /\ call[c].version \in Nat /\ call[c].volume \in Int
         /\ call[c].volume \in Volume \cup {0} /\ call[c].target \in WorkOrderStatus
         /\ call[c].pc \in {"volume", "status"}
         /\ orders[call[c].id] \in OrderRow /\ orders[call[c].id].version \in Nat
         /\ orders[call[c].id].volume \in Nat
<1>1. call[c] \in CallState /\ CallInv(c)
  BY DEF OrderInv, TypeOK
<1>2. /\ call[c].id \in Order /\ call[c].version \in Nat /\ call[c].volume \in Volume \cup {0}
      /\ call[c].target \in WorkOrderStatus /\ call[c].pc \in {"volume", "status"}
  BY <1>1 DEF CallState
<1>3. orders[call[c].id] # NoOrder
  BY <1>1 DEF CallInv, Exists
<1>4. orders[call[c].id] \in OrderRow
  BY <1>2, <1>3 DEF OrderInv, TypeOK
<1>5. call[c].volume \in Int
  BY <1>2, WorkOrderAssumption
<1> QED BY <1>1, <1>2, <1>4, <1>5 DEF OrderRow

\* A step writes at most the version after the one it found.
RowsMove ==
  \A o \in Order : orders[o] # NoOrder =>
    /\ orders'[o] # NoOrder
    /\ \/ orders'[o] = orders[o]
       \/ orders'[o].version = orders[o].version + 1

\* The handlers a step is not about keep what they knew.
LEMMA CallKept ==
  ASSUME OrderInv, RowsMove, NEW c \in Client, call'[c] = call[c]
  PROVE  CallInv(c)'
<1> SUFFICES ASSUME call[c] # Idle PROVE CallInv(c)'
  BY DEF CallInv
<1>1. /\ CallInv(c) /\ call[c].id \in Order /\ call[c].version \in Nat
      /\ orders[call[c].id].version \in Nat
  BY CallFacts
<1>2. orders[call[c].id] # NoOrder /\ orders'[call[c].id] # NoOrder
  BY <1>1 DEF CallInv, Exists, RowsMove
<1>3. CASE orders'[call[c].id] = orders[call[c].id]
  BY <1>1, <1>2, <1>3 DEF CallInv, Exists, Matches
<1>4. CASE orders'[call[c].id].version = orders[call[c].id].version + 1
  BY <1>1, <1>2, <1>4 DEF CallInv, Exists, Matches
<1> QED BY <1>1, <1>2, <1>3, <1>4 DEF RowsMove

\* So a step of c only has to establish what c itself knows afterwards.
LEMMA StepOf ==
  ASSUME OrderInv, RowsMove, orders' \in [Order -> OrderRow \cup {NoOrder}],
         reported' \in [Order -> Volume \cup {0}], CompletedAsReported',
         NEW c \in Client, NEW s \in CallState \cup {Idle},
         call' = [call EXCEPT ![c] = s], CallInv(c)'
  PROVE  OrderInv'
<1>1. call \in [Client -> CallState \cup {Idle}]
  BY DEF OrderInv, TypeOK
<1>2. TypeOK'
  BY <1>1 DEF TypeOK
<1>3. \A d \in Client : CallInv(d)'
  BY <1>1, CallKept
<1> QED BY <1>2, <1>3 DEF OrderInv

LEMMA Reads ==
  ASSUME OrderInv, UNCHANGED <<orders, reported>>
  PROVE  /\ RowsMove /\ CompletedAsReported'
         /\ orders' \in [Order -> OrderRow \cup {NoOrder}]
         /\ reported' \in [Order -> Volume \cup {0}]
BY DEF OrderInv, TypeOK, RowsMove, CompletedAsReported

\* A handler that answers, whatever it has written, knows nothing more.
LEMMA IdleInv ==
  ASSUME OrderInv, NEW c \in Client, call' = [call EXCEPT ![c] = Idle]
  PROVE  CallInv(c)' /\ call'[c] = Idle
BY DEF OrderInv, TypeOK, CallInv

-----------------------------------------------------------------------------
(* One lemma per action. *)

LEMMA CreateInv == ASSUME OrderInv, NEW o \in Order, Create(o) PROVE OrderInv'
<1> DEFINE row == [status |-> "created", volume |-> 0, version |-> 1]
<1>1. /\ orders \in [Order -> OrderRow \cup {NoOrder}] /\ orders[o] = NoOrder
      /\ orders' = [orders EXCEPT ![o] = row] /\ UNCHANGED <<call, reported>>
  BY DEF Create, OrderInv, TypeOK, Exists
<1>2. row \in OrderRow /\ row.status = "created"
  BY DEF OrderRow, WorkOrderStatus
<1> HIDE DEF row
<1>3. RowsMove
  BY <1>1 DEF RowsMove
<1>4. CompletedAsReported'
  BY <1>1, <1>2 DEF CompletedAsReported, OrderInv
<1>5. \A c \in Client : CallInv(c)'
  BY <1>1, <1>3, CallKept
<1>6. TypeOK'
  BY <1>1, <1>2 DEF OrderInv, TypeOK
<1> QED BY <1>4, <1>5, <1>6 DEF OrderInv

LEMMA ReadInv ==
  ASSUME OrderInv, NEW c \in Client, NEW o \in Order, NEW target, NEW volume \in Volume \cup {0},
         Read(c, o, target, volume)
  PROVE  OrderInv'
<1> DEFINE s == [pc |-> IF HasVolume(volume) THEN "volume" ELSE "status", id |-> o,
                 target |-> target, volume |-> volume, version |-> orders[o].version]
<1>1. /\ UNCHANGED <<orders, reported>> /\ call' = [call EXCEPT ![c] = s]
      /\ orders[o] # NoOrder /\ CanTransition(WorkOrderStateMachine, orders[o].status, target)
  BY DEF Read, Exists
<1>2. orders[o] \in OrderRow /\ orders[o].version \in Nat /\ target \in WorkOrderStatus
  BY <1>1, ClosedIsFinal DEF OrderInv, TypeOK, OrderRow
<1>3. s \in CallState
  BY <1>2 DEF CallState
<1>4. call'[c] = s
  BY <1>1 DEF OrderInv, TypeOK
<1>5. CallInv(c)'
  BY <1>1, <1>2, <1>4 DEF CallInv, Exists, Matches, HasVolume
<1> HIDE DEF s
<1> QED BY <1>1, <1>3, <1>5, Reads, StepOf

LEMMA CallFailsInv == ASSUME OrderInv, NEW c \in Client, CallFails(c) PROVE OrderInv'
<1>1. UNCHANGED <<orders, reported>> /\ call' = [call EXCEPT ![c] = Idle]
  BY DEF CallFails
<1> QED BY <1>1, IdleInv, Reads, StepOf

\* The handler's record after the first statement of Complete.
LEMMA VolumeWritten ==
  \A r \in CallState, n \in Nat :
    LET s == [r EXCEPT !.pc = "status", !.version = n] IN
    /\ s \in CallState /\ s.pc = "status" /\ s.version = n
    /\ s.id = r.id /\ s.volume = r.volume /\ s.target = r.target
<1> TAKE r \in CallState, n \in Nat
<1> DEFINE m == [r EXCEPT !.pc = "status"]
           s == [m EXCEPT !.version = n]
<1>1. m \in CallState /\ m.pc = "status" /\ m.id = r.id /\ m.volume = r.volume /\ m.target = r.target
  BY DEF CallState
<1> HIDE DEF m
<1>2. /\ s \in CallState /\ s.pc = m.pc /\ s.version = n
      /\ s.id = m.id /\ s.volume = m.volume /\ s.target = m.target
  BY <1>1 DEF CallState
<1> HIDE DEF s
<1>3. s = [r EXCEPT !.pc = "status", !.version = n]
  BY DEF s, m
<1> QED BY <1>1, <1>2, <1>3

\* What the first statement of Complete leaves.
LEMMA VolumeFacts ==
  ASSUME OrderInv, NEW c \in Client, call[c].pc = "volume",
         orders[call[c].id].version = call[c].version,
         NEW row, row = [status |-> orders[call[c].id].status, volume |-> call[c].volume,
                         version |-> orders[call[c].id].version + 1],
         NEW s \in CallState, s.version = call[c].version + 1, s.volume = call[c].volume,
         s.target = call[c].target
  PROVE  /\ row \in OrderRow
         /\ row.version = orders[call[c].id].version + 1
         /\ s.version = row.version /\ s.volume = row.volume
         /\ row.status \notin {"completed", "cancelled", "failed", "none"}
         /\ CanTransition(WorkOrderStateMachine, row.status, s.target)
<1>0. call[c] # Idle
  BY DEF Idle
<1>1. /\ call[c] \in CallState /\ CallInv(c) /\ orders[call[c].id] \in OrderRow
      /\ call[c].id \in Order /\ call[c].version \in Nat /\ call[c].volume \in Int
  BY <1>0, CallFacts
<1>2. /\ call[c].volume > 0
      /\ CanTransition(WorkOrderStateMachine, orders[call[c].id].status, call[c].target)
  BY <1>0, <1>1 DEF CallInv, Matches
<1>3. row \in OrderRow /\ row.volume = call[c].volume
  BY <1>1, <1>2 DEF OrderRow
<1> QED BY <1>1, <1>2, <1>3, ClosedIsFinal

LEMMA CompleteVolumeInv ==
  ASSUME OrderInv, NEW c \in Client, CompleteVolume(c)
  PROVE  OrderInv'
<1> DEFINE r == call[c]
           row == [status |-> orders[r.id].status, volume |-> r.volume,
                   version |-> orders[r.id].version + 1]
           s == [r EXCEPT !.pc = "status", !.version = r.version + 1]
<1>1. CASE Matches(r.id, r.version)
  <2>1. /\ call[c].pc = "volume" /\ orders[r.id].version = r.version
        /\ orders' = [orders EXCEPT ![r.id] = row] /\ call' = [call EXCEPT ![c] = s]
        /\ UNCHANGED reported
    BY <1>1 DEF CompleteVolume, Matches
  <2>2. r \in CallState /\ r.id \in Order /\ r.version + 1 \in Nat
    BY <2>1, CallFacts DEF Idle
  <2>3. /\ s \in CallState /\ s.pc = "status" /\ s.version = r.version + 1
        /\ s.id = r.id /\ s.volume = r.volume /\ s.target = r.target
    BY <2>2, VolumeWritten, Zenon
  <2> HIDE DEF s
  <2>4. /\ r.id \in Order /\ row \in OrderRow /\ s \in CallState
        /\ row.version = orders[r.id].version + 1 /\ row.volume = s.volume
        /\ s.id = r.id /\ s.version = row.version /\ s.pc = "status"
        /\ row.status \notin {"completed", "cancelled", "failed", "none"}
        /\ CanTransition(WorkOrderStateMachine, row.status, s.target)
    BY <2>1, <2>2, <2>3, VolumeFacts
  <2> HIDE DEF row
  <2>5. orders \in [Order -> OrderRow \cup {NoOrder}] /\ call \in [Client -> CallState \cup {Idle}]
    BY DEF OrderInv, TypeOK
  <2>6. row # NoOrder
    BY <2>4 DEF NoOrder
  <2>7. RowsMove /\ orders' \in [Order -> OrderRow \cup {NoOrder}]
    BY <2>1, <2>4, <2>5, <2>6 DEF RowsMove
  <2>8. CompletedAsReported' /\ reported' \in [Order -> Volume \cup {0}]
    BY <2>1, <2>4, <2>5 DEF CompletedAsReported, OrderInv, TypeOK
  <2>9. orders'[s.id] = row /\ call'[c] = s /\ row.version \in Nat
    BY <2>1, <2>4, <2>5 DEF OrderRow
  <2>10. CallInv(c)'
    BY <2>4, <2>6, <2>9 DEF CallInv, Exists, Matches
  <2> QED BY <2>1, <2>4, <2>7, <2>8, <2>10, StepOf
<1>2. CASE ~Matches(r.id, r.version)
  <2>1. UNCHANGED <<orders, reported>> /\ call' = [call EXCEPT ![c] = Idle]
    BY <1>2 DEF CompleteVolume
  <2> QED BY <2>1, IdleInv, Reads, StepOf
<1> QED BY <1>1, <1>2

LEMMA UpdateStatusInv == ASSUME OrderInv, NEW c \in Client, UpdateStatus(c) PROVE OrderInv'
<1> DEFINE r == call[c]
           row == [status |-> r.target, volume |-> orders[r.id].volume,
                   version |-> orders[r.id].version + 1]
<1>0. r.pc = "status" /\ r # Idle /\ call' = [call EXCEPT ![c] = Idle]
  BY DEF UpdateStatus, Idle
<1>1. CASE Matches(r.id, r.version)
  <2>1. /\ orders' = [orders EXCEPT ![r.id] = row]
        /\ reported' = IF r.target = "completed" THEN [reported EXCEPT ![r.id] = r.volume]
                                                 ELSE reported
    BY <1>1 DEF UpdateStatus
  <2>2. /\ r.id \in Order /\ orders[r.id] \in OrderRow /\ r.volume \in Volume \cup {0}
        /\ r.target \in WorkOrderStatus /\ CallInv(c)
    BY <1>0, CallFacts
  <2>3. r.target = "completed" /\ r.volume > 0 => orders[r.id].volume = r.volume
    BY <1>0, <1>1, <2>2 DEF CallInv
  <2>4. /\ row \in OrderRow /\ row.version = orders[r.id].version + 1
        /\ row.volume = orders[r.id].volume /\ row.status = r.target
    BY <2>2 DEF OrderRow
  <2> HIDE DEF row
  <2>5. orders \in [Order -> OrderRow \cup {NoOrder}] /\ reported \in [Order -> Volume \cup {0}]
    BY DEF OrderInv, TypeOK
  <2>6. row # NoOrder
    BY <2>2, <2>4 DEF NoOrder, WorkOrderStatus
  <2>7. RowsMove /\ orders' \in [Order -> OrderRow \cup {NoOrder}]
    BY <2>1, <2>2, <2>4, <2>5, <2>6 DEF RowsMove
  <2>8. reported' \in [Order -> Volume \cup {0}]
    BY <2>1, <2>2, <2>5
  <2>9. CompletedAsReported'
    <3> SUFFICES ASSUME NEW o \in Order, orders'[o].status = "completed", reported'[o] > 0
                 PROVE  orders'[o].volume = reported'[o]
      BY DEF CompletedAsReported
    <3>1. CASE o = r.id
      BY <2>1, <2>2, <2>3, <2>4, <2>5, <3>1
    <3>2. CASE o # r.id
      BY <2>1, <2>2, <2>5, <3>2 DEF OrderInv, CompletedAsReported
    <3> QED BY <3>1, <3>2
  <2> QED BY <1>0, <2>7, <2>8, <2>9, IdleInv, StepOf
<1>2. CASE ~Matches(r.id, r.version)
  <2>1. UNCHANGED <<orders, reported>>
    BY <1>2 DEF UpdateStatus
  <2> QED BY <1>0, <2>1, IdleInv, Reads, StepOf
<1> QED BY <1>1, <1>2

LEMMA OrderStep == OrderInv /\ [Next]_vars => OrderInv'
<1> SUFFICES ASSUME OrderInv, [Next]_vars PROVE OrderInv'
  OBVIOUS
<1>1. ASSUME NEW o \in Order, Create(o) PROVE OrderInv'
  BY <1>1, CreateInv
<1>2. ASSUME NEW c \in Client, NEW o \in Order, Assign(c, o) \/ StartProgress(c, o) \/ Cancel(c, o)
      PROVE  OrderInv'
  <2>1. PICK target : Read(c, o, target, 0)
    BY <1>2 DEF Assign, StartProgress, Cancel
  <2> QED BY <2>1, ReadInv
<1>3. ASSUME NEW c \in Client, NEW o \in Order, NEW volume \in Volume, Complete(c, o, volume)
      PROVE  OrderInv'
  BY <1>3, ReadInv DEF Complete
<1>4. ASSUME NEW c \in Client, CompleteVolume(c) PROVE OrderInv'
  BY <1>4, CompleteVolumeInv
<1>5. ASSUME NEW c \in Client, UpdateStatus(c) PROVE OrderInv'
  BY <1>5, UpdateStatusInv
<1>6. ASSUME NEW c \in Client, CallFails(c) PROVE OrderInv'
  BY <1>6, CallFailsInv
<1>7. CASE UNCHANGED vars
  BY <1>7 DEF vars, OrderInv, TypeOK, CompletedAsReported, CallInv, Exists, Matches
<1> QED BY <1>1, <1>2, <1>3, <1>4, <1>5, <1>6, <1>7 DEF Next

\* No step of any operation leaves the inductive invariant.
THEOREM OrderInvariant == Spec => []OrderInv
<1> QED BY InitOrder, OrderStep, PTL DEF Spec

\* Every row and every handler's local state keeps its type, so no order is
\* ever left with a negative volume although handlers accept one.
THEOREM TypeCorrect == Spec => []TypeOK
<1>1. OrderInv => TypeOK
  BY DEF OrderInv
<1> QED BY <1>1, OrderInvariant, PTL

\* A completed order carries the volume that its own completion reported,
\* however many completions of it failed half-way or were overtaken.
THEOREM VolumeOfCompletion == Spec => []CompletedAsReported
<1>1. OrderInv => CompletedAsReported
  BY DEF OrderInv
<1> QED BY <1>1, OrderInvariant, PTL

-----------------------------------------------------------------------------

\* A statement at a version that still matches finds an order that is open.
LEMMA OpenWhenMatched ==
  ASSUME OrderInv, NEW c \in Client, call[c] # Idle, Matches(call[c].id, call[c].version)
  PROVE  orders[call[c].id].status \notin {"completed", "cancelled", "failed"}
BY CallFacts, ClosedIsFinal DEF CallInv

ClosedStay ==
  \A o \in Order : orders[o].status \in {"completed", "cancelled", "failed"} =>
    orders'[o] = orders[o]

LEMMA ClosedStep == OrderInv /\ [Next]_vars => ClosedStay
<1> SUFFICES ASSUME OrderInv, [Next]_vars PROVE ClosedStay
  OBVIOUS
<1>0. orders \in [Order -> OrderRow \cup {NoOrder}]
  BY DEF OrderInv, TypeOK
<1>1. ASSUME NEW o \in Order, Create(o) PROVE ClosedStay
  BY <1>0, <1>1 DEF Create, Exists, NoOrder, ClosedStay
<1>2. ASSUME NEW c \in Client, CompleteVolume(c) \/ UpdateStatus(c) PROVE ClosedStay
  <2>1. call[c] # Idle
    BY <1>2 DEF CompleteVolume, UpdateStatus, Idle
  <2>2. CASE Matches(call[c].id, call[c].version)
    BY <1>0, <1>2, <2>1, <2>2, CallFacts, OpenWhenMatched
       DEF CompleteVolume, UpdateStatus, ClosedStay
  <2>3. CASE ~Matches(call[c].id, call[c].version)
    BY <1>2, <2>3 DEF CompleteVolume, UpdateStatus, ClosedStay
  <2> QED BY <2>2, <2>3
<1>3. CASE UNCHANGED orders
  BY <1>3 DEF ClosedStay
<1> QED BY <1>1, <1>2, <1>3
        DEF Next, vars, Read, Assign, StartProgress, Cancel, Complete, CallFails

\* A completed, cancelled or failed order is never touched again, by however
\* many handlers that read it while it was open.
THEOREM ClosedForGood == Spec => ClosedStands
<1>1. OrderInv /\ [Next]_vars => [ClosedStay]_vars
  BY ClosedStep
<1>2. ClosedStands <=> [][ClosedStay]_vars
  BY DEF ClosedStands, ClosedStay
<1> QED BY <1>1, <1>2, OrderInvariant, PTL DEF Spec
=============================================================================
