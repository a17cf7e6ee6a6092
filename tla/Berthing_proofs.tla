--------------------------- MODULE Berthing_proofs ---------------------------
(***************************************************************************)
(* Proofs about Berthing for every set of windows and handlers, every set  *)
(* of periods, and any size of the batches, of the clock, the versions and *)
(* the levels, and any number of failures.                                 *)
(***************************************************************************)
EXTENDS Berthing, SequenceTheorems, TLAPS

-----------------------------------------------------------------------------
(* The inductive invariant: what each party knows of a row it read.  The   *)
(* version it holds is not ahead of the row's, and as long as the two      *)
(* agree the row is as it was read.                                        *)

\* A row the tick listed in one of these states.
RowKnown(row, states) ==
  /\ Exists(row.id)
  /\ row.version <= windows[row.id].version
  /\ Matches(row.id, row.version) =>
       windows[row.id].level = row.level /\ windows[row.id].status \in states

\* A release or intervention may still make its transition; a batch that is
\* inserting has a row to insert.
CallInv(c) ==
  LET r == call[c] IN
  /\ r.pc = "edit" =>
       /\ Exists(r.id)
       /\ r.version <= windows[r.id].version
       /\ Matches(r.id, r.version) =>
            CanTransition(WindowStateMachine, windows[r.id].status, r.target)
  /\ r.pc = "insert" => r.items # <<>>

\* The window whose escalation is about to be recorded has the level that
\* the record will name, and no record of that level yet.
TickInv ==
  /\ tick.pc = "activate" => \A row \in tick.rows : RowKnown(row, {"allocated"})
  /\ tick.pc \in {"escalate", "record"} => \A row \in tick.rows : RowKnown(row, OverdueStatus)
  /\ tick.pc = "record" =>
       /\ tick.done \in Listed
       /\ Exists(tick.done.id)
       /\ tick.done.level < windows[tick.done.id].level
       /\ \A i \in DOMAIN escalations[tick.done.id] :
            escalations[tick.done.id][i] <= tick.done.level

BerthInv ==
  /\ TypeOK
  /\ HistoryFollowsLevel
  /\ \A w \in WindowId : ~Exists(w) => escalations[w] = <<>>
  /\ \A c \in Client : CallInv(c)
  /\ TickInv

LEMMA InitBerth == Init => BerthInv
<1> SUFFICES ASSUME Init PROVE BerthInv
  OBVIOUS
<1>1. TypeOK
  BY BerthingAssumption DEF Init, TypeOK
<1>2. HistoryFollowsLevel
  BY DEF Init, HistoryFollowsLevel, Existing, Exists
<1> QED BY <1>1, <1>2 DEF Init, BerthInv, CallInv, TickInv, Idle

-----------------------------------------------------------------------------
(* What a row and the tick look like after several fields are set. *)

WithStatus(r, st, n) == [r EXCEPT !.status = st, !.version = n]

LEMMA StatusSet ==
  ASSUME NEW r \in WindowRow, NEW st \in WindowStatus, NEW n \in Nat
  PROVE  LET s == WithStatus(r, st, n) IN
         s \in WindowRow /\ s.status = st /\ s.version = n /\ s.level = r.level
<1> DEFINE m == [r EXCEPT !.status = st]
           s == [m EXCEPT !.version = n]
<1>1. m \in WindowRow /\ m.status = st /\ m.level = r.level
  BY DEF WindowRow
<1> HIDE DEF m
<1>2. s \in WindowRow /\ s.version = n /\ s.status = m.status /\ s.level = m.level
  BY <1>1 DEF WindowRow
<1> HIDE DEF s
<1>3. s = WithStatus(r, st, n)
  BY DEF s, m, WithStatus
<1> QED BY <1>1, <1>2, <1>3

WithLevel(r, l, n) == [r EXCEPT !.level = l, !.status = "escalated", !.version = n]

LEMMA LevelSet ==
  ASSUME NEW r \in WindowRow, NEW l \in Nat, NEW n \in Nat
  PROVE  LET s == WithLevel(r, l, n) IN
         s \in WindowRow /\ s.status = "escalated" /\ s.version = n /\ s.level = l
<1> DEFINE m == [r EXCEPT !.level = l]
           s == WithStatus(m, "escalated", n)
<1>1. m \in WindowRow /\ m.level = l
  BY DEF WindowRow
<1>2. "escalated" \in WindowStatus
  BY DEF WindowStatus
<1>3. s = WithLevel(r, l, n)
  BY DEF WithLevel, WithStatus
<1> HIDE DEF m
<1>4. s \in WindowRow /\ s.status = "escalated" /\ s.version = n /\ s.level = m.level
  BY <1>1, <1>2, StatusSet
<1> HIDE DEF s
<1> QED BY <1>1, <1>3, <1>4

WithRows(t, pc, rows) == [t EXCEPT !.pc = pc, !.rows = rows]

LEMMA TickSet ==
  ASSUME NEW t \in TickState, NEW pc \in {"activate", "list", "escalate", "record"},
         NEW rows \in SUBSET Listed
  PROVE  LET s == WithRows(t, pc, rows) IN
         s \in TickState /\ s.pc = pc /\ s.rows = rows /\ s.done = t.done
<1> DEFINE m == [t EXCEPT !.pc = pc]
           s == [m EXCEPT !.rows = rows]
<1>1. m \in TickState /\ m.pc = pc /\ m.done = t.done
  BY DEF TickState
<1> HIDE DEF m
<1>2. s \in TickState /\ s.pc = m.pc /\ s.rows = rows /\ s.done = m.done
  BY <1>1 DEF TickState
<1> HIDE DEF s
<1>3. s = WithRows(t, pc, rows)
  BY DEF s, m, WithRows
<1> QED BY <1>1, <1>2, <1>3

WithDone(t, rows, row) == [t EXCEPT !.pc = "record", !.rows = rows, !.done = row]

LEMMA TickSetDone ==
  ASSUME NEW t \in TickState, NEW rows \in SUBSET Listed, NEW row \in Listed
  PROVE  LET s == WithDone(t, rows, row) IN
         s \in TickState /\ s.pc = "record" /\ s.rows = rows /\ s.done = row
<1> DEFINE m == WithRows(t, "record", rows)
           s == [m EXCEPT !.done = row]
<1>1. s = WithDone(t, rows, row)
  BY DEF WithDone, WithRows
<1>2. m \in TickState /\ m.pc = "record" /\ m.rows = rows
  BY TickSet
<1> HIDE DEF m
<1>3. s \in TickState /\ s.pc = m.pc /\ s.rows = m.rows /\ s.done = row
  BY <1>2 DEF TickState
<1> HIDE DEF s
<1> QED BY <1>1, <1>2, <1>3

-----------------------------------------------------------------------------
(* What is known of a row survives what others write. *)

\* A step writes at most the version after the one it found, and takes no
\* level back.
RowsMove ==
  /\ windows' \in [WindowId -> WindowRow \cup {NoWindow}]
  /\ \A w \in WindowId : Exists(w) =>
       /\ Exists(w)'
       /\ windows'[w].level >= windows[w].level
       /\ windows'[w] = windows[w] \/ windows'[w].version = windows[w].version + 1

LEMMA RowFacts ==
  ASSUME BerthInv, NEW w \in WindowId, Exists(w)
  PROVE  /\ windows[w] \in WindowRow /\ windows[w].version \in Nat /\ windows[w].level \in Nat
         /\ windows[w].status \in WindowStatus
<1>1. windows[w] \in WindowRow
  BY DEF BerthInv, TypeOK, Exists
<1> QED BY <1>1 DEF WindowRow

LEMMA RowKept ==
  ASSUME BerthInv, RowsMove, NEW row \in Listed, NEW states, RowKnown(row, states)
  PROVE  RowKnown(row, states)'
<1>1. row.id \in WindowId /\ row.version \in Nat
  BY DEF Listed
<1>2. Exists(row.id) /\ windows[row.id].version \in Nat
  BY <1>1, RowFacts DEF RowKnown
<1> QED BY <1>1, <1>2 DEF RowKnown, RowsMove, Matches

LEMMA EditFacts ==
  ASSUME BerthInv, NEW c \in Client, call[c].pc = "edit"
  PROVE  /\ call[c].id \in WindowId /\ call[c].version \in Nat /\ call[c].target \in WindowStatus
         /\ Exists(call[c].id)
<1>1. call[c] \in EditState
  BY DEF BerthInv, TypeOK, BatchState, Idle
<1> QED BY <1>1 DEF EditState, BerthInv, CallInv

LEMMA CallKept ==
  ASSUME BerthInv, RowsMove, NEW c \in Client, call'[c] = call[c]
  PROVE  CallInv(c)'
<1>1. CallInv(c)
  BY DEF BerthInv
<1>2. CASE call[c].pc = "edit"
  <2>1. /\ call[c].id \in WindowId /\ call[c].version \in Nat /\ Exists(call[c].id)
        /\ windows[call[c].id].version \in Nat
    BY <1>2, EditFacts, RowFacts
  <2> QED BY <1>1, <1>2, <2>1 DEF CallInv, RowsMove, Matches
<1>3. CASE call[c].pc # "edit"
  BY <1>1, <1>3 DEF CallInv
<1> QED BY <1>2, <1>3

LEMMA CallsKept ==
  ASSUME BerthInv, RowsMove, UNCHANGED call
  PROVE  \A c \in Client : CallInv(c)'
BY CallKept

LEMMA TickFacts ==
  ASSUME BerthInv, tick # Idle
  PROVE  /\ tick \in TickState /\ tick.rows \in SUBSET Listed /\ tick.done \in Listed \cup {NoRow}
         /\ tick.pc \in {"activate", "list", "escalate", "record"}
<1>1. tick \in TickState
  BY DEF BerthInv, TypeOK
<1> QED BY <1>1 DEF TickState

LEMMA TickKept ==
  ASSUME BerthInv, RowsMove, UNCHANGED tick,
         tick.pc = "record" => escalations'[tick.done.id] = escalations[tick.done.id]
  PROVE  TickInv'
<1>1. TickInv
  BY DEF BerthInv
<1>2. tick.pc \in {"activate", "escalate", "record"} => tick.rows \subseteq Listed
  BY TickFacts DEF Idle
<1>3. tick.pc = "activate" => \A row \in tick.rows : RowKnown(row, {"allocated"})'
  BY <1>1, <1>2, RowKept DEF TickInv
<1>4. tick.pc \in {"escalate", "record"} => \A row \in tick.rows : RowKnown(row, OverdueStatus)'
  BY <1>1, <1>2, RowKept DEF TickInv
<1>5. ASSUME tick.pc = "record"
      PROVE  /\ tick.done \in Listed /\ Exists(tick.done.id)'
             /\ tick.done.level < windows'[tick.done.id].level
  <2>1. /\ tick.done \in Listed /\ Exists(tick.done.id)
        /\ tick.done.level < windows[tick.done.id].level
    BY <1>1, <1>5 DEF TickInv
  <2>2. tick.done.id \in WindowId /\ tick.done.level \in Nat
    BY <2>1 DEF Listed
  <2>3. windows[tick.done.id].level \in Nat
    BY <2>1, <2>2, RowFacts
  <2>4. Exists(tick.done.id)' /\ windows'[tick.done.id].level >= windows[tick.done.id].level
    BY <2>1, <2>2 DEF RowsMove
  <2>5. windows'[tick.done.id].level \in Nat
    BY <2>2, <2>4 DEF RowsMove, Exists, WindowRow
  <2> QED BY <2>1, <2>2, <2>3, <2>4, <2>5
<1>6. (OverdueStatus)' = OverdueStatus
  BY DEF OverdueStatus
<1> QED BY <1>1, <1>3, <1>4, <1>5, <1>6 DEF TickInv

\* The history of a window whose row moves stays below its level.
LEMMA HistoryKept ==
  ASSUME BerthInv, RowsMove, UNCHANGED escalations
  PROVE  HistoryFollowsLevel' /\ \A w \in WindowId : ~Exists(w)' => escalations'[w] = <<>>
<1>1. ASSUME NEW w \in WindowId, Exists(w)'
      PROVE  \A i \in DOMAIN escalations'[w] :
               /\ escalations'[w][i] <= windows'[w].level
               /\ i > 1 => escalations'[w][i - 1] < escalations'[w][i]
  <2>1. CASE Exists(w)
    <3>1. \A i \in DOMAIN escalations[w] :
            /\ escalations[w][i] <= windows[w].level
            /\ i > 1 => escalations[w][i - 1] < escalations[w][i]
      BY <2>1 DEF BerthInv, HistoryFollowsLevel, Existing
    <3>2. windows[w].level \in Nat /\ escalations[w] \in Seq(Nat)
      BY <2>1, RowFacts DEF BerthInv, TypeOK
    <3>3. windows'[w].level >= windows[w].level /\ windows'[w].level \in Nat
      BY <1>1, <2>1 DEF RowsMove, WindowRow, Exists
    <3>4. \A i \in DOMAIN escalations[w] : escalations[w][i] \in Nat
      BY <3>2
    <3>5. \A i \in DOMAIN escalations[w] : escalations[w][i] <= windows'[w].level
      <4> TAKE i \in DOMAIN escalations[w]
      <4>1. escalations[w][i] <= windows[w].level /\ escalations[w][i] \in Nat
        BY <3>1, <3>4
      <4> QED BY <3>2, <3>3, <4>1
    <3> QED BY <3>1, <3>5
  <2>2. CASE ~Exists(w)
    <3>1. escalations'[w] = <<>>
      BY <2>2 DEF BerthInv
    <3> QED BY <3>1
  <2> QED BY <2>1, <2>2
<1>2. \A w \in WindowId : ~Exists(w)' => ~Exists(w)
  BY DEF RowsMove
<1> QED BY <1>1, <1>2 DEF HistoryFollowsLevel, Existing, BerthInv

LEMMA Reads == ASSUME BerthInv, UNCHANGED windows PROVE RowsMove
<1>1. \A w \in WindowId : Exists(w) => windows[w].level \in Nat
  BY RowFacts
<1> QED BY <1>1 DEF RowsMove, BerthInv, TypeOK, Exists

LEMMA OneRowMoves ==
  ASSUME BerthInv, NEW w \in WindowId, Exists(w), NEW row \in WindowRow,
         row.version = windows[w].version + 1, row.level >= windows[w].level,
         windows' = [windows EXCEPT ![w] = row]
  PROVE  RowsMove
<1>1. windows \in [WindowId -> WindowRow \cup {NoWindow}] /\ row # NoWindow
  BY DEF BerthInv, TypeOK, WindowRow, WindowStatus, NoWindow
<1>2. \A v \in WindowId : Exists(v) => windows[v].level \in Nat
  BY RowFacts
<1> QED BY <1>1, <1>2 DEF RowsMove, Exists

LEMMA StatusUpdated ==
  ASSUME BerthInv, NEW w \in WindowId, Exists(w), NEW st \in WindowStatus, NEW version,
         UpdateWindowStatus(w, st, version)
  PROVE  RowsMove
<1>1. CASE Matches(w, version)
  <2> DEFINE row == WithStatus(windows[w], st, windows[w].version + 1)
  <2>1. /\ windows[w] \in WindowRow /\ windows[w].version + 1 \in Nat /\ windows[w].level \in Nat
    BY RowFacts
  <2>2. /\ row \in WindowRow /\ row.status = st /\ row.version = windows[w].version + 1
        /\ row.level = windows[w].level
    BY <2>1, StatusSet
  <2>3. windows' = [windows EXCEPT ![w] = row]
    BY <1>1 DEF UpdateWindowStatus, WithStatus
  <2> HIDE DEF row
  <2>4. row.level >= windows[w].level
    BY <2>1, <2>2
  <2> QED BY <2>2, <2>3, <2>4, OneRowMoves
<1>2. CASE ~Matches(w, version)
  BY <1>2, Reads DEF UpdateWindowStatus
<1> QED BY <1>1, <1>2

\* An escalation raises the level of the window it was listed at by one.
LEMMA LevelUpdated ==
  ASSUME BerthInv, NEW row \in Listed, RowKnown(row, OverdueStatus),
         UpdateWindowAssignedTo(row.id, row.level + 1, row.version)
  PROVE  /\ RowsMove
         /\ Escalated(row) => /\ windows'[row.id].level = row.level + 1
                              /\ windows[row.id].level = row.level
<1> DEFINE w == row.id
<1>1. w \in WindowId /\ row.level \in Nat /\ row.level + 1 \in Nat
  BY DEF Listed
<1>2. Exists(w)
  BY DEF RowKnown
<1>3. /\ windows[w] \in WindowRow /\ windows[w].version + 1 \in Nat /\ windows[w].level \in Nat
  BY <1>1, <1>2, RowFacts
<1>4. CASE Matches(w, row.version)
  <2> DEFINE new == WithLevel(windows[w], row.level + 1, windows[w].version + 1)
  <2>1. windows' = [windows EXCEPT ![w] = new]
    BY <1>4 DEF UpdateWindowAssignedTo, WithLevel
  <2>2. /\ new \in WindowRow /\ new.status = "escalated" /\ new.version = windows[w].version + 1
        /\ new.level = row.level + 1
    BY <1>1, <1>3, LevelSet
  <2> HIDE DEF new
  <2>3. windows[w].level = row.level
    BY <1>4 DEF RowKnown
  <2>4. windows'[w] = new
    BY <1>1, <2>1 DEF BerthInv, TypeOK
  <2>5. new.level >= windows[w].level
    BY <1>1, <2>2, <2>3
  <2>6. RowsMove
    BY <1>1, <1>2, <2>1, <2>2, <2>5, OneRowMoves
  <2> QED BY <2>2, <2>3, <2>4, <2>6
<1>5. CASE ~Matches(w, row.version)
  BY <1>5, Reads DEF UpdateWindowAssignedTo, Escalated
<1> QED BY <1>4, <1>5

-----------------------------------------------------------------------------
(* Clients. *)

\* A step of a client has to establish what that client knows afterwards.
LEMMA ClientStepOf ==
  ASSUME BerthInv, RowsMove, NEW c \in Client, NEW s \in BatchState \cup EditState \cup {Idle},
         call' = [call EXCEPT ![c] = s], CallInv(c)',
         UNCHANGED <<escalations, clock, tick, faults>>
  PROVE  BerthInv'
<1>1. call \in [Client -> BatchState \cup EditState \cup {Idle}]
  BY DEF BerthInv, TypeOK
<1>2. TypeOK'
  BY <1>1 DEF BerthInv, TypeOK, RowsMove
<1>3. \A d \in Client : CallInv(d)'
  BY <1>1, CallKept
<1>4. TickInv'
  BY TickKept
<1>5. HistoryFollowsLevel' /\ \A w \in WindowId : ~Exists(w)' => escalations'[w] = <<>>
  BY HistoryKept
<1> QED BY <1>2, <1>3, <1>4, <1>5 DEF BerthInv

LEMMA CallUpdated ==
  ASSUME BerthInv, NEW c \in Client, NEW s, call' = [call EXCEPT ![c] = s]
  PROVE  call'[c] = s
BY DEF BerthInv, TypeOK

\* A handler that answers knows nothing more.
LEMMA AnswerInv ==
  ASSUME BerthInv, RowsMove, NEW c \in Client, call' = [call EXCEPT ![c] = Idle],
         UNCHANGED <<escalations, clock, tick, faults>>
  PROVE  BerthInv'
<1>1. call'[c] = Idle
  BY CallUpdated
<1>2. CallInv(c)'
  BY <1>1 DEF CallInv, Idle
<1> QED BY <1>2, ClientStepOf

LEMMA BatchStartInv ==
  ASSUME BerthInv, NEW c \in Client, NEW n \in 1..MaxBatch, NEW items \in [1..n -> Items],
         BatchStart(c, items)
  PROVE  BerthInv'
<1> DEFINE s == [pc |-> "insert", items |-> items, stored |-> {}]
<1>1. /\ call' = [call EXCEPT ![c] = s] /\ UNCHANGED <<windows, escalations, clock, tick, faults>>
  BY DEF BatchStart
<1>2. Items \subseteq Item
  BY BerthingAssumption DEF Items, Item
<1>3. items \in Seq(Item) /\ items # <<>>
  <2>1. n \in Nat /\ n >= 1
    BY BerthingAssumption
  <2>2. items \in [1..n -> Item] /\ 1 \in DOMAIN items
    BY <1>2, <2>1
  <2>3. items # <<>>
    BY <2>2
  <2> QED BY <2>1, <2>2, <2>3
<1>4. s \in BatchState /\ s.pc = "insert" /\ s.items = items
  BY <1>3 DEF BatchState
<1> HIDE DEF s
<1>5. CallInv(c)'
  BY <1>1, <1>3, <1>4, CallUpdated DEF CallInv
<1> QED BY <1>1, <1>4, <1>5, Reads, ClientStepOf

LEMMA BatchFacts ==
  ASSUME BerthInv, NEW c \in Client, call[c].pc = "insert"
  PROVE  /\ call[c] \in BatchState /\ call[c].items \in Seq(Item) /\ call[c].items # <<>>
         /\ call[c].stored \in SUBSET WindowId
         /\ Head(call[c].items).effective \in Nat /\ Head(call[c].items).deadline \in Nat
<1>1. call[c] \in BatchState
  BY DEF BerthInv, TypeOK, EditState, Idle
<1>2. call[c].items \in Seq(Item) /\ call[c].items # <<>> /\ call[c].stored \in SUBSET WindowId
  BY <1>1 DEF BatchState, BerthInv, CallInv
<1>3. Head(call[c].items) \in Item
  BY <1>2
<1> QED BY <1>1, <1>2, <1>3 DEF Item

LEMMA TailNotEmpty ==
  ASSUME NEW S, NEW q \in Seq(S), q # <<>>, Len(q) # 1
  PROVE  Tail(q) \in Seq(S) /\ Tail(q) # <<>>
<1>1. Len(q) \in Nat \ {0} /\ Len(<<>>) = 0
  BY EmptySeq
<1>2. Tail(q) \in Seq(S) /\ Len(Tail(q)) = Len(q) - 1
  BY HeadTailProperties
<1>3. Len(Tail(q)) # 0
  BY <1>1, <1>2
<1> QED BY <1>1, <1>2, <1>3

LEMMA BatchInsertInv == ASSUME BerthInv, NEW c \in Client, BatchInsert(c) PROVE BerthInv'
<1>1. PICK w \in WindowId :
        /\ ~Exists(w)
        /\ StoreWindow(w, Head(call[c].items))
        /\ call' = [call EXCEPT ![c] =
                      IF Len(call[c].items) = 1 THEN Idle
                      ELSE [pc |-> "insert", items |-> Tail(call[c].items),
                            stored |-> call[c].stored \cup {w}]]
  BY DEF BatchInsert
<1>2. /\ call[c].items \in Seq(Item) /\ call[c].items # <<>> /\ call[c].stored \in SUBSET WindowId
      /\ Head(call[c].items).effective \in Nat /\ Head(call[c].items).deadline \in Nat
      /\ UNCHANGED <<escalations, clock, tick, faults>>
  BY BatchFacts DEF BatchInsert
<1>3. RowsMove
  <2> DEFINE row == [effective |-> Head(call[c].items).effective,
                     deadline |-> Head(call[c].items).deadline,
                     status |-> "allocated", level |-> 0, version |-> 1]
  <2>1. row \in WindowRow /\ windows' = [windows EXCEPT ![w] = row]
    BY <1>1, <1>2 DEF StoreWindow, WindowRow, WindowStatus
  <2> HIDE DEF row
  <2>2. windows \in [WindowId -> WindowRow \cup {NoWindow}]
    BY DEF BerthInv, TypeOK
  <2>3. \A v \in WindowId : Exists(v) => windows[v].level \in Nat
    BY RowFacts
  <2> QED BY <1>1, <2>1, <2>2, <2>3 DEF RowsMove, Exists
<1>4. CASE Len(call[c].items) = 1
  BY <1>1, <1>2, <1>3, <1>4, AnswerInv
<1>5. CASE Len(call[c].items) # 1
  <2> DEFINE s == [pc |-> "insert", items |-> Tail(call[c].items),
                   stored |-> call[c].stored \cup {w}]
  <2>1. Tail(call[c].items) \in Seq(Item) /\ Tail(call[c].items) # <<>>
    BY <1>2, <1>5, TailNotEmpty
  <2>2. s \in BatchState /\ s.pc = "insert" /\ s.items # <<>>
    BY <1>2, <2>1 DEF BatchState
  <2>3. call' = [call EXCEPT ![c] = s]
    BY <1>1, <1>5
  <2> HIDE DEF s
  <2>4. CallInv(c)'
    BY <2>2, <2>3, CallUpdated DEF CallInv
  <2> QED BY <1>2, <1>3, <2>2, <2>3, <2>4, ClientStepOf
<1> QED BY <1>4, <1>5

LEMMA BatchFailsInv == ASSUME BerthInv, NEW c \in Client, BatchFails(c) PROVE BerthInv'
<1> DEFINE s == [call[c] EXCEPT !.pc = "failed"]
<1>1. /\ call[c].pc = "insert" /\ call' = [call EXCEPT ![c] = s]
      /\ UNCHANGED <<windows, escalations, clock, tick, faults>>
  BY DEF BatchFails
<1>2. s \in BatchState /\ s.pc = "failed"
  BY <1>1, BatchFacts DEF BatchState
<1> HIDE DEF s
<1>3. CallInv(c)'
  <2>1. call'[c] = s
    BY <1>1, CallUpdated
  <2> QED BY <1>2, <2>1 DEF CallInv
<1> QED BY <1>1, <1>2, <1>3, Reads, ClientStepOf

LEMMA ForceInterveneInv ==
  ASSUME BerthInv, NEW c \in Client, NEW w \in WindowId, NEW target \in WindowStatus,
         ForceIntervene(c, w, target)
  PROVE  BerthInv'
<1> DEFINE s == [pc |-> "edit", id |-> w, target |-> target, version |-> windows[w].version]
<1>1. /\ call' = [call EXCEPT ![c] = s] /\ UNCHANGED <<windows, escalations, clock, tick, faults>>
      /\ Exists(w) /\ CanTransition(WindowStateMachine, windows[w].status, target)
  BY DEF ForceIntervene
<1>2. windows[w].version \in Nat
  BY <1>1, RowFacts
<1>3. /\ s \in EditState /\ s.pc = "edit" /\ s.id = w /\ s.target = target
      /\ s.version = windows[w].version
  BY <1>2 DEF EditState
<1> HIDE DEF s
<1>4. CallInv(c)'
  <2>1. call'[c] = s
    BY <1>1, CallUpdated
  <2> QED BY <1>1, <1>2, <1>3, <2>1 DEF CallInv, Exists, Matches
<1> QED BY <1>1, <1>3, <1>4, Reads, ClientStepOf

LEMMA EditWriteInv == ASSUME BerthInv, NEW c \in Client, EditWrite(c) PROVE BerthInv'
<1>1. RowsMove
  BY EditFacts, StatusUpdated DEF EditWrite
<1> QED BY <1>1, AnswerInv DEF EditWrite

LEMMA ClientStepInv == ASSUME BerthInv, NEW c \in Client, ClientStep(c) PROVE BerthInv'
<1>1. CASE \E n \in 1..MaxBatch : \E items \in [1..n -> Items] : BatchStart(c, items)
  BY <1>1, BatchStartInv
<1>2. CASE BatchInsert(c) \/ BatchFails(c) \/ EditWrite(c)
  BY <1>2, BatchInsertInv, BatchFailsInv, EditWriteInv
<1>3. CASE \E w \in WindowId :
             Release(c, w) \/ \E target \in WindowStatus : ForceIntervene(c, w, target)
  <2>1. "released" \in WindowStatus
    BY DEF WindowStatus
  <2> QED BY <1>3, <2>1, ForceInterveneInv DEF Release
<1>4. CASE CallEnds(c)
  BY <1>4, Reads, AnswerInv DEF CallEnds
<1> QED BY <1>1, <1>2, <1>3, <1>4 DEF ClientStep

-----------------------------------------------------------------------------
(* The tick. *)

\* A step of the tick has to establish what the tick knows afterwards.
LEMMA TickStepOf ==
  ASSUME BerthInv, RowsMove, tick' \in TickState \cup {Idle}, TickInv',
         faults' \in 0..MaxFaults, UNCHANGED <<escalations, clock, call>>
  PROVE  BerthInv'
<1>1. TypeOK'
  BY DEF BerthInv, TypeOK, RowsMove
<1>2. HistoryFollowsLevel' /\ \A w \in WindowId : ~Exists(w)' => escalations'[w] = <<>>
  BY HistoryKept
<1> QED BY <1>1, <1>2, CallsKept DEF BerthInv

LEMMA FaultTypes ==
  ASSUME BerthInv, UNCHANGED faults \/ EngineFault
  PROVE  faults' \in 0..MaxFaults
BY BerthingAssumption DEF BerthInv, TypeOK, EngineFault

\* An idle tick, and one at the start of step 2, knows no rows.
LEMMA NothingKnown ==
  ASSUME tick' = Idle \/ tick' = [pc |-> "list", rows |-> {}, done |-> NoRow]
  PROVE  tick' \in TickState \cup {Idle} /\ TickInv'
BY DEF TickState, TickInv, Idle

\* What the tick listed is so at that moment.
LEMMA ListedKnown ==
  ASSUME BerthInv, NEW ws \in SUBSET Existing, NEW states,
         \A w \in ws : windows[w].status \in states
  PROVE  AsListed(ws) \subseteq Listed /\ \A row \in AsListed(ws) : RowKnown(row, states)
<1> SUFFICES ASSUME NEW w \in ws
             PROVE  LET row == [id |-> w, level |-> windows[w].level, version |-> windows[w].version]
                    IN row \in Listed /\ RowKnown(row, states)
  BY DEF AsListed
<1>1. w \in WindowId /\ Exists(w)
  BY DEF Existing
<1>2. windows[w].level \in Nat /\ windows[w].version \in Nat
  BY <1>1, RowFacts
<1> QED BY <1>1, <1>2 DEF Listed, RowKnown

\* The tick goes on with some of the rows it knew.
LEMMA ProceedInv ==
  ASSUME BerthInv, RowsMove, NEW rows \in SUBSET tick.rows, tick # Idle,
         NEW pc, NEW states,
         \/ pc = "activate" /\ states = {"allocated"}
         \/ pc = "escalate" /\ states = OverdueStatus,
         \A row \in tick.rows : RowKnown(row, states),
         NEW next \in {"list", "idle"}, Proceed(pc, rows, next)
  PROVE  tick' \in TickState \cup {Idle} /\ TickInv'
<1>1. CASE rows # {}
  <2>1. tick' = [pc |-> pc, rows |-> rows, done |-> NoRow]
    BY <1>1 DEF Proceed
  <2>2. rows \subseteq Listed
    BY TickFacts
  <2>3. \A row \in rows : RowKnown(row, states)'
    BY <2>2, RowKept
  <2>4. OverdueStatus' = OverdueStatus
    BY DEF OverdueStatus
  <2>5. tick'.pc = pc /\ tick'.rows = rows /\ tick' \in TickState
    BY <2>1, <2>2 DEF TickState
  <2> QED BY <2>3, <2>4, <2>5 DEF TickInv
<1>2. CASE rows = {}
  <2>1. tick' = Idle \/ tick' = [pc |-> "list", rows |-> {}, done |-> NoRow]
    BY <1>2 DEF Proceed
  <2> QED BY <2>1, NothingKnown
<1> QED BY <1>1, <1>2

\* What the tick knows while it goes through its rows.
LEMMA TickRows ==
  ASSUME BerthInv
  PROVE  /\ tick.pc \in {"activate", "escalate", "record"} =>
              tick # Idle /\ tick.rows \subseteq Listed
         /\ tick.pc = "activate" => \A row \in tick.rows : RowKnown(row, {"allocated"})
         /\ tick.pc \in {"escalate", "record"} =>
              \A row \in tick.rows : RowKnown(row, OverdueStatus)
BY TickFacts DEF BerthInv, TickInv, Idle

LEMMA ActivateListInv == ASSUME BerthInv, ActivateList PROVE BerthInv'
<1> DEFINE due == AsListed(DueForActivation)
<1>1. /\ tick' = [pc |-> IF due = {} THEN "list" ELSE "activate", rows |-> due, done |-> NoRow]
      /\ UNCHANGED <<windows, escalations, clock, call, faults>>
  BY DEF ActivateList
<1>2. due \subseteq Listed /\ \A row \in due : RowKnown(row, {"allocated"})
  BY ListedKnown DEF DueForActivation
<1> HIDE DEF due
<1>3. tick' \in TickState /\ tick'.pc \in {"list", "activate"} /\ tick'.rows = due
  BY <1>1, <1>2 DEF TickState
<1>4. \A row \in due : RowKnown(row, {"allocated"})'
  BY <1>1, <1>2 DEF RowKnown, Exists, Matches
<1>5. TickInv'
  BY <1>3, <1>4 DEF TickInv
<1> QED BY <1>1, <1>3, <1>5, Reads, FaultTypes, TickStepOf

LEMMA ActivateWriteInv == ASSUME BerthInv, ActivateWrite PROVE BerthInv'
<1>1. PICK row \in tick.rows :
        /\ UpdateWindowStatus(row.id, "effective", row.version)
        /\ Proceed("activate", tick.rows \ {row}, "list")
  BY DEF ActivateWrite
<1>2. tick # Idle /\ row \in Listed /\ \A r \in tick.rows : RowKnown(r, {"allocated"})
  BY TickRows DEF ActivateWrite
<1>3. row.id \in WindowId /\ Exists(row.id) /\ "effective" \in WindowStatus
  BY <1>2 DEF Listed, RowKnown, WindowStatus
<1>4. RowsMove
  BY <1>1, <1>3, StatusUpdated
<1>5. tick' \in TickState \cup {Idle} /\ TickInv'
  BY <1>1, <1>2, <1>4, ProceedInv
<1> QED BY <1>4, <1>5, FaultTypes, TickStepOf DEF ActivateWrite

LEMMA EscalateListInv == ASSUME BerthInv, EscalateList PROVE BerthInv'
<1>1. tick.pc = "list" /\ UNCHANGED <<windows, escalations, clock, call, faults>>
  BY DEF EscalateList
<1>2. CASE Overdue = {}
  BY <1>1, <1>2, NothingKnown, Reads, FaultTypes, TickStepOf DEF EscalateList
<1>3. CASE Overdue # {}
  <2> DEFINE due == AsListed(Overdue)
  <2>1. tick' = WithRows(tick, "escalate", due)
    BY <1>3 DEF EscalateList, WithRows
  <2>2. due \subseteq Listed /\ \A row \in due : RowKnown(row, OverdueStatus)
    BY ListedKnown DEF Overdue
  <2>3. tick \in TickState
    BY <1>1, TickFacts DEF Idle
  <2> HIDE DEF due
  <2>4. tick' \in TickState /\ tick'.pc = "escalate" /\ tick'.rows = due
    BY <2>1, <2>2, <2>3, TickSet
  <2>5. \A row \in due : RowKnown(row, OverdueStatus)'
    BY <1>1, <2>2 DEF RowKnown, Exists, Matches, OverdueStatus
  <2>6. TickInv'
    BY <2>4, <2>5 DEF TickInv
  <2> QED BY <1>1, <2>4, <2>6, Reads, FaultTypes, TickStepOf
<1> QED BY <1>2, <1>3

\* The records of a window that exists are not ahead of its level.
LEMMA HistoryFacts ==
  ASSUME BerthInv, NEW w \in WindowId, Exists(w)
  PROVE  /\ escalations[w] \in Seq(Nat)
         /\ \A i \in DOMAIN escalations[w] :
              /\ escalations[w][i] <= windows[w].level
              /\ i > 1 => escalations[w][i - 1] < escalations[w][i]
BY DEF BerthInv, TypeOK, HistoryFollowsLevel, Existing

LEMMA EscalateWriteInv == ASSUME BerthInv, EscalateWrite PROVE BerthInv'
<1>1. PICK row \in tick.rows :
        /\ UpdateWindowAssignedTo(row.id, row.level + 1, row.version)
        /\ IF Escalated(row)
           THEN tick' = WithDone(tick, tick.rows \ {row}, row)
           ELSE Proceed("escalate", tick.rows \ {row}, "idle")
  BY DEF EscalateWrite, WithDone
<1>2. tick # Idle /\ row \in Listed /\ \A r \in tick.rows : RowKnown(r, OverdueStatus)
  BY TickRows DEF EscalateWrite
<1>3. /\ RowsMove
      /\ Escalated(row) => windows'[row.id].level = row.level + 1 /\ windows[row.id].level = row.level
  BY <1>1, <1>2, LevelUpdated
<1>4. tick' \in TickState \cup {Idle} /\ TickInv'
  <2>1. CASE ~Escalated(row)
    BY <1>1, <1>2, <1>3, <2>1, ProceedInv
  <2>2. CASE Escalated(row)
    <3>1. tick \in TickState /\ tick.rows \ {row} \in SUBSET Listed
      BY <1>2, TickFacts
    <3>2. tick' \in TickState /\ tick'.pc = "record" /\ tick'.rows = tick.rows \ {row} /\ tick'.done = row
      BY <1>1, <1>2, <2>2, <3>1, TickSetDone
    <3>3. \A r \in tick'.rows : RowKnown(r, OverdueStatus)'
      BY <1>2, <1>3, <3>1, <3>2, RowKept
    <3>4. row.id \in WindowId /\ row.level \in Nat /\ Exists(row.id) /\ Exists(row.id)'
      BY <1>2, <1>3 DEF Listed, RowKnown, RowsMove
    <3>5. row.level < windows'[row.id].level
      BY <1>3, <2>2, <3>4
    <3>6. \A i \in DOMAIN escalations'[row.id] : escalations'[row.id][i] <= row.level
      BY <1>3, <2>2, <3>4, HistoryFacts DEF EscalateWrite
    <3>7. OverdueStatus' = OverdueStatus
      BY DEF OverdueStatus
    <3> QED BY <1>2, <3>2, <3>3, <3>4, <3>5, <3>6, <3>7 DEF TickInv
  <2> QED BY <2>1, <2>2
<1> QED BY <1>3, <1>4, FaultTypes, TickStepOf DEF EscalateWrite

\* A history stays sorted, and below a level, when a level is appended that
\* is above all of it.
LEMMA HistoryAppended ==
  ASSUME NEW h \in Seq(Nat), NEW n \in Nat, NEW level \in Nat, n < level,
         \A i \in DOMAIN h : h[i] <= n /\ (i > 1 => h[i - 1] < h[i])
  PROVE  LET g == Append(h, n + 1) IN
         /\ g \in Seq(Nat)
         /\ \A i \in DOMAIN g : g[i] <= level /\ (i > 1 => g[i - 1] < g[i])
<1> DEFINE g == Append(h, n + 1)
           k == Len(h)
<1>1. k \in Nat /\ DOMAIN h = 1..k /\ \A i \in 1..k : h[i] \in Nat
  BY LenProperties
<1>2. n + 1 \in Nat
  OBVIOUS
<1>3. /\ g \in Seq(Nat) /\ Len(g) = k + 1
      /\ \A i \in 1..k : g[i] = h[i]
      /\ g[k + 1] = n + 1
  BY <1>2, AppendProperties
<1> HIDE DEF g
<1>4. DOMAIN g = 1..(k + 1)
  BY <1>3, LenProperties
<1> HIDE DEF k
<1>5. ASSUME NEW i \in 1..(k + 1) PROVE g[i] <= level /\ (i > 1 => g[i - 1] < g[i])
  <2>1. CASE i = k + 1
    <3>1. g[i] = n + 1 /\ g[i] <= level
      BY <1>3, <2>1
    <3>2. ASSUME i > 1 PROVE g[i - 1] < g[i]
      <4>1. i - 1 \in 1..k
        BY <1>1, <2>1, <3>2
      <4>2. g[i - 1] = h[i - 1] /\ h[i - 1] \in Nat /\ h[i - 1] <= n
        BY <1>1, <1>3, <4>1
      <4> QED BY <3>1, <4>2
    <3> QED BY <3>1, <3>2
  <2>2. CASE i \in 1..k
    <3>1. g[i] = h[i] /\ h[i] \in Nat /\ h[i] <= n /\ (i > 1 => h[i - 1] < h[i])
      BY <1>1, <1>3, <2>2
    <3>2. g[i] <= level
      BY <3>1
    <3>3. i > 1 => i - 1 \in 1..k
      BY <1>1, <2>2
    <3>4. i > 1 => g[i - 1] = h[i - 1]
      BY <1>3, <3>3
    <3> QED BY <3>1, <3>2, <3>4
  <2> QED BY <1>1, <2>1, <2>2
<1> QED BY <1>3, <1>4, <1>5 DEF g

LEMMA EscalateRecordInv == ASSUME BerthInv, EscalateRecord PROVE BerthInv'
<1> DEFINE w == tick.done.id
           n == tick.done.level
           g == Append(escalations[w], n + 1)
<1>1. /\ tick.pc = "record" /\ escalations' = [escalations EXCEPT ![w] = g]
      /\ Proceed("escalate", tick.rows, "idle") /\ UNCHANGED <<windows, clock, call, faults>>
  BY DEF EscalateRecord
<1>2. /\ tick # Idle /\ tick.rows \subseteq Listed
      /\ \A row \in tick.rows : RowKnown(row, OverdueStatus)
  BY <1>1, TickRows
<1>3. /\ tick.done \in Listed /\ Exists(w) /\ n < windows[w].level
      /\ \A i \in DOMAIN escalations[w] : escalations[w][i] <= n
  BY <1>1 DEF BerthInv, TickInv
<1>4. w \in WindowId /\ n \in Nat
  BY <1>3 DEF Listed
<1>5. windows[w].level \in Nat /\ escalations[w] \in Seq(Nat)
  BY <1>3, <1>4, RowFacts, HistoryFacts
<1>6. \A i \in DOMAIN escalations[w] :
        escalations[w][i] <= n /\ (i > 1 => escalations[w][i - 1] < escalations[w][i])
  BY <1>3, <1>4, HistoryFacts
<1> HIDE DEF w, n
<1>7. /\ g \in Seq(Nat)
      /\ \A i \in DOMAIN g : g[i] <= windows[w].level /\ (i > 1 => g[i - 1] < g[i])
  BY <1>3, <1>4, <1>5, <1>6, HistoryAppended
<1> HIDE DEF g
<1>8. RowsMove
  BY <1>1, Reads
<1>9. tick' \in TickState \cup {Idle} /\ TickInv'
  BY <1>1, <1>2, <1>8, ProceedInv
<1>10. escalations \in [WindowId -> Seq(Nat)]
  BY DEF BerthInv, TypeOK
<1>11. TypeOK'
  BY <1>1, <1>4, <1>7, <1>9, <1>10 DEF BerthInv, TypeOK
<1>12. HistoryFollowsLevel'
  <2> SUFFICES ASSUME NEW v \in WindowId, Exists(v)
               PROVE  \A i \in DOMAIN escalations'[v] :
                        /\ escalations'[v][i] <= windows[v].level
                        /\ i > 1 => escalations'[v][i - 1] < escalations'[v][i]
    BY <1>1 DEF HistoryFollowsLevel, Existing, Exists
  <2>1. CASE v = w
    BY <1>1, <1>4, <1>7, <1>10, <2>1
  <2>2. CASE v # w
    <3>1. escalations'[v] = escalations[v]
      BY <1>1, <1>10, <2>2
    <3> QED BY <3>1, HistoryFacts
  <2> QED BY <2>1, <2>2
<1>13. \A v \in WindowId : ~Exists(v)' => escalations'[v] = <<>>
  <2> TAKE v \in WindowId
  <2>1. CASE v = w
    BY <1>1, <1>3, <2>1 DEF Exists
  <2>2. CASE v # w
    BY <1>1, <1>10, <2>2 DEF BerthInv, Exists
  <2> QED BY <2>1, <2>2
<1>14. \A c \in Client : CallInv(c)'
  BY <1>1, <1>8, CallsKept
<1> QED BY <1>9, <1>11, <1>12, <1>13, <1>14 DEF BerthInv

LEMMA TickFailsInv == ASSUME BerthInv, TickFails PROVE BerthInv'
<1>1. RowsMove /\ faults' \in 0..MaxFaults /\ UNCHANGED <<windows, escalations, clock, call>>
  BY Reads, FaultTypes DEF TickFails
<1>2. tick' \in TickState \cup {Idle} /\ TickInv'
  <2>1. CASE tick' = Idle \/ tick' = [pc |-> "list", rows |-> {}, done |-> NoRow]
    BY <2>1, NothingKnown
  <2>2. CASE /\ tick.pc = "activate"
             /\ \E row \in tick.rows : Proceed("activate", tick.rows \ {row}, "list")
    BY <1>1, <2>2, TickRows, ProceedInv
  <2>3. CASE /\ tick.pc = "escalate"
             /\ \E row \in tick.rows : Proceed("escalate", tick.rows \ {row}, "idle")
    BY <1>1, <2>3, TickRows, ProceedInv
  <2>4. CASE tick.pc = "record" /\ Proceed("escalate", tick.rows, "idle")
    BY <1>1, <2>4, TickRows, ProceedInv
  <2> QED BY <2>1, <2>2, <2>3, <2>4 DEF TickFails
<1> QED BY <1>1, <1>2, TickStepOf

LEMMA SchedulerCrashInv == ASSUME BerthInv, SchedulerCrash PROVE BerthInv'
BY NothingKnown, Reads, FaultTypes, TickStepOf DEF SchedulerCrash

LEMMA ClockTickInv == ASSUME BerthInv, ClockTick PROVE BerthInv'
<1>1. /\ clock < MaxTime /\ clock' = clock + 1
      /\ UNCHANGED <<windows, escalations, call, tick, faults>>
  BY DEF ClockTick
<1>2. RowsMove
  BY <1>1, Reads
<1>3. TypeOK'
  BY <1>1, BerthingAssumption DEF BerthInv, TypeOK
<1> QED BY <1>1, <1>2, <1>3, CallsKept, TickKept, HistoryKept DEF BerthInv

-----------------------------------------------------------------------------
(* The theorems. *)

LEMMA BerthStep == BerthInv /\ [Next]_vars => BerthInv'
<1> SUFFICES ASSUME BerthInv, [Next]_vars PROVE BerthInv'
  OBVIOUS
<1>1. ASSUME NEW c \in Client, ClientStep(c) PROVE BerthInv'
  BY <1>1, ClientStepInv
<1>2. CASE EngineTick
  BY <1>2, ActivateListInv, ActivateWriteInv, EscalateListInv, EscalateWriteInv, EscalateRecordInv
     DEF EngineTick
<1>3. CASE TickFails \/ SchedulerCrash \/ ClockTick
  BY <1>3, TickFailsInv, SchedulerCrashInv, ClockTickInv
<1>4. CASE UNCHANGED vars
  <2>1. UNCHANGED <<windows, escalations, clock, call, tick, faults>>
    BY <1>4 DEF vars
  <2>2. RowsMove
    BY <2>1, Reads
  <2>3. TypeOK'
    BY <2>1 DEF BerthInv, TypeOK
  <2> QED BY <2>1, <2>2, <2>3, CallsKept, TickKept, HistoryKept DEF BerthInv
<1> QED BY <1>1, <1>2, <1>3, <1>4 DEF Next

\* No step of the tick, of a client or of a failure leaves the inductive
\* invariant.
THEOREM BerthInvariant == Spec => []BerthInv
<1> QED BY InitBerth, BerthStep, PTL DEF Spec

\* Every row, and what every handler and the tick remember, keeps its type:
\* no window is ever stored with a status outside the table of the machine.
THEOREM BerthTypeCorrect == Spec => []TypeOK
<1>1. BerthInv => TypeOK
  BY DEF BerthInv
<1> QED BY <1>1, BerthInvariant, PTL

\* The escalation records of a window are levels that it has reached, each
\* once and in order, whatever was lost in between.
THEOREM HistoryTrue == Spec => []HistoryFollowsLevel
<1>1. BerthInv => HistoryFollowsLevel
  BY DEF BerthInv
<1> QED BY <1>1, BerthInvariant, PTL

-----------------------------------------------------------------------------
(* Statuses. *)

LegalMoves ==
  \A w \in WindowId : Exists(w) /\ windows'[w].status # windows[w].status =>
    CanTransition(WindowStateMachine, windows[w].status, windows'[w].status)

\* One statement moves one status, if it matches, and along the machine.
LEMMA OneStatusMoves ==
  ASSUME BerthInv, NEW w \in WindowId, NEW row,
         windows' = [windows EXCEPT ![w] = row],
         \/ ~Exists(w)
         \/ row.status = windows[w].status
         \/ CanTransition(WindowStateMachine, windows[w].status, row.status)
  PROVE  LegalMoves
<1>1. windows \in [WindowId -> WindowRow \cup {NoWindow}]
  BY DEF BerthInv, TypeOK
<1> SUFFICES ASSUME NEW v \in WindowId, Exists(v), windows'[v].status # windows[v].status
             PROVE  CanTransition(WindowStateMachine, windows[v].status, windows'[v].status)
  BY DEF LegalMoves
<1>2. v = w /\ windows'[v] = row
  BY <1>1
<1> QED BY <1>2

LEMMA NothingMoves == ASSUME UNCHANGED windows PROVE LegalMoves
BY DEF LegalMoves

LEMMA StatusWritten ==
  ASSUME BerthInv, NEW w \in WindowId, Exists(w), NEW st \in WindowStatus, NEW version,
         UpdateWindowStatus(w, st, version),
         Matches(w, version) => CanTransition(WindowStateMachine, windows[w].status, st)
  PROVE  LegalMoves
<1>1. CASE Matches(w, version)
  <2> DEFINE row == WithStatus(windows[w], st, windows[w].version + 1)
  <2>1. windows[w] \in WindowRow /\ windows[w].version + 1 \in Nat
    BY RowFacts
  <2>2. row.status = st
    BY <2>1, StatusSet
  <2>3. windows' = [windows EXCEPT ![w] = row]
    BY <1>1 DEF UpdateWindowStatus, WithStatus
  <2> HIDE DEF row
  <2> QED BY <1>1, <2>2, <2>3, OneStatusMoves
<1>2. CASE ~Matches(w, version)
  BY <1>2, NothingMoves DEF UpdateWindowStatus
<1> QED BY <1>1, <1>2

\* The tick's tests of the status, made when it listed, stand in for the
\* machine.
LEMMA EscalationLegal ==
  /\ CanTransition(WindowStateMachine, "allocated", "effective")
  /\ \A st \in OverdueStatus : st # "escalated" =>
       CanTransition(WindowStateMachine, st, "escalated")
BY DEF OverdueStatus, CanTransition, WindowStateMachine, AllowMany

LEMMA EscalationWritten ==
  ASSUME BerthInv, NEW row \in Listed, RowKnown(row, OverdueStatus),
         UpdateWindowAssignedTo(row.id, row.level + 1, row.version)
  PROVE  LegalMoves
<1> DEFINE w == row.id
<1>1. w \in WindowId /\ row.level + 1 \in Nat /\ Exists(w)
  BY DEF Listed, RowKnown
<1>2. CASE Matches(w, row.version)
  <2> DEFINE new == WithLevel(windows[w], row.level + 1, windows[w].version + 1)
  <2>1. windows[w] \in WindowRow /\ windows[w].version + 1 \in Nat
    BY <1>1, RowFacts
  <2>2. new.status = "escalated"
    BY <1>1, <2>1, LevelSet
  <2>3. windows' = [windows EXCEPT ![w] = new]
    BY <1>2 DEF UpdateWindowAssignedTo, WithLevel
  <2>4. windows[w].status \in OverdueStatus
    BY <1>2 DEF RowKnown
  <2> HIDE DEF new
  <2> QED BY <1>1, <2>2, <2>3, <2>4, EscalationLegal, OneStatusMoves
<1>3. CASE ~Matches(w, row.version)
  BY <1>3, NothingMoves DEF UpdateWindowAssignedTo
<1> QED BY <1>2, <1>3

LEMMA LegalStep == BerthInv /\ [Next]_vars => LegalMoves
<1> SUFFICES ASSUME BerthInv, [Next]_vars PROVE LegalMoves
  OBVIOUS
<1>1. ASSUME NEW c \in Client, BatchInsert(c) PROVE LegalMoves
  <2>1. PICK w \in WindowId : ~Exists(w) /\ StoreWindow(w, Head(call[c].items))
    BY <1>1 DEF BatchInsert
  <2> QED BY <2>1, OneStatusMoves DEF StoreWindow
<1>2. ASSUME NEW c \in Client, EditWrite(c) PROVE LegalMoves
  <2>1. /\ call[c].id \in WindowId /\ Exists(call[c].id) /\ call[c].target \in WindowStatus
        /\ Matches(call[c].id, call[c].version) =>
             CanTransition(WindowStateMachine, windows[call[c].id].status, call[c].target)
    BY <1>2, EditFacts DEF EditWrite, BerthInv, CallInv
  <2> QED BY <1>2, <2>1, StatusWritten DEF EditWrite
<1>3. CASE ActivateWrite
  <2>1. PICK row \in tick.rows : UpdateWindowStatus(row.id, "effective", row.version)
    BY <1>3 DEF ActivateWrite
  <2>2. row \in Listed /\ RowKnown(row, {"allocated"})
    BY <1>3, TickRows DEF ActivateWrite
  <2>3. /\ row.id \in WindowId /\ Exists(row.id) /\ "effective" \in WindowStatus
        /\ Matches(row.id, row.version) => windows[row.id].status = "allocated"
    BY <2>2 DEF Listed, RowKnown, WindowStatus
  <2> QED BY <2>1, <2>3, EscalationLegal, StatusWritten
<1>4. CASE EscalateWrite
  <2>1. PICK row \in tick.rows : UpdateWindowAssignedTo(row.id, row.level + 1, row.version)
    BY <1>4 DEF EscalateWrite
  <2>2. row \in Listed /\ RowKnown(row, OverdueStatus)
    BY <1>4, TickRows DEF EscalateWrite
  <2> QED BY <2>1, <2>2, EscalationWritten
<1>5. CASE UNCHANGED windows
  BY <1>5, NothingMoves
<1>6. ASSUME NEW c \in Client, ClientStep(c) PROVE LegalMoves
  <2>1. UNCHANGED windows \/ BatchInsert(c) \/ EditWrite(c)
    BY <1>6 DEF ClientStep, BatchStart, BatchFails, Release, ForceIntervene, CallEnds
  <2> QED BY <1>1, <1>2, <1>5, <2>1
<1>7. CASE EngineTick \/ TickFails \/ SchedulerCrash \/ ClockTick \/ UNCHANGED vars
  <2>1. UNCHANGED windows \/ ActivateWrite \/ EscalateWrite
    BY <1>7 DEF EngineTick, ActivateList, EscalateList, EscalateRecord, TickFails, SchedulerCrash,
                ClockTick, vars
  <2> QED BY <1>3, <1>4, <1>5, <2>1
<1> QED BY <1>6, <1>7 DEF Next

\* The status of a window moves only along its machine, although the tick
\* writes without testing the transition: a window released or cancelled
\* after it was listed stays so.
THEOREM LegalForGood == Spec => OnlyLegalMoves
<1>1. BerthInv /\ [Next]_vars => [LegalMoves]_vars
  BY LegalStep
<1>2. OnlyLegalMoves <=> [][LegalMoves]_vars
  BY DEF OnlyLegalMoves, LegalMoves
<1> QED BY <1>1, <1>2, BerthInvariant, PTL DEF Spec
=============================================================================
